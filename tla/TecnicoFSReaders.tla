--------------------------- MODULE TecnicoFSReaders ---------------------------
(***************************************************************************)
(* One file of Projeto1 written by one thread while others read it, each   *)
(* through a handle of its own: tfs_write and tfs_read without any lock,   *)
(* one step for each load or store of what the threads share (the inode,   *)
(* the block and each of its bytes), taken one at a time in program order. *)
(*                                                                         *)
(* A byte of the file has its position for a value, so that a byte the     *)
(* writer stored can be told from memory nobody wrote (Junk).  The file    *)
(* may have been written to before the threads start.  An entry of the     *)
(* open file table is used by its thread only, and a block of the free     *)
(* list by the writer: what is local to a thread is part of the step that  *)
(* follows it.                                                             *)
(***************************************************************************)
EXTENDS Integers

CONSTANTS
    Writer, Readers,
    Blocks,         \* blocks besides the root directory's
    BLOCK_SIZE,
    SIZE_T,         \* number of values of a size_t
    MAX_LEN,        \* bound: longest buffer of a caller
    Junk

Threads == Readers \cup {Writer}

ASSUME ReadersAssumption ==
    /\ Writer \notin Readers
    /\ Blocks \subseteq Nat
    /\ BLOCK_SIZE \in Nat \ {0} /\ MAX_LEN \in Nat
    /\ SIZE_T \in Nat /\ SIZE_T > BLOCK_SIZE + MAX_LEN
    /\ Junk \notin Nat

VARIABLES
    inode,          \* of the file: i_size and i_data_block
    free_blocks,    \* blocks that are FREE
    fs_data,        \* the bytes of each block
    of_offset,      \* of each thread's handle
    pc,             \* next step of each thread's call, "idle" between calls
    count,          \* to_write or to_read of each thread's call
    block,          \* the block each thread's call uses
    done,           \* bytes its memcpy has copied
    buffer          \* the bytes tfs_read has delivered

file == <<inode, free_blocks, fs_data>>
vars == <<file, of_offset, pc, count, block, done, buffer>>

Positions == 0 .. BLOCK_SIZE - 1
NoBlock == -1

\* What the main thread wrote is in a block; other files may have taken others.
Init ==
    /\ \E size \in 0 .. BLOCK_SIZE, b \in Blocks :
          /\ inode = [i_size |-> size,
                      i_data_block |-> IF size = 0 THEN NoBlock ELSE b]
          /\ free_blocks \in SUBSET (IF size = 0 THEN Blocks ELSE Blocks \ {b})
          /\ fs_data = [c \in Blocks |-> [p \in Positions |->
                           IF c = b /\ p < size THEN p ELSE Junk]]
          /\ of_offset \in [Threads -> 0 .. size]
    /\ pc = [t \in Threads |-> "idle"]
    /\ count = [t \in Threads |-> 0]
    /\ block = [t \in Threads |-> NoBlock]
    /\ done = [t \in Threads |-> 0]
    /\ buffer = [t \in Threads |-> [k \in {} |-> Junk]]

At(t, step) == pc[t] = step
Goto(t, step) == pc' = [pc EXCEPT ![t] = step]
Sets(v, t, x) == [v EXCEPT ![t] = x]

(***************************************************************************)
(* tfs_write                                                               *)
(***************************************************************************)
WriteCount(len) ==
    IF len + of_offset[Writer] > BLOCK_SIZE THEN BLOCK_SIZE - of_offset[Writer] ELSE len

WriteStart(len) ==
    /\ At(Writer, "idle")
    /\ WriteCount(len) > 0
    /\ count' = Sets(count, Writer, WriteCount(len))
    /\ done' = Sets(done, Writer, 0)
    /\ Goto(Writer, IF inode.i_size = 0 THEN "alloc" ELSE "get_block")
    /\ UNCHANGED <<file, of_offset, block, buffer>>

\* data_block_alloc takes a block, or the call returns -1.
BlockAlloc ==
    /\ At(Writer, "alloc")
    /\ IF free_blocks = {} THEN Goto(Writer, "idle") /\ UNCHANGED file
       ELSE /\ \E b \in free_blocks :
                  /\ \A c \in free_blocks : b <= c
                  /\ free_blocks' = free_blocks \ {b}
                  /\ inode' = [inode EXCEPT !.i_data_block = b]
            /\ Goto(Writer, "get_block")
            /\ UNCHANGED fs_data
    /\ UNCHANGED <<of_offset, count, block, done, buffer>>

WriteBlock ==
    /\ At(Writer, "get_block")
    /\ block' = Sets(block, Writer, inode.i_data_block)
    /\ Goto(Writer, "copy")
    /\ UNCHANGED <<file, of_offset, count, done, buffer>>

\* Fault variant: the size is stored before the bytes are.
WriteByteAfterSize ==
    /\ At(Writer, "copy")
    /\ inode' = [inode EXCEPT !.i_size =
           IF of_offset[Writer] + count[Writer] > @
             THEN of_offset[Writer] + count[Writer] ELSE @]
    /\ LET p == of_offset[Writer] + done[Writer]
       IN fs_data' = [fs_data EXCEPT ![block[Writer]][p] = p]
    /\ done' = Sets(done, Writer, done[Writer] + 1)
    /\ Goto(Writer, IF done'[Writer] = count[Writer] THEN "grow" ELSE "copy")
    /\ UNCHANGED <<free_blocks, of_offset, count, block, buffer>>

\* One byte of the memcpy.
WriteByte ==
    /\ At(Writer, "copy")
    /\ LET p == of_offset[Writer] + done[Writer]
       IN fs_data' = [fs_data EXCEPT ![block[Writer]][p] = p]
    /\ done' = Sets(done, Writer, done[Writer] + 1)
    /\ Goto(Writer, IF done'[Writer] = count[Writer] THEN "grow" ELSE "copy")
    /\ UNCHANGED <<inode, free_blocks, of_offset, count, block, buffer>>

\* The offset moves, then the size grows to it.
Grow ==
    /\ At(Writer, "grow")
    /\ of_offset' = [of_offset EXCEPT ![Writer] = @ + count[Writer]]
    /\ inode' = [inode EXCEPT !.i_size =
           IF of_offset'[Writer] > @ THEN of_offset'[Writer] ELSE @]
    /\ Goto(Writer, "idle")
    /\ UNCHANGED <<free_blocks, fs_data, count, block, done, buffer>>

(***************************************************************************)
(* tfs_read                                                                *)
(***************************************************************************)
\* Fault variant: the bytes from the start of the file are counted.
ReadCountFromStart(t, len) == IF inode.i_size > len THEN len ELSE inode.i_size

\* The subtraction is one of size_t.
ReadCount(t, len) ==
    LET to_read == (inode.i_size - of_offset[t]) % SIZE_T
    IN IF to_read > len THEN len ELSE to_read

ReadStart(t, len) ==
    /\ At(t, "idle")
    /\ ReadCount(t, len) > 0
    /\ count' = Sets(count, t, ReadCount(t, len))
    /\ done' = Sets(done, t, 0)
    /\ buffer' = Sets(buffer, t, [k \in {} |-> Junk])
    /\ Goto(t, "get_block")
    /\ UNCHANGED <<file, of_offset, block>>

ReadBlock(t) ==
    /\ At(t, "get_block")
    /\ block' = Sets(block, t, inode.i_data_block)
    /\ Goto(t, "copy")
    /\ UNCHANGED <<file, of_offset, count, done, buffer>>

\* A byte outside every block is nobody's.
ByteAt(b, p) == IF b \in Blocks /\ p \in Positions THEN fs_data[b][p] ELSE Junk

\* One byte of the memcpy; after the last the offset moves.
ReadByte(t) ==
    /\ At(t, "copy")
    /\ buffer' = Sets(buffer, t,
           [k \in 0 .. done[t] |->
               IF k < done[t] THEN buffer[t][k] ELSE ByteAt(block[t], of_offset[t] + k)])
    /\ done' = Sets(done, t, done[t] + 1)
    /\ IF done'[t] = count[t]
       THEN Goto(t, "idle") /\ of_offset' = [of_offset EXCEPT ![t] = @ + count[t]]
       ELSE UNCHANGED <<pc, of_offset>>
    /\ UNCHANGED <<file, count, block>>

(***************************************************************************)
(* Specification                                                           *)
(***************************************************************************)
Next ==
    \/ \E len \in 0 .. MAX_LEN : WriteStart(len)
    \/ BlockAlloc \/ WriteBlock \/ WriteByte \/ Grow
    \/ \E t \in Readers :
          \/ \E len \in 0 .. MAX_LEN : ReadStart(t, len)
          \/ ReadBlock(t) \/ ReadByte(t)

Spec == Init /\ [][Next]_vars

(***************************************************************************)
(* Properties                                                              *)
(***************************************************************************)
\* operations.c:313-331, 357-369.  Without a lock a reader still gets only bytes
\* that were written, in the order of the file and without gaps: the size of the
\* file is stored last, and nobody moves a reader's offset past it.
ReadersSeeWrites ==
    \A t \in Readers : \A k \in DOMAIN buffer[t] :
        buffer[t][k] = (IF At(t, "copy") THEN of_offset[t]
                                         ELSE of_offset[t] - count[t]) + k
=============================================================================
