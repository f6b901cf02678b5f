------------------------ MODULE TecnicoFSReadersProofs ------------------------
(***************************************************************************)
(* Proof that a thread which reads a file of Projeto1 while another writes *)
(* it gets written bytes only, in the order of the file: for any number of *)
(* readers and of blocks, any size of a block and any lengths.             *)
(***************************************************************************)
EXTENDS TecnicoFSReaders, TLAPS

(***************************************************************************)
(* The inductive invariant                                                 *)
(***************************************************************************)
FileType ==
    /\ inode \in [i_size : 0 .. BLOCK_SIZE, i_data_block : Blocks \cup {NoBlock}]
    /\ free_blocks \subseteq Blocks
    /\ fs_data \in [Blocks -> [Positions -> Positions \cup {Junk}]]

ThreadsType ==
    /\ of_offset \in [Threads -> Nat]
    /\ pc \in [Threads -> {"idle", "alloc", "get_block", "copy", "grow"}]
    /\ count \in [Threads -> Nat]
    /\ done \in [Threads -> Nat]
    /\ block \in [Threads -> Blocks \cup {NoBlock}]
    /\ buffer = [t \in Threads |-> buffer[t]]

\* Positions from .. to - 1 of block b hold what was written there.
Stored(b, from, to) == \A p \in Positions : from <= p /\ p < to => fs_data[b][p] = p

\* A file that is not empty has a block, which holds its bytes up to its size.
FileStored ==
    inode.i_size > 0 =>
        /\ inode.i_data_block \in Blocks
        /\ Stored(inode.i_data_block, 0, inode.i_size)

\* The end of the bytes the writer's call writes.
WriteEnd == of_offset[Writer] + count[Writer]

\* The writer starts inside the file and ends inside the block, and what its
\* memcpy has copied is stored.
WriterInv ==
    /\ of_offset[Writer] <= inode.i_size
    /\ pc[Writer] # "idle" => count[Writer] > 0 /\ WriteEnd <= BLOCK_SIZE
    /\ pc[Writer] = "alloc" => inode.i_size = 0
    /\ pc[Writer] \in {"alloc", "get_block"} => done[Writer] = 0
    /\ pc[Writer] = "get_block" => inode.i_data_block \in Blocks
    /\ pc[Writer] \in {"copy", "grow"} =>
          /\ block[Writer] = inode.i_data_block
          /\ inode.i_data_block \in Blocks
          /\ Stored(block[Writer], of_offset[Writer], of_offset[Writer] + done[Writer])
    /\ pc[Writer] = "copy" => done[Writer] < count[Writer]
    /\ pc[Writer] = "grow" => done[Writer] = count[Writer]

\* What reader t delivers started at this position of the file.
ReadFrom(t) == IF At(t, "copy") THEN of_offset[t] ELSE of_offset[t] - count[t]

\* A reader reads below the size of the file, from the file's block.
ReaderInv(t) ==
    /\ pc[t] \in {"idle", "get_block", "copy"}
    /\ of_offset[t] <= inode.i_size
    /\ pc[t] # "idle" => count[t] > 0 /\ of_offset[t] + count[t] <= inode.i_size
    /\ pc[t] = "get_block" => done[t] = 0
    /\ pc[t] = "copy" => done[t] < count[t] /\ block[t] = inode.i_data_block
    /\ DOMAIN buffer[t] = 0 .. done[t] - 1
    /\ \A k \in DOMAIN buffer[t] : buffer[t][k] = ReadFrom(t) + k

IInv ==
    /\ FileType
    /\ ThreadsType
    /\ FileStored
    /\ WriterInv
    /\ \A t \in Readers : ReaderInv(t)

\* Facts about the constants every step uses.
LEMMA Constants ==
    /\ Writer \notin Readers /\ Writer \in Threads /\ Readers \subseteq Threads
    /\ BLOCK_SIZE \in Nat /\ BLOCK_SIZE > 0
    /\ SIZE_T \in Nat /\ SIZE_T > BLOCK_SIZE
    /\ MAX_LEN \in Nat
    /\ NoBlock \notin Blocks /\ NoBlock \in Int
    /\ Positions \subseteq Nat
BY ReadersAssumption DEF Threads, NoBlock, Positions

\* The subtraction of tfs_read does not wrap for an offset inside the file.
LEMMA NoWrap ==
    ASSUME NEW n \in Nat, NEW m \in Nat, n < m
    PROVE  n % m = n
OBVIOUS

(***************************************************************************)
(* What a step of one thread leaves alone                                  *)
(***************************************************************************)
\* Variables of thread t's call.
Call(t) == <<of_offset[t], pc[t], count[t], block[t], done[t], buffer[t]>>

\* A reader is not disturbed while the file only grows and keeps its block.
LEMMA ReaderKept ==
    ASSUME IInv, NEW t \in Readers, Call(t)' = Call(t),
           inode'.i_size \in Nat, inode.i_size <= inode'.i_size,
           inode.i_size > 0 => inode'.i_data_block = inode.i_data_block
    PROVE  ReaderInv(t)'
<1> USE Constants
<1>1. /\ of_offset'[t] = of_offset[t] /\ pc'[t] = pc[t] /\ count'[t] = count[t]
      /\ block'[t] = block[t] /\ done'[t] = done[t] /\ buffer'[t] = buffer[t]
  BY DEF Call
<1>2. ReaderInv(t)
  BY DEF IInv
<1>3. of_offset[t] \in Nat /\ count[t] \in Nat /\ inode.i_size \in Nat
  BY DEF IInv, ThreadsType, FileType
<1>4. ReadFrom(t)' = ReadFrom(t)
  BY <1>1 DEF ReadFrom, At
<1>5. pc[t] # "idle" => inode.i_size > 0
  BY <1>2, <1>3 DEF ReaderInv
<1>6. of_offset[t] <= inode'.i_size
  BY <1>2, <1>3 DEF ReaderInv
<1>7. pc[t] # "idle" => of_offset[t] + count[t] <= inode'.i_size
  BY <1>2, <1>3 DEF ReaderInv
<1> QED BY <1>1, <1>2, <1>4, <1>5, <1>6, <1>7 DEF ReaderInv

\* Neither is the writer, by a step that changes no table.
LEMMA WriterKept ==
    ASSUME IInv, Call(Writer)' = Call(Writer), UNCHANGED <<inode, fs_data>>
    PROVE  WriterInv'
<1>1. /\ of_offset'[Writer] = of_offset[Writer] /\ pc'[Writer] = pc[Writer]
      /\ count'[Writer] = count[Writer] /\ block'[Writer] = block[Writer]
      /\ done'[Writer] = done[Writer]
  BY DEF Call
<1> QED BY <1>1 DEF IInv, WriterInv, WriteEnd, Stored

(***************************************************************************)
(* tfs_write                                                               *)
(***************************************************************************)
LEMMA WriteStartStep ==
    ASSUME IInv, NEW len \in 0 .. MAX_LEN, WriteStart(len)
    PROVE  IInv'
<1> USE Constants
<1>1. /\ of_offset[Writer] \in Nat /\ of_offset[Writer] <= inode.i_size
      /\ inode.i_size \in 0 .. BLOCK_SIZE /\ len \in Nat
  BY DEF IInv, WriterInv, ThreadsType, FileType
<1>2. /\ WriteCount(len) \in Nat /\ WriteCount(len) > 0
      /\ of_offset[Writer] + WriteCount(len) <= BLOCK_SIZE
  BY <1>1 DEF WriteStart, WriteCount
<1>3. /\ count' = [count EXCEPT ![Writer] = WriteCount(len)]
      /\ done' = [done EXCEPT ![Writer] = 0]
      /\ pc' = [pc EXCEPT ![Writer] = IF inode.i_size = 0 THEN "alloc" ELSE "get_block"]
      /\ UNCHANGED <<inode, free_blocks, fs_data, of_offset, block, buffer>>
  BY DEF WriteStart, Sets, Goto, file
<1>4. FileType' /\ FileStored'
  BY <1>3 DEF IInv, FileType, FileStored, Stored
<1>5. ThreadsType'
  BY <1>2, <1>3 DEF IInv, ThreadsType
<1>6. WriterInv'
  <2>1. /\ count'[Writer] = WriteCount(len) /\ done'[Writer] = 0
        /\ pc'[Writer] = IF inode.i_size = 0 THEN "alloc" ELSE "get_block"
    BY <1>3 DEF IInv, ThreadsType
  <2>2. inode.i_size # 0 => inode.i_data_block \in Blocks
    BY <1>1 DEF IInv, FileStored
  <2> QED BY <1>1, <1>2, <1>3, <2>1, <2>2 DEF WriterInv, WriteEnd
<1>7. \A t \in Readers : ReaderInv(t)'
  <2> TAKE t \in Readers
  <2>1. Call(t)' = Call(t)
    BY <1>3 DEF Call, IInv, ThreadsType
  <2> QED BY <1>1, <1>3, <2>1, ReaderKept
<1> QED BY <1>4, <1>5, <1>6, <1>7 DEF IInv

LEMMA BlockAllocStep ==
    ASSUME IInv, BlockAlloc
    PROVE  IInv'
<1> USE Constants
<1>1. inode.i_size = 0 /\ pc[Writer] = "alloc"
  BY DEF IInv, WriterInv, BlockAlloc, At
<1>2. /\ UNCHANGED <<fs_data, of_offset, count, block, done, buffer>>
      /\ free_blocks' \subseteq Blocks
      /\ \/ pc' = [pc EXCEPT ![Writer] = "idle"] /\ inode' = inode
         \/ /\ pc' = [pc EXCEPT ![Writer] = "get_block"]
            /\ \E b \in Blocks : inode' = [inode EXCEPT !.i_data_block = b]
  <2>1. CASE free_blocks = {}
    BY <2>1 DEF BlockAlloc, Goto, file, IInv, FileType
  <2>2. CASE free_blocks # {}
    <3>1. PICK b \in free_blocks : /\ free_blocks' = free_blocks \ {b}
                                   /\ inode' = [inode EXCEPT !.i_data_block = b]
      BY <2>2 DEF BlockAlloc
    <3> QED BY <2>2, <3>1 DEF BlockAlloc, Goto, IInv, FileType
  <2> QED BY <2>1, <2>2
<1>3. FileType' /\ inode'.i_size = 0
  BY <1>1, <1>2 DEF IInv, FileType
<1>4. FileStored'
  BY <1>3 DEF FileStored
<1>5. ThreadsType'
  BY <1>2 DEF IInv, ThreadsType
<1>6. WriterInv'
  <2>1. \/ pc'[Writer] = "idle"
        \/ pc'[Writer] = "get_block" /\ inode'.i_data_block \in Blocks
    BY <1>2 DEF IInv, ThreadsType, FileType
  <2> QED BY <1>1, <1>2, <1>3, <2>1 DEF IInv, WriterInv, WriteEnd
<1>7. \A t \in Readers : ReaderInv(t)'
  <2> TAKE t \in Readers
  <2>1. Call(t)' = Call(t)
    BY <1>2 DEF Call, IInv, ThreadsType
  <2> QED BY <1>1, <1>3, <2>1, ReaderKept
<1> QED BY <1>3, <1>4, <1>5, <1>6, <1>7 DEF IInv

LEMMA WriteBlockStep ==
    ASSUME IInv, WriteBlock
    PROVE  IInv'
<1> USE Constants
<1>1. /\ block' = [block EXCEPT ![Writer] = inode.i_data_block]
      /\ pc' = [pc EXCEPT ![Writer] = "copy"]
      /\ pc[Writer] = "get_block"
      /\ UNCHANGED <<inode, free_blocks, fs_data, of_offset, count, done, buffer>>
  BY DEF WriteBlock, At, Sets, Goto, file
<1>2. FileType' /\ FileStored'
  BY <1>1 DEF IInv, FileType, FileStored, Stored
<1>3. ThreadsType'
  BY <1>1 DEF IInv, ThreadsType, FileType
<1>4. WriterInv'
  <2>1. block'[Writer] = inode.i_data_block /\ pc'[Writer] = "copy"
    BY <1>1 DEF IInv, ThreadsType
  <2>2. /\ inode.i_data_block \in Blocks /\ done[Writer] = 0 /\ count[Writer] > 0
        /\ of_offset[Writer] <= inode.i_size /\ WriteEnd <= BLOCK_SIZE
        /\ of_offset[Writer] \in Nat /\ count[Writer] \in Nat
    BY <1>1 DEF IInv, WriterInv, ThreadsType
  <2>3. Stored(block[Writer], of_offset[Writer], of_offset[Writer] + done[Writer])'
    <3>1. \A q \in Positions : ~ (of_offset[Writer] <= q /\ q < of_offset[Writer] + 0)
      BY <2>2
    <3> QED BY <1>1, <2>2, <3>1 DEF Stored
  <2> QED BY <1>1, <2>1, <2>2, <2>3 DEF WriterInv, WriteEnd
<1>5. \A t \in Readers : ReaderInv(t)'
  <2> TAKE t \in Readers
  <2>1. Call(t)' = Call(t)
    BY <1>1 DEF Call, IInv, ThreadsType
  <2> QED BY <1>1, <2>1, ReaderKept DEF IInv, FileType
<1> QED BY <1>2, <1>3, <1>4, <1>5 DEF IInv

\* Storing the value of a position at it disturbs nothing that is stored.
LEMMA WriteByteStep ==
    ASSUME IInv, WriteByte
    PROVE  IInv'
<1> USE Constants
<1> DEFINE from == of_offset[Writer]
           p == from + done[Writer]
           b == inode.i_data_block
<1>1. /\ pc[Writer] = "copy" /\ block[Writer] = b /\ b \in Blocks
      /\ from \in Nat /\ done[Writer] \in Nat /\ count[Writer] \in Nat
      /\ done[Writer] < count[Writer] /\ from + count[Writer] <= BLOCK_SIZE
      /\ Stored(b, from, p)
  BY DEF IInv, WriterInv, WriteEnd, ThreadsType, WriteByte, At
<1>2. p \in Positions
  BY <1>1 DEF Positions
<1>3. /\ fs_data' = [fs_data EXCEPT ![b][p] = p]
      /\ done' = [done EXCEPT ![Writer] = done[Writer] + 1]
      /\ pc' = [pc EXCEPT ![Writer] =
                   IF done'[Writer] = count[Writer] THEN "grow" ELSE "copy"]
      /\ UNCHANGED <<inode, free_blocks, of_offset, count, block, buffer>>
  BY <1>1 DEF WriteByte, Sets, Goto
<1>4. FileType'
  BY <1>1, <1>2, <1>3 DEF IInv, FileType
<1>5. \A q \in Positions : fs_data'[b][q] = IF q = p THEN p ELSE fs_data[b][q]
  BY <1>1, <1>2, <1>3 DEF IInv, FileType
<1>6. FileStored'
  BY <1>3, <1>5 DEF IInv, FileStored, Stored
<1>7. ThreadsType'
  BY <1>1, <1>3 DEF IInv, ThreadsType
<1>8. WriterInv'
  <2>1. /\ done'[Writer] = done[Writer] + 1
        /\ pc'[Writer] = IF done'[Writer] = count[Writer] THEN "grow" ELSE "copy"
    BY <1>3 DEF IInv, ThreadsType
  <2>2. \A q \in Positions : q < p + 1 => q < p \/ q = p
    BY <1>1
  <2>3. Stored(block[Writer], of_offset[Writer], of_offset[Writer] + done[Writer])'
    BY <1>1, <1>3, <1>5, <2>1, <2>2 DEF Stored
  <2>4. of_offset'[Writer] <= inode'.i_size
    BY <1>3 DEF IInv, WriterInv
  <2> QED BY <1>1, <1>3, <2>1, <2>3, <2>4 DEF WriterInv, WriteEnd
<1>9. \A t \in Readers : ReaderInv(t)'
  <2> TAKE t \in Readers
  <2>1. Call(t)' = Call(t)
    BY <1>3 DEF Call, IInv, ThreadsType
  <2> QED BY <1>3, <2>1, ReaderKept DEF IInv, FileType
<1> QED BY <1>4, <1>6, <1>7, <1>8, <1>9 DEF IInv

\* The size grows to the end of the bytes that are all stored.
LEMMA GrowStep ==
    ASSUME IInv, Grow
    PROVE  IInv'
<1> USE Constants
<1> DEFINE from == of_offset[Writer]
           b == inode.i_data_block
<1>1. /\ pc[Writer] = "grow" /\ b \in Blocks
      /\ from \in Nat /\ count[Writer] \in Nat /\ count[Writer] > 0
      /\ inode.i_size \in Nat /\ inode.i_size <= BLOCK_SIZE
      /\ from <= inode.i_size /\ WriteEnd <= BLOCK_SIZE
      /\ Stored(b, from, WriteEnd)
  BY DEF IInv, WriterInv, WriteEnd, ThreadsType, FileType, Grow, At
<1>2. WriteEnd \in Nat
  BY <1>1 DEF WriteEnd
<1>3. of_offset' = [of_offset EXCEPT ![Writer] = WriteEnd]
  BY DEF Grow, WriteEnd, IInv, ThreadsType
<1>4. of_offset'[Writer] = WriteEnd
  BY <1>3 DEF IInv, ThreadsType
<1>5. /\ inode' = [inode EXCEPT !.i_size = IF WriteEnd > @ THEN WriteEnd ELSE @]
      /\ pc' = [pc EXCEPT ![Writer] = "idle"]
      /\ UNCHANGED <<free_blocks, fs_data, count, block, done, buffer>>
  BY <1>4 DEF Grow, Goto
<1>6. /\ inode'.i_size = IF WriteEnd > inode.i_size THEN WriteEnd ELSE inode.i_size
      /\ inode'.i_data_block = b
  BY <1>5 DEF IInv, FileType
<1>7. inode'.i_size \in 0 .. BLOCK_SIZE /\ inode.i_size <= inode'.i_size
  BY <1>1, <1>2, <1>6
<1>8. FileType'
  BY <1>1, <1>5, <1>7 DEF IInv, FileType
<1>9. FileStored'
  <2>1. \A q \in Positions :
            q < inode'.i_size => q < inode.i_size \/ (from <= q /\ q < WriteEnd)
    <3> TAKE q \in Positions
    <3> HAVE q < inode'.i_size
    <3>1. q \in Nat
      OBVIOUS
    <3>2. CASE WriteEnd > inode.i_size
      BY <1>1, <1>2, <1>6, <3>1, <3>2
    <3>3. CASE ~ (WriteEnd > inode.i_size)
      BY <1>6, <3>3
    <3> QED BY <3>2, <3>3
  <2>2. \A q \in Positions : q < inode.i_size => fs_data[b][q] = q
    <3> TAKE q \in Positions
    <3> HAVE q < inode.i_size
    <3>1. inode.i_size > 0 /\ 0 <= q
      BY <1>1
    <3> QED BY <3>1 DEF IInv, FileStored, Stored
  <2> QED BY <1>1, <1>5, <1>6, <2>1, <2>2 DEF FileStored, Stored
<1>10. ThreadsType'
  BY <1>2, <1>3, <1>5 DEF IInv, ThreadsType
<1>11. WriterInv'
  <2>1. pc'[Writer] = "idle"
    BY <1>5 DEF IInv, ThreadsType
  <2> QED BY <1>1, <1>2, <1>4, <1>6, <2>1 DEF WriterInv
<1>12. \A t \in Readers : ReaderInv(t)'
  <2> TAKE t \in Readers
  <2>1. Call(t)' = Call(t)
    BY <1>3, <1>5 DEF Call, IInv, ThreadsType
  <2> QED BY <1>6, <1>7, <2>1, ReaderKept
<1> QED BY <1>8, <1>9, <1>10, <1>11, <1>12 DEF IInv

(***************************************************************************)
(* tfs_read                                                                *)
(***************************************************************************)
\* The calls of the other threads, when reader t takes a step.
LEMMA OthersKept ==
    ASSUME IInv, NEW t \in Readers, UNCHANGED <<inode, fs_data>>,
           \A u \in Threads \ {t} : Call(u)' = Call(u)
    PROVE  WriterInv' /\ \A u \in Readers \ {t} : ReaderInv(u)'
<1> USE Constants
<1>1. WriterInv'
  BY WriterKept
<1>2. ASSUME NEW u \in Readers \ {t} PROVE ReaderInv(u)'
  <2>1. inode.i_size \in Nat
    BY DEF IInv, FileType
  <2> QED BY <2>1, ReaderKept
<1> QED BY <1>1, <1>2

LEMMA ReadStartStep ==
    ASSUME IInv, NEW t \in Readers, NEW len \in 0 .. MAX_LEN, ReadStart(t, len)
    PROVE  IInv'
<1> USE Constants
<1>1. /\ of_offset[t] \in Nat /\ of_offset[t] <= inode.i_size
      /\ inode.i_size \in Nat /\ inode.i_size <= BLOCK_SIZE /\ len \in Nat
  <2>1. ReaderInv(t) /\ t \in Threads /\ len \in Nat
    BY DEF IInv
  <2>2. of_offset[t] \in Nat
    BY <2>1 DEF IInv, ThreadsType
  <2>3. inode.i_size \in 0 .. BLOCK_SIZE
    BY DEF IInv, FileType
  <2> QED BY <2>1, <2>2, <2>3 DEF ReaderInv
<1>2. (inode.i_size - of_offset[t]) % SIZE_T = inode.i_size - of_offset[t]
  <2>1. /\ inode.i_size - of_offset[t] \in Nat
        /\ inode.i_size - of_offset[t] < SIZE_T
    BY <1>1
  <2> QED BY <2>1, NoWrap
<1>3. /\ ReadCount(t, len) \in Nat /\ ReadCount(t, len) > 0
      /\ of_offset[t] + ReadCount(t, len) <= inode.i_size
  <2> DEFINE left == inode.i_size - of_offset[t]
  <2>1. ReadCount(t, len) = IF left > len THEN len ELSE left
    BY <1>2 DEF ReadCount
  <2>2. ReadCount(t, len) > 0
    BY DEF ReadStart
  <2> QED BY <1>1, <2>1, <2>2
<1>4. /\ count' = [count EXCEPT ![t] = ReadCount(t, len)]
      /\ done' = [done EXCEPT ![t] = 0]
      /\ buffer' = [buffer EXCEPT ![t] = [k \in {} |-> Junk]]
      /\ pc' = [pc EXCEPT ![t] = "get_block"]
      /\ UNCHANGED <<inode, free_blocks, fs_data, of_offset, block>>
  BY DEF ReadStart, Sets, Goto, file
<1>5. FileType' /\ FileStored'
  BY <1>4 DEF IInv, FileType, FileStored, Stored
<1>6. ThreadsType'
  BY <1>3, <1>4 DEF IInv, ThreadsType
<1>7. ReaderInv(t)'
  <2>1. /\ count'[t] = ReadCount(t, len) /\ done'[t] = 0 /\ pc'[t] = "get_block"
        /\ buffer'[t] = [k \in {} |-> Junk]
    BY <1>4 DEF IInv, ThreadsType
  <2>2. DOMAIN buffer'[t] = {} /\ 0 .. 0 - 1 = {}
    BY <2>1
  <2> QED BY <1>1, <1>3, <1>4, <2>1, <2>2 DEF ReaderInv
<1>8. \A u \in Threads \ {t} : Call(u)' = Call(u)
  BY <1>4 DEF Call, IInv, ThreadsType
<1> QED BY <1>4, <1>5, <1>6, <1>7, <1>8, OthersKept DEF IInv

LEMMA ReadBlockStep ==
    ASSUME IInv, NEW t \in Readers, ReadBlock(t)
    PROVE  IInv'
<1> USE Constants
<1>1. /\ block' = [block EXCEPT ![t] = inode.i_data_block]
      /\ pc' = [pc EXCEPT ![t] = "copy"]
      /\ pc[t] = "get_block"
      /\ UNCHANGED <<inode, free_blocks, fs_data, of_offset, count, done, buffer>>
  BY DEF ReadBlock, At, Sets, Goto, file
<1>2. FileType' /\ FileStored'
  BY <1>1 DEF IInv, FileType, FileStored, Stored
<1>3. ThreadsType'
  BY <1>1 DEF IInv, ThreadsType, FileType
<1>4. ReaderInv(t)'
  <2>1. block'[t] = inode.i_data_block /\ pc'[t] = "copy"
    BY <1>1 DEF IInv, ThreadsType
  <2>2. ReaderInv(t) /\ done[t] = 0 /\ count[t] > 0
    BY <1>1 DEF IInv, ReaderInv
  <2>3. DOMAIN buffer[t] = {}
    BY <2>2 DEF ReaderInv
  <2> QED BY <1>1, <2>1, <2>2, <2>3 DEF ReaderInv
<1>5. \A u \in Threads \ {t} : Call(u)' = Call(u)
  BY <1>1 DEF Call, IInv, ThreadsType
<1> QED BY <1>1, <1>2, <1>3, <1>4, <1>5, OthersKept DEF IInv

\* The byte that is read is stored, as it is below the size.
LEMMA ReadByteStep ==
    ASSUME IInv, NEW t \in Readers, ReadByte(t)
    PROVE  IInv'
<1> USE Constants
<1> DEFINE from == of_offset[t]
           n == done[t]
<1>1. /\ pc[t] = "copy" /\ block[t] = inode.i_data_block
      /\ from \in Nat /\ n \in Nat /\ count[t] \in Nat /\ n < count[t]
      /\ inode.i_size \in Nat /\ inode.i_size <= BLOCK_SIZE
      /\ from + count[t] <= inode.i_size
      /\ DOMAIN buffer[t] = 0 .. n - 1
      /\ \A k \in DOMAIN buffer[t] : buffer[t][k] = ReadFrom(t) + k
  <2>1. pc[t] = "copy" /\ ReaderInv(t) /\ t \in Threads
    BY DEF IInv, ReadByte, At
  <2>2. from \in Nat /\ n \in Nat /\ count[t] \in Nat
    BY <2>1 DEF IInv, ThreadsType
  <2>3. inode.i_size \in 0 .. BLOCK_SIZE
    BY DEF IInv, FileType
  <2> QED BY <2>1, <2>2, <2>3 DEF ReaderInv
<1>2. ReadFrom(t) = from
  BY <1>1 DEF ReadFrom, At
<1>3. ByteAt(block[t], from + n) = from + n
  <2>1. from + n \in Positions /\ inode.i_size > 0 /\ from + n < inode.i_size
    BY <1>1 DEF Positions
  <2>2. inode.i_data_block \in Blocks /\ fs_data[inode.i_data_block][from + n] = from + n
    BY <1>1, <2>1 DEF IInv, FileStored, Stored
  <2> QED BY <1>1, <2>1, <2>2 DEF ByteAt
<1>4. /\ buffer' = [buffer EXCEPT ![t] =
             [k \in 0 .. n |-> IF k < n THEN buffer[t][k] ELSE ByteAt(block[t], from + k)]]
      /\ done' = [done EXCEPT ![t] = n + 1]
      /\ UNCHANGED <<inode, free_blocks, fs_data, count, block>>
  BY DEF ReadByte, Sets, file
<1>5. /\ done'[t] = n + 1
      /\ buffer'[t] =
             [k \in 0 .. n |-> IF k < n THEN buffer[t][k] ELSE ByteAt(block[t], from + k)]
  BY <1>4 DEF IInv, ThreadsType
<1>6. DOMAIN buffer'[t] = 0 .. done'[t] - 1
  BY <1>1, <1>5
<1>7. \A k \in DOMAIN buffer'[t] : buffer'[t][k] = from + k
  <2> TAKE k \in DOMAIN buffer'[t]
  <2>1. k \in 0 .. n
    BY <1>5
  <2>2. CASE k < n
    BY <1>1, <1>2, <1>5, <2>1, <2>2
  <2>3. CASE k = n
    BY <1>1, <1>3, <1>5, <2>1, <2>3
  <2> QED BY <1>1, <2>1, <2>2, <2>3
<1>8. FileType' /\ FileStored'
  BY <1>4 DEF IInv, FileType, FileStored, Stored
<1>9. \/ /\ n + 1 = count[t]
         /\ pc' = [pc EXCEPT ![t] = "idle"]
         /\ of_offset' = [of_offset EXCEPT ![t] = from + count[t]]
      \/ n + 1 < count[t] /\ UNCHANGED <<pc, of_offset>>
  BY <1>1, <1>5 DEF ReadByte, Goto, IInv, ThreadsType
<1>10. ThreadsType'
  <2>1. from + count[t] \in Nat /\ n + 1 \in Nat /\ ThreadsType
    BY <1>1 DEF IInv
  <2>2. of_offset' \in [Threads -> Nat]
    BY <1>9, <2>1 DEF ThreadsType
  <2>3. pc' \in [Threads -> {"idle", "alloc", "get_block", "copy", "grow"}]
    BY <1>9, <2>1 DEF ThreadsType
  <2>4. done' \in [Threads -> Nat]
    BY <1>4, <2>1 DEF ThreadsType
  <2>5. DOMAIN buffer' = Threads /\ buffer' = [u \in DOMAIN buffer' |-> buffer'[u]]
    BY <1>4, <2>1 DEF ThreadsType
  <2> QED BY <1>4, <2>1, <2>2, <2>3, <2>4, <2>5 DEF ThreadsType
<1>11. ReaderInv(t)'
  <2>1. CASE /\ n + 1 = count[t]
             /\ pc' = [pc EXCEPT ![t] = "idle"]
             /\ of_offset' = [of_offset EXCEPT ![t] = from + count[t]]
    <3>1. pc'[t] = "idle" /\ of_offset'[t] = from + count[t] /\ count'[t] = count[t]
      BY <1>4, <2>1 DEF IInv, ThreadsType
    <3>2. ReadFrom(t)' = from
      BY <1>1, <3>1 DEF ReadFrom, At
    <3> QED BY <1>1, <1>4, <1>6, <1>7, <3>1, <3>2 DEF ReaderInv
  <2>2. CASE n + 1 < count[t] /\ UNCHANGED <<pc, of_offset>>
    <3>1. ReadFrom(t)' = from
      BY <1>1, <2>2 DEF ReadFrom, At
    <3>2. pc'[t] = "copy" /\ of_offset'[t] = from /\ count'[t] = count[t]
      BY <1>1, <1>4, <2>2
    <3>3. done'[t] < count'[t] /\ block'[t] = inode'.i_data_block
      BY <1>1, <1>4, <1>5, <2>2, <3>2
    <3>4. of_offset'[t] <= inode'.i_size /\ of_offset'[t] + count'[t] <= inode'.i_size
          /\ count'[t] > 0
      BY <1>1, <1>4, <3>2
    <3> QED BY <1>6, <1>7, <3>1, <3>2, <3>3, <3>4 DEF ReaderInv
  <2> QED BY <1>9, <2>1, <2>2
<1>12. \A u \in Threads \ {t} : Call(u)' = Call(u)
  BY <1>4, <1>9 DEF Call, IInv, ThreadsType
<1> QED BY <1>4, <1>8, <1>10, <1>11, <1>12, OthersKept DEF IInv

(***************************************************************************)
(* Theorems                                                                *)
(***************************************************************************)
\* What the main thread wrote is stored, and no call is under way.
LEMMA Initially == Init => IInv
<1> USE Constants
<1> SUFFICES ASSUME Init PROVE IInv
  OBVIOUS
<1>1. PICK size \in 0 .. BLOCK_SIZE, b \in Blocks :
        /\ inode = [i_size |-> size, i_data_block |-> IF size = 0 THEN NoBlock ELSE b]
        /\ free_blocks \in SUBSET Blocks
        /\ fs_data = [c \in Blocks |-> [p \in Positions |->
                         IF c = b /\ p < size THEN p ELSE Junk]]
        /\ of_offset \in [Threads -> 0 .. size]
  BY DEF Init
<1>2. /\ pc = [t \in Threads |-> "idle"] /\ count = [t \in Threads |-> 0]
      /\ block = [t \in Threads |-> NoBlock] /\ done = [t \in Threads |-> 0]
      /\ buffer = [t \in Threads |-> [k \in {} |-> Junk]]
  BY DEF Init
<1>3. FileType
  BY <1>1 DEF FileType
<1>4. FileStored
  BY <1>1 DEF FileStored, Stored
<1>5. \A t \in Threads : of_offset[t] \in Nat /\ of_offset[t] <= inode.i_size
  BY <1>1
<1>6. ThreadsType
  BY <1>1, <1>2, <1>5 DEF ThreadsType
<1>7. WriterInv
  BY <1>2, <1>5 DEF WriterInv
<1>8. ASSUME NEW t \in Readers PROVE ReaderInv(t)
  <2>1. DOMAIN buffer[t] = {} /\ 0 .. 0 - 1 = {}
    BY <1>2
  <2> QED BY <1>2, <1>5, <2>1 DEF ReaderInv
<1> QED BY <1>3, <1>4, <1>6, <1>7, <1>8 DEF IInv

\* The invariant of the file, the writer and every reader, for any number of
\* readers and of blocks, any block size and any lengths of the calls.
THEOREM ReadersConsistent == Spec => []IInv
<1>1. IInv /\ [Next]_vars => IInv'
  <2> SUFFICES ASSUME IInv, [Next]_vars PROVE IInv'
    OBVIOUS
  <2>1. CASE UNCHANGED vars
    BY <2>1 DEF IInv, FileType, ThreadsType, FileStored, WriterInv, WriteEnd, ReaderInv,
                ReadFrom, Stored, At, vars, file
  <2>2. CASE \E len \in 0 .. MAX_LEN : WriteStart(len)
    BY <2>2, WriteStartStep
  <2>3. CASE BlockAlloc
    BY <2>3, BlockAllocStep
  <2>4. CASE WriteBlock
    BY <2>4, WriteBlockStep
  <2>5. CASE WriteByte
    BY <2>5, WriteByteStep
  <2>6. CASE Grow
    BY <2>6, GrowStep
  <2>7. ASSUME NEW t \in Readers, \E len \in 0 .. MAX_LEN : ReadStart(t, len)
        PROVE  IInv'
    BY <2>7, ReadStartStep
  <2>8. ASSUME NEW t \in Readers, ReadBlock(t)
        PROVE  IInv'
    BY <2>8, ReadBlockStep
  <2>9. ASSUME NEW t \in Readers, ReadByte(t)
        PROVE  IInv'
    BY <2>9, ReadByteStep
  <2> QED BY <2>1, <2>2, <2>3, <2>4, <2>5, <2>6, <2>7, <2>8, <2>9 DEF Next
<1> QED BY <1>1, Initially, PTL DEF Spec

\* Whatever the threads do, a reader gets written bytes, in order, without gaps.
THEOREM ReadersSeeWritesCorrect == Spec => []ReadersSeeWrites
<1>1. IInv => ReadersSeeWrites
  BY DEF IInv, ReaderInv, ReadFrom, ReadersSeeWrites
<1> QED BY <1>1, ReadersConsistent, PTL
=============================================================================
