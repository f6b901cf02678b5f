--------------------------- MODULE TecnicoFSLocked ---------------------------
(***************************************************************************)
(* TecnicoFS of Projeto2, the library of the message broker, called by the *)
(* broker's worker threads: tfs_open, tfs_close, tfs_write, tfs_read and   *)
(* tfs_unlink, each of which locks g_library_mutex, touches the tables in  *)
(* several steps and unlocks it on every path that returns.  There are no  *)
(* links here: a file has one name.                                        *)
(*                                                                         *)
(* Every function locks before it looks at its arguments, so a call begins *)
(* when it gets the mutex.  main initialises the library before it starts  *)
(* the threads and destroys it after they end: Init is the library after   *)
(* tfs_init.  Names, the root directory and FREE entries of the open file  *)
(* table are abstracted as in TecnicoFS.  A failed ALWAYS_ASSERT leaves    *)
(* the thread without a next step, inside the mutex.                       *)
(*                                                                         *)
(* The callers' side: a file is not truncated or unlinked while a handle   *)
(* is open on it.                                                          *)
(***************************************************************************)
EXTENDS Integers, FiniteSets

CONSTANTS
    Threads, Names, TooLong, Malformed, StaleNames, Bytes,
    NoName, NoThread, Junk, None,
    MAX_INODES, MAX_BLOCKS, MAX_OPEN_FILES, BLOCK_SIZE, MAX_DIR_ENTRIES,
    MAX_LEN     \* bound: longest buffer a caller passes

ASSUME LockedAssumption ==
    /\ {MAX_INODES, MAX_BLOCKS, BLOCK_SIZE} \subseteq Nat \ {0}
    /\ {MAX_OPEN_FILES, MAX_DIR_ENTRIES, MAX_LEN} \subseteq Nat
    /\ NoName \notin Names
    /\ NoThread \notin Threads
    /\ TooLong \cup Malformed \cup StaleNames \subseteq Names
    /\ None \notin 1 .. MAX_INODES - 1
    /\ None \notin [file : 1 .. MAX_INODES - 1, pos : Nat]

Inodes  == 1 .. MAX_INODES - 1      \* inode 0 is the root's
Blocks  == 1 .. MAX_BLOCKS - 1      \* block 0 is the root's
Slots   == 0 .. MAX_DIR_ENTRIES - 1
Handles == 0 .. MAX_OPEN_FILES - 1
Offsets == 0 .. BLOCK_SIZE - 1
Modes   == SUBSET {"TFS_O_CREAT", "TFS_O_TRUNC", "TFS_O_APPEND"}
Buffers == UNION {[0 .. length - 1 -> Bytes] : length \in 0 .. MAX_LEN}

VARIABLES
    freeinode_ts, inode_table, free_blocks, fs_data, dir, open_file_table,
    g_library_mutex,  \* its holder
    pc,               \* next step of each thread, "idle" between calls
    call,             \* arguments and automatic variables of each call
    before,           \* history: the tables when the mutex was last locked
    ret, buf          \* what the last call returned and delivered

tables == <<freeinode_ts, inode_table, free_blocks, fs_data, dir, open_file_table>>
vars == <<tables, g_library_mutex, pc, call, before, ret, buf>>

NoFile == [of_inumber |-> -1, of_offset |-> 0]
NoData == [k \in {} |-> Junk]
NoCall == [name |-> NoName, mode |-> {}, fhandle |-> -1, buffer |-> NoData,
           len |-> 0, inum |-> -1, count |-> 0, offset |-> 0,
           ret |-> -1, data |-> NoData]

Snapshot == [freeinode_ts |-> freeinode_ts, inode_table |-> inode_table,
             fs_data |-> fs_data, dir |-> dir, open_file_table |-> open_file_table]

Init ==
    /\ freeinode_ts = [i \in Inodes |-> "FREE"]
    /\ inode_table = [i \in Inodes |-> [i_size |-> 0, i_data_block |-> -1]]
    /\ free_blocks = [b \in Blocks |-> "FREE"]
    /\ fs_data = [b \in Blocks |-> [k \in Offsets |-> Junk]]
    /\ \E left \in [Slots -> StaleNames \cup {NoName}] :
           dir = [s \in Slots |-> [d_name |-> left[s], d_inumber |-> -1]]
    /\ open_file_table = [h \in Handles |-> NoFile]
    /\ g_library_mutex = NoThread
    /\ pc = [t \in Threads |-> "idle"]
    /\ call = [t \in Threads |-> NoCall]
    /\ before = None
    /\ ret = 0
    /\ buf = NoData

(***************************************************************************)
(* Control                                                                 *)
(***************************************************************************)
Goto(t, step) == pc' = [pc EXCEPT ![t] = step]
Stay == UNCHANGED <<g_library_mutex, before, ret, buf>>

\* On to the unlocking, to return r.
Answer(t, r) == /\ call' = [call EXCEPT ![t].ret = r]
                /\ Goto(t, "unlock")

\* Fault variant: the mutex keeps nobody out.
LockAnyway(t, step, args) ==
    /\ pc[t] = "idle"
    /\ g_library_mutex' = t
    /\ before' = Snapshot
    /\ call' = [call EXCEPT ![t] = args]
    /\ Goto(t, step)
    /\ UNCHANGED <<tables, ret, buf>>

\* A call begins.
Lock(t, step, args) ==
    /\ pc[t] = "idle"
    /\ g_library_mutex = NoThread
    /\ g_library_mutex' = t
    /\ before' = Snapshot
    /\ call' = [call EXCEPT ![t] = args]
    /\ Goto(t, step)
    /\ UNCHANGED <<tables, ret, buf>>

\* It returns; its automatic variables go.
Unlock(t) ==
    /\ pc[t] = "unlock"
    /\ g_library_mutex' = NoThread
    /\ before' = None
    /\ ret' = call[t].ret
    /\ buf' = call[t].data
    /\ call' = [call EXCEPT ![t] = NoCall]
    /\ Goto(t, "idle")
    /\ UNCHANGED tables

IsFirst(x, S) == x \in S /\ \A y \in S : x <= y

Matches(n) == {s \in Slots : /\ n \notin Malformed
                             /\ dir[s].d_inumber # -1
                             /\ dir[s].d_name = n}

\* The callers' side.
IsOpen(n) == \E fh \in Handles, s \in Matches(n) :
                open_file_table[fh].of_inumber = dir[s].d_inumber

(***************************************************************************)
(* tfs_open                                                                *)
(***************************************************************************)
Open(t, n, mode) ==
    /\ "TFS_O_TRUNC" \in mode => ~IsOpen(n)
    /\ Lock(t, "open", [NoCall EXCEPT !.name = n, !.mode = mode])

OpenFind(t) ==
    /\ pc[t] = "open"
    /\ \/ \E s \in Slots :
             /\ IsFirst(s, Matches(call[t].name))
             /\ call' = [call EXCEPT ![t].inum = dir[s].d_inumber]
             /\ Goto(t, "truncate")
       \/ /\ Matches(call[t].name) = {}
          /\ IF call[t].name \notin Malformed /\ "TFS_O_CREAT" \in call[t].mode
               THEN Goto(t, "inode_alloc") /\ UNCHANGED call
               ELSE Answer(t, -1)
    /\ UNCHANGED tables /\ Stay

Truncate(t) ==
    LET inode == inode_table[call[t].inum]
        truncates == "TFS_O_TRUNC" \in call[t].mode /\ inode.i_size > 0
        size == IF truncates THEN 0 ELSE inode.i_size
    IN /\ pc[t] = "truncate"
       /\ free_blocks' = IF truncates
                           THEN [free_blocks EXCEPT ![inode.i_data_block] = "FREE"]
                           ELSE free_blocks
       /\ inode_table' = [inode_table EXCEPT ![call[t].inum].i_size = size]
       /\ call' = [call EXCEPT ![t].offset =
              IF "TFS_O_APPEND" \in call[t].mode THEN size ELSE 0]
       /\ Goto(t, "slot")
       /\ UNCHANGED <<freeinode_ts, fs_data, dir, open_file_table>> /\ Stay

InodeAlloc(t) ==
    LET free == {i \in Inodes : freeinode_ts[i] = "FREE"}
    IN /\ pc[t] = "inode_alloc"
       /\ \/ \E i \in free :
                /\ IsFirst(i, free)
                /\ freeinode_ts' = [freeinode_ts EXCEPT ![i] = "TAKEN"]
                /\ call' = [call EXCEPT ![t].inum = i]
                /\ Goto(t, "inode_create")
          \/ free = {} /\ Answer(t, -1) /\ UNCHANGED freeinode_ts
       /\ UNCHANGED <<inode_table, free_blocks, fs_data, dir, open_file_table>> /\ Stay

InodeCreate(t) ==
    /\ pc[t] = "inode_create"
    /\ inode_table' = [inode_table EXCEPT
           ![call[t].inum] = [i_size |-> 0, i_data_block |-> -1]]
    /\ Goto(t, "entry")
    /\ UNCHANGED <<freeinode_ts, free_blocks, fs_data, dir, open_file_table, call>>
    /\ Stay

AddDirEntry(t) ==
    LET empty == {s \in Slots : dir[s].d_inumber = -1}
        n == call[t].name
    IN /\ pc[t] = "entry"
       /\ \/ \E s \in empty :
                /\ n \notin TooLong
                /\ IsFirst(s, empty)
                /\ dir' = [dir EXCEPT ![s] = [d_name |-> n,
                                              d_inumber |-> call[t].inum]]
                /\ Goto(t, "slot")
          \/ (n \in TooLong \/ empty = {}) /\ Goto(t, "undo") /\ UNCHANGED dir
       /\ UNCHANGED <<freeinode_ts, inode_table, free_blocks, fs_data,
                      open_file_table, call>>
       /\ Stay

\* Fault variant: the block of the deleted inode stays allocated.
InodeDeleteKeepingBlock(i) ==
    /\ freeinode_ts[i] = "TAKEN"
    /\ freeinode_ts' = [freeinode_ts EXCEPT ![i] = "FREE"]
    /\ UNCHANGED free_blocks

\* inode_delete of inode i: it asserts that i is allocated.
InodeDelete(i) ==
    /\ freeinode_ts[i] = "TAKEN"
    /\ free_blocks' = IF inode_table[i].i_size > 0
                        THEN [free_blocks EXCEPT
                                ![inode_table[i].i_data_block] = "FREE"]
                        ELSE free_blocks
    /\ freeinode_ts' = [freeinode_ts EXCEPT ![i] = "FREE"]

\* Fault variant: the error path returns with the mutex locked.
OpenUndoLocked(t) ==
    /\ pc[t] = "undo"
    /\ InodeDelete(call[t].inum)
    /\ call' = [call EXCEPT ![t] = NoCall]
    /\ Goto(t, "idle")
    /\ UNCHANGED <<inode_table, fs_data, dir, open_file_table>> /\ Stay

OpenUndo(t) ==
    /\ pc[t] = "undo"
    /\ InodeDelete(call[t].inum)
    /\ Answer(t, -1)
    /\ UNCHANGED <<inode_table, fs_data, dir, open_file_table>> /\ Stay

AddToOpenFileTable(t) ==
    LET free == {h \in Handles : open_file_table[h] = NoFile}
    IN /\ pc[t] = "slot"
       /\ \/ \E h \in free :
                /\ IsFirst(h, free)
                /\ open_file_table' = [open_file_table EXCEPT ![h] =
                       [of_inumber |-> call[t].inum, of_offset |-> call[t].offset]]
                /\ Answer(t, h)
          \/ free = {} /\ Answer(t, -1) /\ UNCHANGED open_file_table
       /\ UNCHANGED <<freeinode_ts, inode_table, free_blocks, fs_data, dir>> /\ Stay

(***************************************************************************)
(* tfs_close                                                               *)
(***************************************************************************)
Close(t, fh) == Lock(t, "close", [NoCall EXCEPT !.fhandle = fh])

CloseFree(t) ==
    /\ pc[t] = "close"
    /\ Answer(t, IF open_file_table[call[t].fhandle] = NoFile THEN -1 ELSE 0)
    /\ open_file_table' = [open_file_table EXCEPT ![call[t].fhandle] = NoFile]
    /\ UNCHANGED <<freeinode_ts, inode_table, free_blocks, fs_data, dir>> /\ Stay

(***************************************************************************)
(* tfs_write                                                               *)
(***************************************************************************)
Write(t, fh, data) ==
    Lock(t, "write", [NoCall EXCEPT !.fhandle = fh, !.buffer = data])

WriteCount(file, to_write) == IF to_write + file.of_offset > BLOCK_SIZE
                                THEN BLOCK_SIZE - file.of_offset ELSE to_write

WriteStart(t) ==
    LET file == open_file_table[call[t].fhandle]
        count == WriteCount(file, Cardinality(DOMAIN call[t].buffer))
    IN /\ pc[t] = "write"
       /\ \/ file = NoFile /\ Answer(t, -1)
          \/ file # NoFile /\ count = 0 /\ Answer(t, 0)
          \/ /\ file # NoFile /\ count > 0
             /\ call' = [call EXCEPT ![t].inum = file.of_inumber, ![t].count = count]
             /\ Goto(t, IF inode_table[file.of_inumber].i_size = 0
                          THEN "block" ELSE "copy")
       /\ UNCHANGED tables /\ Stay

BlockAlloc(t) ==
    LET free == {b \in Blocks : free_blocks[b] = "FREE"}
    IN /\ pc[t] = "block"
       /\ \/ \E b \in free :
                /\ IsFirst(b, free)
                /\ free_blocks' = [free_blocks EXCEPT ![b] = "TAKEN"]
                /\ inode_table' = [inode_table EXCEPT ![call[t].inum].i_data_block = b]
                /\ Goto(t, "copy")
                /\ UNCHANGED call
          \/ free = {} /\ Answer(t, -1) /\ UNCHANGED <<free_blocks, inode_table>>
       /\ UNCHANGED <<freeinode_ts, fs_data, dir, open_file_table>> /\ Stay

\* memcpy to the block; data_block_get asserts its number.
Copy(t) ==
    LET b == inode_table[call[t].inum].i_data_block
        offset == open_file_table[call[t].fhandle].of_offset
    IN /\ pc[t] = "copy"
       /\ b \in Blocks
       /\ fs_data' = [fs_data EXCEPT ![b] = [k \in Offsets |->
              IF k \in offset .. offset + call[t].count - 1
                THEN call[t].buffer[k - offset] ELSE fs_data[b][k]]]
       /\ Goto(t, "advance")
       /\ UNCHANGED <<freeinode_ts, inode_table, free_blocks, dir,
                      open_file_table, call>>
       /\ Stay

Advance(t) ==
    LET offset == open_file_table[call[t].fhandle].of_offset + call[t].count
    IN /\ pc[t] = "advance"
       /\ open_file_table' = [open_file_table EXCEPT
              ![call[t].fhandle].of_offset = offset]
       /\ inode_table' = [inode_table EXCEPT ![call[t].inum].i_size =
              IF offset > @ THEN offset ELSE @]
       /\ Answer(t, call[t].count)
       /\ UNCHANGED <<freeinode_ts, free_blocks, fs_data, dir>> /\ Stay

(***************************************************************************)
(* tfs_read                                                                *)
(***************************************************************************)
Read(t, fh, len) == Lock(t, "read", [NoCall EXCEPT !.fhandle = fh, !.len = len])

\* The callers' side keeps the offset inside the file: the size_t subtraction
\* does not wrap (TecnicoFS has the other callers).
ReadStart(t) ==
    LET file == open_file_table[call[t].fhandle]
        to_read == inode_table[file.of_inumber].i_size - file.of_offset
        count == IF to_read > call[t].len THEN call[t].len ELSE to_read
    IN /\ pc[t] = "read"
       /\ \/ file = NoFile /\ Answer(t, -1)
          \/ file # NoFile /\ count = 0 /\ Answer(t, 0)
          \/ /\ file # NoFile /\ count > 0
             /\ call' = [call EXCEPT ![t].inum = file.of_inumber, ![t].count = count]
             /\ Goto(t, "deliver")
       /\ UNCHANGED tables /\ Stay

\* memcpy from the block, then the offset
Deliver(t) ==
    LET b == inode_table[call[t].inum].i_data_block
        file == open_file_table[call[t].fhandle]
    IN /\ pc[t] = "deliver"
       /\ b \in Blocks
       /\ call' = [call EXCEPT ![t].ret = call[t].count,
              ![t].data = [k \in 0 .. call[t].count - 1 |->
                              fs_data[b][file.of_offset + k]]]
       /\ open_file_table' = [open_file_table EXCEPT
              ![call[t].fhandle].of_offset = @ + call[t].count]
       /\ Goto(t, "unlock")
       /\ UNCHANGED <<freeinode_ts, inode_table, free_blocks, fs_data, dir>> /\ Stay

(***************************************************************************)
(* tfs_unlink: the inode goes first, the entry that leads to it after it   *)
(***************************************************************************)
Unlink(t, n) == ~IsOpen(n) /\ Lock(t, "unlink", [NoCall EXCEPT !.name = n])

UnlinkFind(t) ==
    /\ pc[t] = "unlink"
    /\ \/ \E s \in Slots : /\ IsFirst(s, Matches(call[t].name))
                            /\ call' = [call EXCEPT ![t].inum = dir[s].d_inumber]
                            /\ Goto(t, "delete")
       \/ Matches(call[t].name) = {} /\ Answer(t, -1)
    /\ UNCHANGED tables /\ Stay

UnlinkDelete(t) ==
    /\ pc[t] = "delete"
    /\ InodeDelete(call[t].inum)
    /\ Goto(t, "clear")
    /\ UNCHANGED <<inode_table, fs_data, dir, open_file_table, call>> /\ Stay

\* clear_dir_entry clears the first entry with that name, live or not.
UnlinkClear(t) ==
    LET named == {s \in Slots : dir[s].d_name = call[t].name}
    IN /\ pc[t] = "clear"
       /\ \/ \E s \in named :
                /\ IsFirst(s, named)
                /\ dir' = [dir EXCEPT ![s] = [d_name |-> NoName, d_inumber |-> -1]]
                /\ Answer(t, 0)
          \/ named = {} /\ Answer(t, -1) /\ UNCHANGED dir
       /\ UNCHANGED <<freeinode_ts, inode_table, free_blocks, fs_data,
                      open_file_table>>
       /\ Stay

(***************************************************************************)
(* Specification                                                           *)
(***************************************************************************)
Begin(t) ==
    \/ \E n \in Names, mode \in Modes : Open(t, n, mode)
    \/ \E n \in Names : Unlink(t, n)
    \/ \E fh \in Handles : \/ Close(t, fh)
                           \/ \E data \in Buffers : Write(t, fh, data)
                           \/ \E len \in 0 .. MAX_LEN : Read(t, fh, len)

Step(t) ==
    \/ OpenFind(t) \/ Truncate(t) \/ InodeAlloc(t) \/ InodeCreate(t)
    \/ AddDirEntry(t) \/ OpenUndo(t) \/ AddToOpenFileTable(t)
    \/ CloseFree(t)
    \/ WriteStart(t) \/ BlockAlloc(t) \/ Copy(t) \/ Advance(t)
    \/ ReadStart(t) \/ Deliver(t)
    \/ UnlinkFind(t) \/ UnlinkDelete(t) \/ UnlinkClear(t)
    \/ Unlock(t)

Next == \E t \in Threads : Begin(t) \/ Step(t)

\* A thread inside a call keeps running; it need not make another.
Spec == Init /\ [][Next]_vars /\ \A t \in Threads : WF_vars(Step(t))

(***************************************************************************)
(* Properties                                                              *)
(***************************************************************************)
\* Looking a name up and creating it is one step for the other threads: no
\* name is ever in the directory twice, and no inode has two names.
NamesUnique ==
    \A s, u \in Slots :
        /\ s # u
        /\ dir[s].d_inumber # -1
        /\ dir[u].d_inumber # -1
        => dir[s].d_name # dir[u].d_name /\ dir[s].d_inumber # dir[u].d_inumber

\* Whenever the mutex is free an inode is allocated exactly when a name leads
\* to it, and a block exactly when a non-empty file owns it: every path of
\* every call gives back what it took before it unlocks.
NothingLost ==
    g_library_mutex = NoThread =>
        /\ \A i \in Inodes : freeinode_ts[i] = "TAKEN"
                                <=> \E s \in Slots : dir[s].d_inumber = i
        /\ \A b \in Blocks : free_blocks[b] = "TAKEN"
                <=> \E i \in Inodes : /\ freeinode_ts[i] = "TAKEN"
                                      /\ inode_table[i].i_size > 0
                                      /\ inode_table[i].i_data_block = b

\* The assertions of state.c about the inode or the block a call works on never
\* fail, whatever the other threads call: inode_delete is given an allocated
\* inode, data_block_get and data_block_free a block.
AssertionsHold ==
    \A t \in Threads : pc[t] # "idle" =>
        LET i == call[t].inum
        IN /\ pc[t] \in {"undo", "delete"} => freeinode_ts[i] = "TAKEN"
           /\ \/ pc[t] \in {"copy", "deliver"}
              \/ /\ pc[t] \in {"truncate", "undo", "delete"}
                 /\ inode_table[i].i_size > 0
              => inode_table[i].i_data_block \in Blocks

\* Whoever locks the mutex unlocks it, on every path, and no assertion stops
\* the thread before: no call waits for ever behind another that returned.
MutexReleased == \A t \in Threads : g_library_mutex = t ~> g_library_mutex = NoThread

\* The promise of AbstractFS, for calls that overlap: they take effect one at
\* a time, at the unlocking.  What the tables hold while the mutex is locked
\* is not observable; what they held before is.
Shown == IF g_library_mutex = NoThread THEN Snapshot ELSE before

\* What tables T say.
Inode(T, n) == {T.dir[s].d_inumber :
                   s \in {u \in Slots : /\ T.dir[u].d_inumber # -1
                                        /\ T.dir[u].d_name = n}}
NamesIn(T) == [n \in Names |-> IF Inode(T, n) = {} THEN None
                                ELSE CHOOSE i \in Inode(T, n) : TRUE]
BytesOf(T, i) ==
    IF T.freeinode_ts[i] = "TAKEN"
      THEN [k \in 1 .. T.inode_table[i].i_size |->
               T.fs_data[T.inode_table[i].i_data_block][k - 1]]
      ELSE <<>>
BytesIn(T) == [i \in Inodes |-> BytesOf(T, i)]
HandlesIn(T) == [fh \in Handles |->
                    IF T.open_file_table[fh] = NoFile THEN None
                    ELSE [file |-> T.open_file_table[fh].of_inumber,
                          pos |-> T.open_file_table[fh].of_offset]]
BytesRead(data) == [k \in 1 .. Cardinality(DOMAIN data) |-> data[k - 1]]

Promise == INSTANCE AbstractFS WITH
    Files <- Inodes,
    Capacity <- BLOCK_SIZE,
    MaxTransfer <- MAX_LEN,
    fileOf <- NamesIn(Shown),
    linkTo <- [n \in Names |-> None],
    contents <- BytesIn(Shown),
    opened <- HandlesIn(Shown),
    importing <- None,
    result <- ret,
    delivered <- BytesRead(buf)

KeepsPromise == Promise!Spec
=============================================================================
