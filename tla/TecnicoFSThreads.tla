--------------------------- MODULE TecnicoFSThreads ---------------------------
(***************************************************************************)
(* TecnicoFS called by several threads: tfs_open with TFS_O_CREAT,         *)
(* tfs_write of one byte and tfs_close, at most one store to the tables in *)
(* a step.  The mutexes that operations.c locks are automatic variables of *)
(* the call and exclude nobody, so they are not here; the one mutex the    *)
(* threads share is open_file_allocation_table_mutex of state.c.  Loads    *)
(* and stores are taken in program order, one at a time; each loop of      *)
(* state.c tests an entry in one step and takes it in another.             *)
(*                                                                         *)
(* Blocks hold one byte, so a file is empty or full; the byte a thread     *)
(* writes is the thread itself.                                            *)
(***************************************************************************)
EXTENDS Integers, FiniteSets

CONSTANTS
    Threads, Names,
    Files,          \* Files[t]: the names thread t opens
    NoName, NoThread,
    MAX_INODES, MAX_BLOCKS, MAX_OPEN_FILES, MAX_DIR_ENTRIES,
    MAX_CALLS       \* bound: calls a thread makes

ASSUME ThreadsAssumption ==
    /\ {MAX_INODES, MAX_BLOCKS, MAX_OPEN_FILES, MAX_DIR_ENTRIES, MAX_CALLS} \subseteq Nat
    /\ NoName \notin Names
    /\ NoThread \notin Threads
    /\ Files \in [Threads -> SUBSET Names]

Inodes  == 1 .. MAX_INODES - 1      \* inode 0 is the root's
Blocks  == 1 .. MAX_BLOCKS - 1      \* block 0 is the root's
Slots   == 0 .. MAX_DIR_ENTRIES - 1
Handles == 0 .. MAX_OPEN_FILES - 1

VARIABLES
    freeinode_ts, inode_table, free_blocks, fs_data, dir,
    free_open_file_entries, open_file_table,
    mutex,      \* holder of open_file_allocation_table_mutex
    pc,         \* next step of each thread's call, "idle" between calls
    local,      \* the automatic variables of each thread's call
    held,       \* the handles each thread got from tfs_open and did not close
    wrote,      \* the names each thread wrote its byte to
    calls,      \* calls made by each thread
    aborted     \* an ALWAYS_ASSERT failed

files == <<freeinode_ts, inode_table, free_blocks, fs_data, dir>>
opens == <<free_open_file_entries, open_file_table, mutex>>
client == <<held, wrote, calls>>
vars == <<files, opens, pc, local, client, aborted>>

NoCall == [name |-> NoName, inum |-> -1, k |-> 0, fhandle |-> -1]

Init ==
    /\ freeinode_ts = [i \in Inodes |-> "FREE"]
    /\ inode_table = [i \in Inodes |-> [i_size |-> 0, i_data_block |-> -1]]
    /\ free_blocks = [b \in Blocks |-> "FREE"]
    /\ fs_data = [b \in Blocks |-> NoThread]
    /\ dir = [s \in Slots |-> [d_name |-> NoName, d_inumber |-> -1]]
    /\ free_open_file_entries = [h \in Handles |-> "FREE"]
    /\ open_file_table = [h \in Handles |-> [of_inumber |-> -1, of_offset |-> 0,
                                             name |-> NoName]]
    /\ mutex = NoThread
    /\ pc = [t \in Threads |-> "idle"]
    /\ local = [t \in Threads |-> NoCall]
    /\ held = [t \in Threads |-> {}]
    /\ wrote = [t \in Threads |-> {}]
    /\ calls = [t \in Threads |-> 0]
    /\ aborted = FALSE

(***************************************************************************)
(* Control                                                                 *)
(***************************************************************************)
At(t, step) == pc[t] = step /\ ~aborted
Goto(t, step) == pc' = [pc EXCEPT ![t] = step]
Stay(t) == UNCHANGED <<local, aborted, client>>

\* The call of t returns; its automatic variables go.
Return(t) == /\ pc' = [pc EXCEPT ![t] = "idle"]
             /\ local' = [local EXCEPT ![t] = NoCall]

\* A loop of state.c over 0..n-1 at its counter k: the step when an entry
\* passes the test, the next counter when it does not, the step at the end.
Loop(t, n, passes(_), found, exhausted) ==
    LET k == local[t].k
    IN /\ IF k >= n THEN Goto(t, exhausted) /\ UNCHANGED local
          ELSE IF passes(k) THEN Goto(t, found) /\ UNCHANGED local
          ELSE local' = [local EXCEPT ![t].k = @ + 1] /\ UNCHANGED pc
       /\ UNCHANGED <<files, opens, aborted, client>>

Calls(t, step, call) ==
    /\ At(t, "idle")
    /\ calls[t] < MAX_CALLS
    /\ calls' = [calls EXCEPT ![t] = @ + 1]
    /\ local' = [local EXCEPT ![t] = call]
    /\ Goto(t, step)
    /\ UNCHANGED <<files, opens, held, wrote, aborted>>

(***************************************************************************)
(* tfs_open(name, TFS_O_CREAT)                                             *)
(***************************************************************************)
OpenCall(t, n) == Calls(t, "find", [NoCall EXCEPT !.name = n])

\* find_in_dir
Find(t) ==
    /\ At(t, "find")
    /\ Loop(t, MAX_DIR_ENTRIES,
            LAMBDA k : dir[k].d_inumber # -1 /\ dir[k].d_name = local[t].name,
            "found", "create")

\* The number is read from the entry again; either way the next loop starts at 0.
Found(t) ==
    /\ At(t, "found")
    /\ local' = [local EXCEPT ![t].inum = dir[local[t].k].d_inumber, ![t].k = 0]
    /\ Goto(t, "lock")
    /\ UNCHANGED <<files, opens, aborted, client>>

Create(t) ==
    /\ At(t, "create")
    /\ local' = [local EXCEPT ![t].k = 1]
    /\ Goto(t, "inode_test")
    /\ UNCHANGED <<files, opens, aborted, client>>

\* inode_alloc: the test and the store are two accesses.
InodeTest(t) ==
    /\ At(t, "inode_test")
    /\ Loop(t, MAX_INODES, LAMBDA k : freeinode_ts[k] = "FREE", "inode_take", "fail")

InodeTake(t) ==
    /\ At(t, "inode_take")
    /\ freeinode_ts' = [freeinode_ts EXCEPT ![local[t].k] = "TAKEN"]
    /\ local' = [local EXCEPT ![t].inum = local[t].k, ![t].k = 0]
    /\ Goto(t, "inode_create")
    /\ UNCHANGED <<inode_table, free_blocks, fs_data, dir, opens, aborted, client>>

InodeCreate(t) ==
    /\ At(t, "inode_create")
    /\ inode_table' = [inode_table EXCEPT ![local[t].inum].i_size = 0]
    /\ Goto(t, "inode_reset")
    /\ UNCHANGED <<freeinode_ts, free_blocks, fs_data, dir, opens>> /\ Stay(t)

InodeReset(t) ==
    /\ At(t, "inode_reset")
    /\ inode_table' = [inode_table EXCEPT ![local[t].inum].i_data_block = -1]
    /\ Goto(t, "entry_test")
    /\ UNCHANGED <<freeinode_ts, free_blocks, fs_data, dir, opens>> /\ Stay(t)

\* add_dir_entry: the number is stored before the name.
EntryTest(t) ==
    /\ At(t, "entry_test")
    /\ Loop(t, MAX_DIR_ENTRIES, LAMBDA k : dir[k].d_inumber = -1,
            "entry_number", "inode_delete")

EntryNumber(t) ==
    /\ At(t, "entry_number")
    /\ dir' = [dir EXCEPT ![local[t].k].d_inumber = local[t].inum]
    /\ Goto(t, "entry_name")
    /\ UNCHANGED <<freeinode_ts, inode_table, free_blocks, fs_data, opens>> /\ Stay(t)

EntryName(t) ==
    /\ At(t, "entry_name")
    /\ dir' = [dir EXCEPT ![local[t].k].d_name = local[t].name]
    /\ Goto(t, "lock")
    /\ UNCHANGED <<freeinode_ts, inode_table, free_blocks, fs_data, opens>> /\ Stay(t)

\* inode_delete, as there is no room in the directory.  Another call may have
\* been given the same inode: it may be freed already, or grown while
\* inode_create reset its block.
InodeDelete(t) ==
    /\ At(t, "inode_delete")
    /\ aborted' = (freeinode_ts[local[t].inum] # "TAKEN")
    /\ Goto(t, "inode_size")
    /\ UNCHANGED <<files, opens, local, client>>

InodeSize(t) ==
    /\ At(t, "inode_size")
    /\ Goto(t, IF inode_table[local[t].inum].i_size > 0 THEN "block_give" ELSE "inode_give")
    /\ UNCHANGED <<files, opens>> /\ Stay(t)

\* data_block_free
BlockGive(t) ==
    LET b == inode_table[local[t].inum].i_data_block
    IN /\ At(t, "block_give")
       /\ aborted' = (b \notin Blocks)
       /\ free_blocks' = IF b \in Blocks THEN [free_blocks EXCEPT ![b] = "FREE"]
                         ELSE free_blocks
       /\ Goto(t, "inode_give")
       /\ UNCHANGED <<freeinode_ts, inode_table, fs_data, dir, opens, local, client>>

InodeGive(t) ==
    /\ At(t, "inode_give")
    /\ freeinode_ts' = [freeinode_ts EXCEPT ![local[t].inum] = "FREE"]
    /\ Goto(t, "fail")
    /\ UNCHANGED <<inode_table, free_blocks, fs_data, dir, opens>> /\ Stay(t)

Fail(t) ==
    /\ At(t, "fail")
    /\ Return(t)
    /\ UNCHANGED <<files, opens, aborted, client>>

\* Fault variant: the table is entered whoever is inside.
LockAnyway(t) ==
    /\ At(t, "lock")
    /\ mutex' = t
    /\ local' = [local EXCEPT ![t].k = 0]
    /\ Goto(t, "slot_test")
    /\ UNCHANGED <<files, free_open_file_entries, open_file_table, client, aborted>>

\* add_to_open_file_table, inside the mutex
Lock(t) ==
    /\ At(t, "lock")
    /\ mutex = NoThread
    /\ mutex' = t
    /\ local' = [local EXCEPT ![t].k = 0]
    /\ Goto(t, "slot_test")
    /\ UNCHANGED <<files, free_open_file_entries, open_file_table, client, aborted>>

SlotTest(t) ==
    /\ At(t, "slot_test")
    /\ Loop(t, MAX_OPEN_FILES, LAMBDA k : free_open_file_entries[k] = "FREE",
            "slot_take", "full")

SlotTake(t) ==
    /\ At(t, "slot_take")
    /\ free_open_file_entries' = [free_open_file_entries EXCEPT ![local[t].k] = "TAKEN"]
    /\ Goto(t, "slot_fill")
    /\ UNCHANGED <<files, open_file_table, mutex>> /\ Stay(t)

SlotFill(t) ==
    /\ At(t, "slot_fill")
    /\ open_file_table' = [open_file_table EXCEPT ![local[t].k] =
           [of_inumber |-> local[t].inum, of_offset |-> 0, name |-> local[t].name]]
    /\ Goto(t, "opened")
    /\ UNCHANGED <<files, free_open_file_entries, mutex>> /\ Stay(t)

Opened(t) ==
    /\ At(t, "opened")
    /\ mutex' = NoThread
    /\ held' = [held EXCEPT ![t] = @ \cup {local[t].k}]
    /\ Return(t)
    /\ UNCHANGED <<files, free_open_file_entries, open_file_table, wrote, calls, aborted>>

\* Fault variant: the call returns -1 with the mutex locked.
FullLocked(t) ==
    /\ At(t, "full")
    /\ Return(t)
    /\ UNCHANGED <<files, opens, client, aborted>>

Full(t) ==
    /\ At(t, "full")
    /\ mutex' = NoThread
    /\ Return(t)
    /\ UNCHANGED <<files, free_open_file_entries, open_file_table, client, aborted>>

(***************************************************************************)
(* tfs_write(fhandle, one byte)                                            *)
(***************************************************************************)
WriteCall(t, fh) == Calls(t, "write", [NoCall EXCEPT !.fhandle = fh])

\* A FREE entry fails the call; at offset 1 the block is full and 0 is returned.
WriteStart(t) ==
    LET file == open_file_table[local[t].fhandle]
    IN /\ At(t, "write")
       /\ IF free_open_file_entries[local[t].fhandle] # "TAKEN" \/ file.of_offset = 1
            THEN Goto(t, "fail") /\ UNCHANGED local
          ELSE /\ local' = [local EXCEPT ![t].inum = file.of_inumber,
                                         ![t].name = file.name, ![t].k = 1]
               /\ Goto(t, IF inode_table[file.of_inumber].i_size = 0
                            THEN "block_test" ELSE "copy")
       /\ UNCHANGED <<files, opens, aborted, client>>

\* data_block_alloc
BlockTest(t) ==
    /\ At(t, "block_test")
    /\ Loop(t, MAX_BLOCKS, LAMBDA k : free_blocks[k] = "FREE", "block_take", "fail")

BlockTake(t) ==
    /\ At(t, "block_take")
    /\ free_blocks' = [free_blocks EXCEPT ![local[t].k] = "TAKEN"]
    /\ Goto(t, "block_set")
    /\ UNCHANGED <<freeinode_ts, inode_table, fs_data, dir, opens>> /\ Stay(t)

BlockSet(t) ==
    /\ At(t, "block_set")
    /\ inode_table' = [inode_table EXCEPT ![local[t].inum].i_data_block = local[t].k]
    /\ Goto(t, "copy")
    /\ UNCHANGED <<freeinode_ts, free_blocks, fs_data, dir, opens>> /\ Stay(t)

\* data_block_get asserts the block number before memcpy.
Copy(t) ==
    LET b == inode_table[local[t].inum].i_data_block
    IN /\ At(t, "copy")
       /\ aborted' = (b \notin Blocks)
       /\ fs_data' = IF b \in Blocks THEN [fs_data EXCEPT ![b] = t] ELSE fs_data
       /\ Goto(t, "advance")
       /\ UNCHANGED <<freeinode_ts, inode_table, free_blocks, dir, opens, local, client>>

Advance(t) ==
    /\ At(t, "advance")
    /\ open_file_table' = [open_file_table EXCEPT ![local[t].fhandle].of_offset = @ + 1]
    /\ Goto(t, "grow")
    /\ UNCHANGED <<files, free_open_file_entries, mutex>> /\ Stay(t)

Grow(t) ==
    /\ At(t, "grow")
    /\ inode_table' = [inode_table EXCEPT ![local[t].inum].i_size =
           IF open_file_table[local[t].fhandle].of_offset > @
             THEN open_file_table[local[t].fhandle].of_offset ELSE @]
    /\ wrote' = [wrote EXCEPT ![t] = @ \cup {local[t].name}]
    /\ Return(t)
    /\ UNCHANGED <<freeinode_ts, free_blocks, fs_data, dir, opens, held, calls, aborted>>

(***************************************************************************)
(* tfs_close(fhandle)                                                      *)
(***************************************************************************)
CloseCall(t, fh) == Calls(t, "close", [NoCall EXCEPT !.fhandle = fh])

\* get_open_file_entry, outside the mutex
CloseStart(t) ==
    /\ At(t, "close")
    /\ Goto(t, IF free_open_file_entries[local[t].fhandle] = "TAKEN"
                 THEN "close_lock" ELSE "fail")
    /\ UNCHANGED <<files, opens>> /\ Stay(t)

CloseLock(t) ==
    /\ At(t, "close_lock")
    /\ mutex = NoThread
    /\ mutex' = t
    /\ Goto(t, "close_free")
    /\ UNCHANGED <<files, free_open_file_entries, open_file_table>> /\ Stay(t)

\* remove_from_open_file_table asserts that the entry is still TAKEN.
CloseFree(t) ==
    /\ At(t, "close_free")
    /\ aborted' = (free_open_file_entries[local[t].fhandle] # "TAKEN")
    /\ free_open_file_entries' =
           [free_open_file_entries EXCEPT ![local[t].fhandle] = "FREE"]
    /\ held' = [u \in Threads |-> held[u] \ {local[t].fhandle}]
    /\ Goto(t, "close_unlock")
    /\ UNCHANGED <<files, open_file_table, mutex, local, wrote, calls>>

CloseUnlock(t) ==
    /\ At(t, "close_unlock")
    /\ mutex' = NoThread
    /\ Return(t)
    /\ UNCHANGED <<files, free_open_file_entries, open_file_table, client, aborted>>

(***************************************************************************)
(* Specification                                                           *)
(***************************************************************************)
\* The steps of a call t has begun.
Step(t) ==
    \/ Find(t) \/ Found(t) \/ Create(t)
    \/ InodeTest(t) \/ InodeTake(t) \/ InodeCreate(t) \/ InodeReset(t)
    \/ EntryTest(t) \/ EntryNumber(t) \/ EntryName(t)
    \/ InodeDelete(t) \/ InodeSize(t) \/ BlockGive(t) \/ InodeGive(t) \/ Fail(t)
    \/ Lock(t) \/ SlotTest(t) \/ SlotTake(t) \/ SlotFill(t)
    \/ Opened(t) \/ Full(t)
    \/ WriteStart(t) \/ BlockTest(t) \/ BlockTake(t) \/ BlockSet(t)
    \/ Copy(t) \/ Advance(t) \/ Grow(t)
    \/ CloseStart(t) \/ CloseLock(t) \/ CloseFree(t) \/ CloseUnlock(t)

Next ==
    \E t \in Threads :
        \/ \E n \in Files[t] : OpenCall(t, n)
        \/ \E fh \in held[t] : WriteCall(t, fh)
        \/ \E fh \in held[t] : CloseCall(t, fh)
        \/ Step(t)

\* A thread that is inside a call keeps running; it need not make another.
Spec == Init /\ [][Next]_vars /\ \A t \in Threads : WF_vars(Step(t))

(***************************************************************************)
(* Properties                                                              *)
(***************************************************************************)
\* However the calls interleave, a handle tfs_open gave a thread is allocated
\* and no other thread was given it: the one real mutex does its work, though
\* the file behind the handle may be shared by mistake.
HandlesExclusive ==
    /\ \A t \in Threads : \A fh \in held[t] : free_open_file_entries[fh] = "TAKEN"
    /\ \A t, u \in Threads : t # u => held[t] \cap held[u] = {}

\* Every call returns, or an assertion stops the process: no path leaves the
\* mutex locked.
CallsReturn == \A t \in Threads : pc[t] # "idle" ~> pc[t] = "idle" \/ aborted

\* tests/thread-test1.c:56-67: once the threads have created files, each its
\* own, and written in them, every file is there with what was written.
FilesKeepContents ==
    (\A t \in Threads : pc[t] = "idle") =>
        \A t \in Threads : \A n \in wrote[t] :
            \E s \in Slots :
                /\ dir[s].d_name = n
                /\ dir[s].d_inumber # -1
                /\ LET i == dir[s].d_inumber
                   IN /\ inode_table[i].i_size = 1
                      /\ fs_data[inode_table[i].i_data_block] = t
=============================================================================
