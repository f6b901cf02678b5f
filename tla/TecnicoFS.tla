------------------------------ MODULE TecnicoFS ------------------------------
(***************************************************************************)
(* TecnicoFS, the in-memory file system library of Projeto1, used by one   *)
(* thread at a time: every call of operations.h is one action, made of the *)
(* helpers of state.c it calls in the order it calls them.                 *)
(*                                                                         *)
(* What is abstracted:                                                     *)
(*  - path names are members of Names; a name stands for the part of the   *)
(*    path after the initial '/', which is all the directory stores;       *)
(*  - the root directory's block is the variable dir, and its inode is     *)
(*    inode ROOT_DIR_INUM of the tables (it is never freed: no entry of    *)
(*    the directory refers to it);                                         *)
(*  - a FREE entry of the open file table is NoFile: get_open_file_entry   *)
(*    hands out no FREE entry, so the fields such an entry keeps are dead  *)
(*    until add_to_open_file_table sets both;                              *)
(*  - the external file read by tfs_copy_from_external_fs is the number of *)
(*    bytes it still has to give.                                          *)
(***************************************************************************)
EXTENDS Integers, FiniteSets

CONSTANTS
    MAX_INODES,       \* fs_params.max_inode_count
    MAX_BLOCKS,       \* fs_params.max_block_count
    MAX_OPEN_FILES,   \* fs_params.max_open_files_count
    BLOCK_SIZE,       \* fs_params.block_size
    MAX_DIR_ENTRIES,  \* BLOCK_SIZE / sizeof(dir_entry_t)
    SIZE_T,           \* number of values of a size_t
    Names,            \* names a caller may pass
    NoName,           \* an empty d_name
    TooLong,          \* names longer than MAX_FILE_NAME - 1
    Malformed,        \* names of paths valid_pathname rejects: "/"
    Cut,              \* Cut[n]: what i_target can hold of name n
    StaleNames,       \* names left in the memory malloc returns
    Bytes,            \* values of a byte of a caller's buffer
    Junk,             \* a byte of memory that was never written
    MAX_LEN,          \* bound: longest buffer a caller passes
    MAX_SOURCE,       \* bound: longest external file copied
    BUFFER_SIZE       \* chunk of tfs_copy_from_external_fs

ASSUME SizesAssumption ==
    /\ MAX_INODES \in Nat \ {0}
    /\ MAX_BLOCKS \in Nat \ {0}
    /\ MAX_OPEN_FILES \in Nat
    /\ BLOCK_SIZE \in Nat \ {0}
    /\ MAX_DIR_ENTRIES \in Nat
    /\ MAX_LEN \in Nat
    /\ MAX_SOURCE \in Nat
    /\ BUFFER_SIZE \in Nat \ {0}
    /\ SIZE_T \in Nat
    /\ SIZE_T > BLOCK_SIZE
    /\ SIZE_T > BLOCK_SIZE * MAX_BLOCKS + MAX_LEN

ASSUME NamesAssumption ==
    /\ NoName \notin Names
    /\ TooLong \subseteq Names
    /\ Malformed \subseteq Names
    /\ StaleNames \subseteq Names
    /\ Cut \in [Names -> Names]

ROOT_DIR_INUM == 0

Inodes  == 0 .. MAX_INODES - 1
Blocks  == 0 .. MAX_BLOCKS - 1
Slots   == 0 .. MAX_DIR_ENTRIES - 1
Handles == 0 .. MAX_OPEN_FILES - 1
Addr    == 0 .. MAX_BLOCKS * BLOCK_SIZE - 1
Modes   == SUBSET {"TFS_O_CREAT", "TFS_O_TRUNC", "TFS_O_APPEND"}

VARIABLES
    status,           \* "uninit", "running", "aborted" or "undefined"
    freeinode_ts,     \* allocation state of the inodes
    inode_table,
    free_blocks,      \* allocation state of the data blocks
    fs_data,          \* the bytes of the data blocks
    dir,              \* entries of the root directory
    open_file_table,
    ret,              \* value returned by the last call
    buf,              \* bytes delivered by the last tfs_read
    copying           \* the call of tfs_copy_from_external_fs in progress

tables == <<freeinode_ts, inode_table, free_blocks, dir, open_file_table>>
vars   == <<status, freeinode_ts, inode_table, free_blocks, fs_data, dir,
            open_file_table, ret, buf, copying>>

NoFile == [of_inumber |-> -1, of_offset |-> 0]
NoCopy == [fhandle |-> -1, left |-> 0]
NoData == [k \in {} |-> Junk]

\* An inode of the table malloc returned: no field of it means anything.
RawInode == [i_node_type |-> "T_FILE", hard_links_count |-> 0, i_size |-> 0,
             i_data_block |-> -1, i_target |-> NoName]

(***************************************************************************)
(* state.c: tables                                                         *)
(***************************************************************************)
\* The first-fit choice every allocation loop of state.c makes.
IsFirst(x, S) == x \in S /\ \A y \in S : x <= y

FreeInodes  == {i \in Inodes : freeinode_ts[i] = "FREE"}
FreeBlocks  == {b \in Blocks : free_blocks[b] = "FREE"}
FreeHandles == {h \in Handles : open_file_table[h] = NoFile}
EmptySlots  == {s \in Slots : dir[s].d_inumber = -1}

\* Fault variant: a new inode starts without a link.
inode_create_unlinked(i, type) ==
    [inode_table EXCEPT ![i] = [i_node_type |-> type, hard_links_count |-> 0,
                                i_size |-> 0, i_data_block |-> -1,
                                i_target |-> inode_table[i].i_target]]

\* inode_create on an inode_alloc-ed inode i: i_target keeps its old value
inode_create(i, type) ==
    [inode_table EXCEPT ![i] = [i_node_type |-> type, hard_links_count |-> 1,
                                i_size |-> 0, i_data_block |-> -1,
                                i_target |-> inode_table[i].i_target]]

\* Fault variant: the block of the deleted inode stays allocated.
inode_delete_keeping_block(i) ==
    /\ UNCHANGED free_blocks
    /\ freeinode_ts' = [freeinode_ts EXCEPT ![i] = "FREE"]

\* inode_delete frees the block of a non-empty inode, then the inode itself.
inode_delete(i) ==
    /\ free_blocks' = IF inode_table[i].i_size > 0
                        THEN [free_blocks EXCEPT
                                ![inode_table[i].i_data_block] = "FREE"]
                        ELSE free_blocks
    /\ freeinode_ts' = [freeinode_ts EXCEPT ![i] = "FREE"]

\* The slots find_in_dir accepts; it answers with the first one.
Matches(n) == {s \in Slots : dir[s].d_inumber # -1 /\ dir[s].d_name = n}
tfs_lookup(n) == IF n \in Malformed THEN {} ELSE Matches(n)
Found(n, s) == IsFirst(s, tfs_lookup(n))

\* The slot clear_dir_entry clears: it looks at the names only.
ClearedSlot(n, s) == IsFirst(s, {t \in Slots : dir[t].d_name = n})

CanAddEntry(n) == n \notin TooLong \cup Malformed /\ EmptySlots # {}
\* Fault variant: the last empty entry is filled.
add_dir_entry_last(n, i) ==
    \E s \in Slots :
        /\ s \in EmptySlots /\ \A t \in EmptySlots : t <= s
        /\ dir' = [dir EXCEPT ![s] = [d_name |-> n, d_inumber |-> i]]

\* Fills the first entry marked empty, whatever name is in it.
add_dir_entry(n, i) ==
    \E s \in Slots :
        /\ IsFirst(s, EmptySlots)
        /\ dir' = [dir EXCEPT ![s] = [d_name |-> n, d_inumber |-> i]]

\* Returns the handle fh, or -1 when the table is full.
add_to_open_file_table(i, offset, fh) ==
    \/ /\ IsFirst(fh, FreeHandles)
       /\ open_file_table' = [open_file_table EXCEPT
              ![fh] = [of_inumber |-> i, of_offset |-> offset]]
    \/ /\ fh = -1
       /\ FreeHandles = {}
       /\ UNCHANGED open_file_table

remove_from_open_file_table(fh) ==
    open_file_table' = [open_file_table EXCEPT ![fh] = NoFile]

(***************************************************************************)
(* Ways a call ends                                                        *)
(***************************************************************************)
Idle == status = "running" /\ copying = NoCopy

Returns(r) == ret' = r /\ buf' = NoData
Fails == Returns(-1) /\ UNCHANGED <<status, tables, fs_data, copying>>

\* ALWAYS_ASSERT failed (the process aborts), or memory outside the tables
\* was accessed (anything may follow): no call comes after either.
Stops(s) == status' = s /\ UNCHANGED <<tables, fs_data, ret, buf, copying>>

(***************************************************************************)
(* tfs_init, tfs_destroy                                                   *)
(***************************************************************************)
Init ==
    /\ status = "uninit"
    /\ freeinode_ts = [i \in Inodes |-> "FREE"]
    /\ inode_table = [i \in Inodes |-> RawInode]
    /\ free_blocks = [b \in Blocks |-> "FREE"]
    /\ fs_data = [a \in Addr |-> Junk]
    /\ dir = [s \in Slots |-> [d_name |-> NoName, d_inumber |-> -1]]
    /\ open_file_table = [h \in Handles |-> NoFile]
    /\ ret = 0
    /\ buf = NoData
    /\ copying = NoCopy

\* state_init frees every entry of the tables it allocates; then the root
\* directory takes the first inode and the first block.  The entries of that
\* block are marked empty, but the names in them are what malloc left there.
tfs_init ==
    /\ status = "uninit"
    /\ status' = "running"
    /\ freeinode_ts' = [i \in Inodes |-> IF i = ROOT_DIR_INUM THEN "TAKEN" ELSE "FREE"]
    /\ inode_table' = [i \in Inodes |->
           IF i = ROOT_DIR_INUM
             THEN [i_node_type |-> "T_DIRECTORY", hard_links_count |-> 1,
                   i_size |-> BLOCK_SIZE, i_data_block |-> 0, i_target |-> NoName]
             ELSE RawInode]
    /\ free_blocks' = [b \in Blocks |-> IF b = 0 THEN "TAKEN" ELSE "FREE"]
    /\ fs_data' = [a \in Addr |-> Junk]
    /\ \E left \in [Slots -> StaleNames \cup {NoName}] :
           dir' = [s \in Slots |-> [d_name |-> left[s], d_inumber |-> -1]]
    /\ open_file_table' = [h \in Handles |-> NoFile]
    /\ Returns(0)
    /\ UNCHANGED copying

\* A second tfs_init with the same parameters finds inode_table allocated.
tfs_init_again == Idle /\ Fails

\* Frees every table whatever is open; the tables go back to how Init has them.
tfs_destroy ==
    /\ Idle
    /\ status' = "uninit"
    /\ freeinode_ts' = [i \in Inodes |-> "FREE"]
    /\ inode_table' = [i \in Inodes |-> RawInode]
    /\ free_blocks' = [b \in Blocks |-> "FREE"]
    /\ fs_data' = [a \in Addr |-> Junk]
    /\ dir' = [s \in Slots |-> [d_name |-> NoName, d_inumber |-> -1]]
    /\ open_file_table' = [h \in Handles |-> NoFile]
    /\ Returns(0)
    /\ UNCHANGED copying

(***************************************************************************)
(* tfs_open                                                                *)
(***************************************************************************)
\* The inode the handle will refer to, once a soft link i has been followed
\* (one level, by name); no value when the link dangles.
Resolved(i, inum) ==
    IF inode_table[i].i_node_type = "T_SOFT_LINK"
      THEN \E s \in Slots : /\ Found(inode_table[i].i_target, s)
                            /\ inum = dir[s].d_inumber
      ELSE inum = i

Dangling(i) == /\ inode_table[i].i_node_type = "T_SOFT_LINK"
               /\ tfs_lookup(inode_table[i].i_target) = {}

\* Fault variant: a file of one byte counts as empty.
TruncatesLonger(i, mode) == "TFS_O_TRUNC" \in mode /\ inode_table[i].i_size > 1

\* TFS_O_TRUNC and TFS_O_APPEND act on the inode the name itself gave, also
\* when the handle goes to the inode a soft link resolved to.
Truncates(i, mode) == "TFS_O_TRUNC" \in mode /\ inode_table[i].i_size > 0

OpenExisting(n, mode, fh) ==
    \E s \in Slots, inum \in Inodes :
        /\ Found(n, s)
        /\ LET i == dir[s].d_inumber
               size == IF Truncates(i, mode) THEN 0 ELSE inode_table[i].i_size
           IN /\ Resolved(i, inum)
              /\ inode_table' = [inode_table EXCEPT ![i].i_size = size]
              /\ free_blocks' = IF Truncates(i, mode)
                                  THEN [free_blocks EXCEPT
                                          ![inode_table[i].i_data_block] = "FREE"]
                                  ELSE free_blocks
              /\ add_to_open_file_table(inum,
                     IF "TFS_O_APPEND" \in mode THEN size ELSE 0, fh)
        /\ UNCHANGED <<freeinode_ts, dir>>

\* The new entry; a full open file table leaves the file created.
OpenCreates(n, mode, fh) ==
    /\ n \notin Malformed
    /\ Matches(n) = {}
    /\ "TFS_O_CREAT" \in mode
    /\ CanAddEntry(n)
    /\ \E i \in Inodes :
           /\ IsFirst(i, FreeInodes)
           /\ inode_table' = inode_create(i, "T_FILE")
           /\ freeinode_ts' = [freeinode_ts EXCEPT ![i] = "TAKEN"]
           /\ add_dir_entry(n, i)
           /\ add_to_open_file_table(i, 0, fh)
    /\ UNCHANGED free_blocks

\* Fault variant: the new inode is not given back.
OpenCannotCreateLeaks(n, mode) ==
    /\ n \notin Malformed
    /\ Matches(n) = {}
    /\ "TFS_O_CREAT" \in mode
    /\ ~CanAddEntry(n)
    /\ \E i \in Inodes : /\ IsFirst(i, FreeInodes)
                         /\ inode_table' = inode_create(i, "T_FILE")
                         /\ freeinode_ts' = [freeinode_ts EXCEPT ![i] = "TAKEN"]
    /\ UNCHANGED <<free_blocks, dir, open_file_table>>

\* No entry for the new inode: inode_delete gives the inode back.
OpenCannotCreate(n, mode) ==
    /\ n \notin Malformed
    /\ Matches(n) = {}
    /\ "TFS_O_CREAT" \in mode
    /\ ~CanAddEntry(n)
    /\ \E i \in Inodes : /\ IsFirst(i, FreeInodes)
                         /\ inode_table' = inode_create(i, "T_FILE")
    /\ UNCHANGED <<freeinode_ts, free_blocks, dir, open_file_table>>

OpenRefused(n, mode) ==
    \/ n \in Malformed
    \/ n \notin Malformed /\ Matches(n) = {} /\ "TFS_O_CREAT" \notin mode
    \/ n \notin Malformed /\ Matches(n) = {} /\ FreeInodes = {}
    \/ \E s \in Slots : Found(n, s) /\ Dangling(dir[s].d_inumber)

Open(n, mode, fh) ==
    \/ OpenExisting(n, mode, fh)
    \/ OpenCreates(n, mode, fh)
    \/ fh = -1 /\ OpenCannotCreate(n, mode)
    \/ fh = -1 /\ OpenRefused(n, mode) /\ UNCHANGED tables

tfs_open(n, mode) ==
    /\ Idle
    /\ \E fh \in Handles \cup {-1} : Open(n, mode, fh) /\ Returns(fh)
    /\ UNCHANGED <<status, fs_data, copying>>

tfs_close(fh) ==
    /\ Idle
    /\ \/ /\ open_file_table[fh] # NoFile
          /\ remove_from_open_file_table(fh)
          /\ Returns(0)
          /\ UNCHANGED <<status, freeinode_ts, inode_table, free_blocks,
                         fs_data, dir, copying>>
       \/ open_file_table[fh] = NoFile /\ Fails

(***************************************************************************)
(* tfs_link, tfs_sym_link, tfs_unlink                                      *)
(***************************************************************************)
\* The new name is not looked up: it may already be in the directory.
tfs_link(target, name) ==
    /\ Idle
    /\ \/ \E s \in Slots :
             /\ Found(target, s)
             /\ inode_table[dir[s].d_inumber].i_node_type # "T_SOFT_LINK"
             /\ CanAddEntry(name)
             /\ add_dir_entry(name, dir[s].d_inumber)
             /\ inode_table' = [inode_table EXCEPT
                    ![dir[s].d_inumber].hard_links_count = @ + 1]
             /\ Returns(0)
             /\ UNCHANGED <<status, freeinode_ts, free_blocks, fs_data,
                            open_file_table, copying>>
       \/ /\ \/ tfs_lookup(target) = {}
             \/ ~CanAddEntry(name)
             \/ \E s \in Slots :
                   /\ Found(target, s)
                   /\ inode_table[dir[s].d_inumber].i_node_type = "T_SOFT_LINK"
          /\ Fails

\* The link inode: strncpy copies what fits of the target's path.
SymLinkInode(i, target) ==
    [inode_create(i, "T_SOFT_LINK") EXCEPT ![i].i_target = Cut[target]]

tfs_sym_link(target, name) ==
    /\ Idle
    /\ \/ /\ tfs_lookup(target) # {}
          /\ \E i \in Inodes :
                /\ IsFirst(i, FreeInodes)
                /\ inode_table' = SymLinkInode(i, target)
                /\ \/ /\ CanAddEntry(name)
                      /\ freeinode_ts' = [freeinode_ts EXCEPT ![i] = "TAKEN"]
                      /\ add_dir_entry(name, i)
                      /\ Returns(0)
                   \/ /\ ~CanAddEntry(name)
                      /\ Returns(-1)
                      /\ UNCHANGED <<freeinode_ts, dir>>
          /\ UNCHANGED <<status, free_blocks, fs_data, open_file_table, copying>>
       \/ (tfs_lookup(target) = {} \/ FreeInodes = {}) /\ Fails

\* A soft link is deleted, and then its link count reaches 0 as well: the
\* second inode_delete finds the inode freed and its ALWAYS_ASSERT fails.
DeletedTwice(i) == /\ inode_table[i].i_node_type = "T_SOFT_LINK"
                   /\ inode_table[i].hard_links_count = 1

\* Fault variants: the inode goes with its last but one link, or never.
DeletedEarly(i) == \/ inode_table[i].i_node_type = "T_SOFT_LINK"
                   \/ inode_table[i].hard_links_count <= 2
DeletedNever(i) == inode_table[i].i_node_type = "T_SOFT_LINK"

Deleted(i) == \/ inode_table[i].i_node_type = "T_SOFT_LINK"
              \/ inode_table[i].hard_links_count = 1

tfs_unlink(n) ==
    /\ Idle
    /\ \/ \E s, c \in Slots :
             /\ Found(n, s)
             /\ ClearedSlot(n, c)
             /\ LET i == dir[s].d_inumber
                IN \/ DeletedTwice(i) /\ Stops("aborted")
                   \/ /\ ~DeletedTwice(i)
                      /\ dir' = [dir EXCEPT ![c] = [d_name |-> NoName,
                                                    d_inumber |-> -1]]
                      /\ inode_table' = [inode_table EXCEPT
                             ![i].hard_links_count = @ - 1]
                      /\ IF Deleted(i) THEN inode_delete(i)
                         ELSE UNCHANGED <<free_blocks, freeinode_ts>>
                      /\ Returns(0)
                      /\ UNCHANGED <<status, fs_data, open_file_table, copying>>
       \/ tfs_lookup(n) = {} /\ Fails

(***************************************************************************)
(* tfs_write, tfs_read: sizes are size_t and wrap modulo SIZE_T            *)
(***************************************************************************)
\* Fault variant: the write is not cut at the end of the block.
WriteCountUncut(fh, to_write) == to_write

WriteCount(fh, to_write) ==
    IF to_write + open_file_table[fh].of_offset > BLOCK_SIZE
      THEN (BLOCK_SIZE - open_file_table[fh].of_offset) % SIZE_T
      ELSE to_write

\* Fault variant: a truncated file takes up the block it had.
WriteBlockAgain(i, b) == IF inode_table[i].i_data_block = -1
                           THEN IsFirst(b, FreeBlocks)
                           ELSE b = inode_table[i].i_data_block

\* The block written: a file of size 0 gets a new one.
WriteBlock(i, b) == IF inode_table[i].i_size = 0
                      THEN IsFirst(b, FreeBlocks)
                      ELSE b = inode_table[i].i_data_block

\* The effect of a write of count > 0 bytes of buffer to block b.
WriteData(fh, b, count, buffer) ==
    LET i == open_file_table[fh].of_inumber
        offset == open_file_table[fh].of_offset
        first == b * BLOCK_SIZE + offset
        size == inode_table[i].i_size
    IN /\ open_file_table' = [open_file_table EXCEPT ![fh].of_offset = @ + count]
       /\ inode_table' = [inode_table EXCEPT
              ![i].i_data_block = b,
              ![i].i_size = IF offset + count > size THEN offset + count ELSE size]
       /\ free_blocks' = [free_blocks EXCEPT ![b] =
              IF size = 0 THEN "TAKEN" ELSE @]
       /\ fs_data' = [a \in Addr |-> IF a \in first .. first + count - 1
                                       THEN buffer[a - first] ELSE fs_data[a]]

WriteFails(fh, count) ==
    /\ count > 0
    /\ inode_table[open_file_table[fh].of_inumber].i_size = 0
    /\ FreeBlocks = {}

\* tfs_write on an open handle, returning r: shared with the copy loop.
Write(fh, to_write, buffer, r) ==
    LET count == WriteCount(fh, to_write)
        offset == open_file_table[fh].of_offset
    IN \/ count = 0 /\ r = 0 /\ UNCHANGED <<status, tables, fs_data>>
       \/ WriteFails(fh, count) /\ r = -1 /\ UNCHANGED <<status, tables, fs_data>>
       \/ /\ count > 0
          /\ \E b \in Blocks :
                /\ WriteBlock(open_file_table[fh].of_inumber, b)
                /\ \/ /\ offset + count <= BLOCK_SIZE
                      /\ r = count
                      /\ WriteData(fh, b, count, buffer)
                      /\ UNCHANGED <<status, freeinode_ts, dir>>
                   \/ /\ offset + count > BLOCK_SIZE
                      /\ r = -1
                      /\ status' = "undefined"
                      /\ UNCHANGED <<tables, fs_data>>

tfs_write(fh, to_write, buffer) ==
    /\ Idle
    /\ \/ /\ open_file_table[fh] # NoFile
          /\ \E r \in -1 .. BLOCK_SIZE :
                Write(fh, to_write, buffer, r) /\ Returns(r)
          /\ UNCHANGED copying
       \/ open_file_table[fh] = NoFile /\ Fails

\* Fault variant: the end of the file does not stop the read.
ReadCountUncut(fh, len) == len

\* Bytes to read: the subtraction wraps when the offset is past the size.
ReadCount(fh, len) ==
    LET offset == open_file_table[fh].of_offset
        to_read == (inode_table[open_file_table[fh].of_inumber].i_size - offset)
                      % SIZE_T
    IN IF to_read > len THEN len ELSE to_read

tfs_read(fh, len) ==
    /\ Idle
    /\ \/ /\ open_file_table[fh] # NoFile
          /\ LET b == inode_table[open_file_table[fh].of_inumber].i_data_block
                 first == b * BLOCK_SIZE + open_file_table[fh].of_offset
                 count == ReadCount(fh, len)
             IN \/ count > 0 /\ b \notin Blocks /\ Stops("aborted")
                \/ count > 0 /\ b \in Blocks /\ first + count - 1 \notin Addr
                     /\ Stops("undefined")
                \/ /\ count > 0 => b \in Blocks /\ first + count - 1 \in Addr
                   /\ open_file_table' = [open_file_table EXCEPT
                                             ![fh].of_offset = @ + count]
                   /\ ret' = count
                   /\ buf' = [k \in 0 .. count - 1 |-> fs_data[first + k]]
                   /\ UNCHANGED <<status, freeinode_ts, inode_table,
                                  free_blocks, fs_data, dir, copying>>
       \/ open_file_table[fh] = NoFile /\ Fails

(***************************************************************************)
(* tfs_copy_from_external_fs: one step for the open, one for each turn of  *)
(* the loop, one for the end; the single thread makes no other call        *)
(* meanwhile.                                                              *)
(***************************************************************************)
CopyMode == {"TFS_O_TRUNC", "TFS_O_APPEND", "TFS_O_CREAT"}

\* length = -1: the external file cannot be opened.
CopyOpen(n, length) ==
    /\ Idle
    /\ \/ length = -1 /\ Fails
       \/ /\ length >= 0
          /\ \E fh \in Handles \cup {-1} :
                /\ Open(n, CopyMode, fh)
                /\ Returns(IF fh = -1 THEN -1 ELSE ret)
                /\ copying' = IF fh = -1 THEN NoCopy
                              ELSE [fhandle |-> fh, left |-> length]
          /\ UNCHANGED <<status, fs_data>>

\* read gives 1..BUFFER_SIZE bytes; tfs_write may store fewer, or none.
CopyStores(chunk, buffer) ==
    /\ ~WriteFails(copying.fhandle, WriteCount(copying.fhandle, chunk))
    /\ \E r \in -1 .. BLOCK_SIZE : Write(copying.fhandle, chunk, buffer, r)
    /\ copying' = [copying EXCEPT !.left = @ - chunk]
    /\ UNCHANGED <<ret, buf>>

\* Fault variant: the handle stays open when the copy fails.
CopyGivesUpOpen(chunk) ==
    /\ WriteFails(copying.fhandle, WriteCount(copying.fhandle, chunk))
    /\ copying' = NoCopy
    /\ Returns(-1)
    /\ UNCHANGED <<status, tables, fs_data>>

CopyGivesUp(chunk) ==
    /\ WriteFails(copying.fhandle, WriteCount(copying.fhandle, chunk))
    /\ remove_from_open_file_table(copying.fhandle)
    /\ copying' = NoCopy
    /\ Returns(-1)
    /\ UNCHANGED <<status, freeinode_ts, inode_table, free_blocks, fs_data, dir>>

CopyChunk(chunk, buffer) ==
    /\ status = "running"
    /\ copying # NoCopy
    /\ chunk \in 1 .. BUFFER_SIZE
    /\ chunk <= copying.left
    /\ CopyStores(chunk, buffer) \/ CopyGivesUp(chunk)

\* Both files are closed and the call answers 0.
CopyReturns ==
    /\ status = "running"
    /\ copying # NoCopy
    /\ remove_from_open_file_table(copying.fhandle)
    /\ copying' = NoCopy
    /\ Returns(0)
    /\ UNCHANGED <<status, freeinode_ts, inode_table, free_blocks, fs_data, dir>>

\* read answers 0: the source has given its last byte.
CopyEnd == copying.left = 0 /\ CopyReturns

\* read answers -1, and the loop ends the same way.
CopyReadFails == copying.left > 0 /\ CopyReturns

Buffers(length) == [0 .. length - 1 -> Bytes]

Next ==
    \/ tfs_init
    \/ tfs_init_again
    \/ tfs_destroy
    \/ \E n \in Names, mode \in Modes : tfs_open(n, mode)
    \/ \E fh \in Handles : tfs_close(fh)
    \/ \E target, name \in Names : tfs_link(target, name)
    \/ \E target, name \in Names : tfs_sym_link(target, name)
    \/ \E n \in Names : tfs_unlink(n)
    \/ \E fh \in Handles, to_write \in 0 .. MAX_LEN :
          \E buffer \in Buffers(to_write) : tfs_write(fh, to_write, buffer)
    \/ \E fh \in Handles, len \in 0 .. MAX_LEN : tfs_read(fh, len)
    \/ \E n \in Names, length \in -1 .. MAX_SOURCE : CopyOpen(n, length)
    \/ \E chunk \in 1 .. MAX_SOURCE : \E buffer \in Buffers(chunk) :
          CopyChunk(chunk, buffer)
    \/ CopyEnd
    \/ CopyReadFails

Spec == Init /\ [][Next]_vars

(***************************************************************************)
(* Properties                                                              *)
(***************************************************************************)
InodeRecord == [i_node_type : {"T_FILE", "T_DIRECTORY", "T_SOFT_LINK"},
                hard_links_count : Nat, i_size : Nat,
                i_data_block : Blocks \cup {-1}, i_target : Names \cup {NoName}]

OpenFile == [of_inumber : Inodes, of_offset : Nat]

\* Every table of state.c holds values of its type.
TypeOK ==
    /\ status \in {"uninit", "running", "aborted", "undefined"}
    /\ freeinode_ts \in [Inodes -> {"FREE", "TAKEN"}]
    /\ inode_table \in [Inodes -> InodeRecord]
    /\ free_blocks \in [Blocks -> {"FREE", "TAKEN"}]
    /\ fs_data \in [Addr -> Bytes \cup {Junk}]
    /\ dir \in [Slots -> [d_name : Names \cup {NoName},
                          d_inumber : Inodes \cup {-1}]]
    /\ open_file_table \in [Handles -> OpenFile \cup {NoFile}]
    /\ ret \in Int
    /\ copying \in [fhandle : Handles, left : Nat] \cup {NoCopy}

Links(i) == {s \in Slots : dir[s].d_inumber = i}
Running == status = "running"

\* Every entry of the directory leads to an allocated inode other than the
\* root's, so no name outlives its inode and no path reaches a recycled one.
EntriesAllocated ==
    \A s \in Slots : dir[s].d_inumber # -1 =>
        /\ freeinode_ts[dir[s].d_inumber] = "TAKEN"
        /\ dir[s].d_inumber # ROOT_DIR_INUM

\* hard_links_count is the number of directory entries of the inode, and an
\* allocated inode has at least one: tfs_unlink deletes an inode exactly when
\* its last name goes, and the failed paths of tfs_open and tfs_sym_link
\* leak none.
LinkCount ==
    \A i \in Inodes \ {ROOT_DIR_INUM} :
        freeinode_ts[i] = "TAKEN" =>
            /\ inode_table[i].hard_links_count = Cardinality(Links(i))
            /\ Links(i) # {}

\* A non-empty allocated inode owns an allocated data block, and no two of
\* them share one: data_block_free never frees a block another file uses.
BlocksOwned ==
    LET Owners == {i \in Inodes : /\ freeinode_ts[i] = "TAKEN"
                                  /\ inode_table[i].i_size > 0}
    IN /\ \A i \in Owners : /\ inode_table[i].i_data_block \in Blocks
                            /\ free_blocks[inode_table[i].i_data_block] = "TAKEN"
       /\ \A i, j \in Owners :
             inode_table[i].i_data_block = inode_table[j].i_data_block => i = j

\* clear_dir_entry compares names without looking at d_inumber, and the root
\* block starts with whatever names malloc left in it; still the entry it
\* clears is the one find_in_dir found, whose inode tfs_unlink then releases.
UnlinkClearsWhatItFound ==
    \A n \in Names : \A s, c \in Slots :
        Found(n, s) /\ ClearedSlot(n, c) => c = s

\* operations.c:307, 357, 409-414.  Whatever calls are made in whatever order, the
\* library is brought to a stop (an assertion fails, or memory outside the
\* tables is used) by three of them only: tfs_unlink of a soft link, tfs_read
\* with the cursor past the end of the file, and tfs_write with the cursor past
\* the end of the block.  An import, and a handle on a deleted file whose cursor
\* is inside it, stop nothing.
ThreeCallsStop ==
    [][Running /\ status' \in {"aborted", "undefined"} =>
          \/ \E n \in Names, s \in Slots :
                /\ tfs_unlink(n) /\ Found(n, s)
                /\ inode_table[dir[s].d_inumber].i_node_type = "T_SOFT_LINK"
          \/ \E fh \in Handles \ FreeHandles :
                LET file == open_file_table[fh]
                IN \/ /\ file.of_offset > inode_table[file.of_inumber].i_size
                      /\ \E len \in 0 .. MAX_LEN : tfs_read(fh, len)
                   \/ /\ file.of_offset > BLOCK_SIZE
                      /\ \E to_write \in 0 .. MAX_LEN :
                            \E buffer \in Buffers(to_write) :
                               tfs_write(fh, to_write, buffer)]_vars
=============================================================================
