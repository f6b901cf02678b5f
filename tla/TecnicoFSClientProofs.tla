------------------------ MODULE TecnicoFSClientProofs ------------------------
(***************************************************************************)
(* Proofs that a careful caller never stops the library, leaves no cursor  *)
(* outside its file and loses no block, for tables of every size.  The     *)
(* refinement of AbstractFS that builds on them is proved in               *)
(* TecnicoFSRefinementProofs.                                              *)
(*                                                                         *)
(* ClientNext only narrows Next, so that the invariant of TecnicoFSProofs  *)
(* is there to build on.                                                   *)
(***************************************************************************)
EXTENDS TecnicoFSClient, TecnicoFSProofs, SequenceTheorems

(***************************************************************************)
(* The inductive invariant                                                 *)
(***************************************************************************)
\* No file is longer than its block, open or not.
SizesBounded ==
    \A i \in Inodes : freeinode_ts[i] = "TAKEN"
                         => inode_table[i].i_size <= BLOCK_SIZE

\* The root is the only directory, and a soft link's target is a name.
InodeKinds ==
    \A i \in Inodes \ {ROOT_DIR_INUM} : freeinode_ts[i] = "TAKEN" =>
        /\ inode_table[i].i_node_type \in {"T_FILE", "T_SOFT_LINK"}
        /\ IsLink(i) => inode_table[i].i_target \in Names

\* A name is in the directory once, and a look-up of it gets there.
NamesDistinct ==
    \A s, t \in Slots :
        /\ dir[s].d_inumber # -1
        /\ dir[t].d_inumber # -1
        /\ dir[s].d_name = dir[t].d_name
        => s = t

NamesWellFormed ==
    \A s \in Slots : dir[s].d_inumber # -1 => dir[s].d_name \notin Malformed

\* tfs_open gives out no handle on the root directory.
RootNotOpen ==
    \A fh \in Handles : open_file_table[fh].of_inumber # ROOT_DIR_INUM

FilesInv ==
    /\ CursorsInsideFiles
    /\ RootNotOpen
    /\ SizesBounded
    /\ InodeKinds
    /\ NoBlockLeaks

DirInv == NamesDistinct /\ NamesWellFormed

\* A library that is not initialised has empty tables.
ClientInv ==
    /\ IInv
    /\ NeverStops
    /\ FilesInv
    /\ DirInv
    /\ status = "uninit" => NoTables

(***************************************************************************)
(* What leaves a part of the invariant alone                               *)
(***************************************************************************)
LEMMA FilesKept ==
    ASSUME FilesInv, UNCHANGED <<freeinode_ts, inode_table, free_blocks>>,
           \A fh \in Handles : open_file_table'[fh] \in {open_file_table[fh], NoFile}
    PROVE  FilesInv'
<1>1. CursorsInsideFiles'
  BY DEF FilesInv, CursorsInsideFiles
<1>2. RootNotOpen'
  BY DEF FilesInv, RootNotOpen, NoFile, ROOT_DIR_INUM
<1>3. SizesBounded' /\ InodeKinds' /\ NoBlockLeaks'
  BY DEF FilesInv, SizesBounded, InodeKinds, NoBlockLeaks, IsLink
<1> QED BY <1>1, <1>2, <1>3 DEF FilesInv

LEMMA DirKept == ASSUME DirInv, UNCHANGED dir PROVE DirInv'
  BY DEF DirInv, NamesDistinct, NamesWellFormed

\* The tables of an allocated inode, spelled out.
LEMMA InodeTyped ==
    ASSUME TablesInv, NEW i \in Inodes
    PROVE  /\ inode_table[i] \in InodeRecord
           /\ inode_table[i].i_size \in Nat
           /\ inode_table[i].i_data_block \in Blocks \cup {-1}
           /\ inode_table[i].hard_links_count \in Nat
           /\ freeinode_ts[i] \in {"FREE", "TAKEN"}
<1>1. inode_table[i] \in InodeRecord
  BY DEF TablesInv, TablesType
<1>2. freeinode_ts[i] \in {"FREE", "TAKEN"}
  BY DEF TablesInv, TablesType
<1> QED BY <1>1, <1>2 DEF InodeRecord

\* The file and the cursor of an open handle.
LEMMA Cursor ==
    ASSUME TablesInv, FilesInv, NEW fh \in Handles, open_file_table[fh] # NoFile,
           NEW i, i = open_file_table[fh].of_inumber,
           NEW offset, offset = open_file_table[fh].of_offset
    PROVE  /\ i \in Inodes \ {ROOT_DIR_INUM}
           /\ freeinode_ts[i] = "TAKEN"
           /\ inode_table[i].i_node_type = "T_FILE"
           /\ inode_table[i].i_size \in Nat
           /\ offset \in Nat
           /\ offset <= inode_table[i].i_size
           /\ inode_table[i].i_size <= BLOCK_SIZE
           /\ open_file_table[fh] = [of_inumber |-> i, of_offset |-> offset]
<1>1. open_file_table[fh] \in OpenFile
  BY DEF TablesInv, TablesType
<1>2. i \in Inodes /\ offset \in Nat
  BY <1>1 DEF OpenFile
<1>3. i # ROOT_DIR_INUM
  BY DEF FilesInv, RootNotOpen
<1>4. open_file_table[fh] = [of_inumber |-> i, of_offset |-> offset]
  BY <1>1 DEF OpenFile
<1> QED BY <1>2, <1>3, <1>4, InodeTyped DEF FilesInv, CursorsInsideFiles

\* Every open handle at once.
LEMMA OpenInodes ==
    ASSUME TablesInv, FilesInv
    PROVE  \A h \in Handles : open_file_table[h] # NoFile =>
              /\ open_file_table[h].of_inumber \in Inodes \ {ROOT_DIR_INUM}
              /\ freeinode_ts[open_file_table[h].of_inumber] = "TAKEN"
              /\ open_file_table[h].of_offset \in Nat
<1> SUFFICES ASSUME NEW h \in Handles, open_file_table[h] # NoFile
             PROVE  /\ open_file_table[h].of_inumber \in Inodes \ {ROOT_DIR_INUM}
                    /\ freeinode_ts[open_file_table[h].of_inumber] = "TAKEN"
                    /\ open_file_table[h].of_offset \in Nat
  OBVIOUS
<1>1. PICK i, o : i = open_file_table[h].of_inumber /\ o = open_file_table[h].of_offset
  OBVIOUS
<1>2. i \in Inodes \ {ROOT_DIR_INUM} /\ freeinode_ts[i] = "TAKEN" /\ o \in Nat
  BY <1>1, Cursor
<1> QED BY <1>1, <1>2

\* A moved cursor, as a record.
Moves(fh, count) ==
    open_file_table' = [open_file_table EXCEPT ![fh].of_offset = @ + count]

LEMMA CursorRecord ==
    ASSUME TablesInv, NEW fh \in Handles, NEW i, NEW offset, NEW count,
           open_file_table[fh] = [of_inumber |-> i, of_offset |-> offset],
           Moves(fh, count)
    PROVE  open_file_table' = [open_file_table EXCEPT
               ![fh] = [of_inumber |-> i, of_offset |-> offset + count]]
<1>1. [open_file_table[fh] EXCEPT !.of_offset = @ + count]
         = [of_inumber |-> i, of_offset |-> offset + count]
  OBVIOUS
<1>2. open_file_table' = [open_file_table EXCEPT
          ![fh] = [open_file_table[fh] EXCEPT !.of_offset = @ + count]]
  BY DEF Moves
<1> QED BY <1>1, <1>2

\* The inode tfs_open and tfs_sym_link begin with.
LEMMA InodeCreated ==
    ASSUME TablesType, NEW i \in Inodes
    PROVE  /\ \A type : \E rec :
                 /\ inode_create(i, type) = [inode_table EXCEPT ![i] = rec]
                 /\ rec.i_size = 0 /\ rec.i_node_type = type
           /\ \A target : \E rec :
                 /\ SymLinkInode(i, target) = [inode_table EXCEPT ![i] = rec]
                 /\ rec.i_size = 0 /\ rec.i_node_type = "T_SOFT_LINK"
                 /\ rec.i_target = Cut[target]
<1> DEFINE rec(type, target) == [i_node_type |-> type, hard_links_count |-> 1,
                                 i_size |-> 0, i_data_block |-> -1,
                                 i_target |-> target]
           old == inode_table[i].i_target
<1>1. \A type : inode_create(i, type) = [inode_table EXCEPT ![i] = rec(type, old)]
  BY DEF inode_create
<1>2. ASSUME NEW target
      PROVE  SymLinkInode(i, target)
                = [inode_table EXCEPT ![i] = rec("T_SOFT_LINK", Cut[target])]
  <2>1. [rec("T_SOFT_LINK", old) EXCEPT !.i_target = Cut[target]]
           = rec("T_SOFT_LINK", Cut[target])
    OBVIOUS
  <2>2. SymLinkInode(i, target) =
           [[inode_table EXCEPT ![i] = rec("T_SOFT_LINK", old)] EXCEPT
              ![i] = [rec("T_SOFT_LINK", old) EXCEPT !.i_target = Cut[target]]]
    <3> HIDE DEF rec
    <3> QED BY <1>1 DEF SymLinkInode, TablesType
  <2> HIDE DEF rec
  <2> QED BY <2>1, <2>2 DEF TablesType
<1>3. \A type, target : /\ rec(type, target).i_size = 0
                        /\ rec(type, target).i_node_type = type
                        /\ rec(type, target).i_target = target
  OBVIOUS
<1>4. ASSUME NEW type
      PROVE  \E r : /\ inode_create(i, type) = [inode_table EXCEPT ![i] = r]
                    /\ r.i_size = 0 /\ r.i_node_type = type
  <2> HIDE DEF rec
  <2> WITNESS rec(type, old)
  <2> QED BY <1>1, <1>3
<1>5. ASSUME NEW target
      PROVE  \E r : /\ SymLinkInode(i, target) = [inode_table EXCEPT ![i] = r]
                    /\ r.i_size = 0 /\ r.i_node_type = "T_SOFT_LINK"
                    /\ r.i_target = Cut[target]
  <2> HIDE DEF rec
  <2> WITNESS rec("T_SOFT_LINK", Cut[target])
  <2> QED BY <1>2, <1>3
<1> QED BY <1>4, <1>5

(***************************************************************************)
(* The changes operations make to the tables                               *)
(***************************************************************************)
\* Where a cursor may be.
Inside(i, offset) ==
    /\ i # ROOT_DIR_INUM
    /\ freeinode_ts[i] = "TAKEN"
    /\ inode_table[i].i_node_type = "T_FILE"
    /\ offset <= inode_table[i].i_size
    /\ inode_table[i].i_size <= BLOCK_SIZE

\* The cursors after a step are inside their files when those that were there
\* still are, and the one given out is.
LEMMA CursorGiven ==
    ASSUME TablesInv, NEW i \in Inodes, NEW offset \in Nat,
           NEW fh \in Handles \cup {-1}, add_to_open_file_table(i, offset, fh),
           Inside(i, offset)',
           \A h \in Handles : open_file_table[h] # NoFile =>
              \A j, o : /\ j = open_file_table[h].of_inumber
                        /\ o = open_file_table[h].of_offset
                        => Inside(j, o)'
    PROVE  CursorsInsideFiles' /\ RootNotOpen'
<1>1. \A h \in Handles :
          \/ open_file_table'[h] = open_file_table[h]
          \/ open_file_table'[h] = [of_inumber |-> i, of_offset |-> offset]
  BY DEF add_to_open_file_table, TablesInv, TablesType
<1>2. \A h \in Handles : open_file_table'[h] # NoFile =>
          Inside(open_file_table[h].of_inumber, open_file_table[h].of_offset)'
  <2> SUFFICES ASSUME NEW h \in Handles, open_file_table'[h] # NoFile,
                      NEW j, j = open_file_table'[h].of_inumber,
                      NEW o, o = open_file_table'[h].of_offset
               PROVE  Inside(j, o)'
    BY DEF Inside
  <2> QED BY <1>1
<1>3. CursorsInsideFiles'
  BY <1>2 DEF CursorsInsideFiles, Inside
<1>4. RootNotOpen'
  BY <1>2 DEF RootNotOpen, Inside, NoFile, ROOT_DIR_INUM
<1> QED BY <1>3, <1>4

\* The cursors that are there.
LEMMA CursorsThere ==
    ASSUME FilesInv, NEW h \in Handles, open_file_table[h] # NoFile,
           NEW j, j = open_file_table[h].of_inumber,
           NEW o, o = open_file_table[h].of_offset
    PROVE  Inside(j, o)
  BY DEF FilesInv, CursorsInsideFiles, RootNotOpen, Inside

\* An existing file is opened, and truncated if no handle is on it.
LEMMA OldOpened ==
    ASSUME TablesInv, FilesInv, NEW mode,
           NEW i \in Inodes \ {ROOT_DIR_INUM}, freeinode_ts[i] = "TAKEN",
           Truncates(i, mode) => ~IsOpen(i),
           inode_table' = [inode_table EXCEPT ![i].i_size =
               IF Truncates(i, mode) THEN 0 ELSE inode_table[i].i_size],
           free_blocks' = IF Truncates(i, mode)
                            THEN [free_blocks EXCEPT
                                    ![inode_table[i].i_data_block] = "FREE"]
                            ELSE free_blocks,
           UNCHANGED freeinode_ts,
           NEW inum \in Inodes, NEW offset \in Nat, NEW fh \in Handles \cup {-1},
           add_to_open_file_table(inum, offset, fh),
           Inside(inum, offset)'
    PROVE  FilesInv'
<1>1. \A j \in Inodes \ {i} : inode_table'[j] = inode_table[j]
  BY DEF TablesInv, TablesType
<1>2. /\ inode_table'[i].i_node_type = inode_table[i].i_node_type
      /\ inode_table'[i].i_target = inode_table[i].i_target
      /\ inode_table'[i].i_data_block = inode_table[i].i_data_block
      /\ inode_table'[i].i_size = IF Truncates(i, mode) THEN 0 ELSE inode_table[i].i_size
      /\ inode_table[i].i_size \in Nat
  BY InodeTyped DEF InodeRecord, TablesInv, TablesType
<1>3. SizesBounded' /\ InodeKinds'
  BY <1>1, <1>2, SizesAssumption DEF FilesInv, SizesBounded, InodeKinds, IsLink
<1>4. CursorsInsideFiles' /\ RootNotOpen'
  <2> SUFFICES ASSUME NEW h \in Handles, open_file_table[h] # NoFile,
                      NEW j, j = open_file_table[h].of_inumber,
                      NEW o, o = open_file_table[h].of_offset
               PROVE  Inside(j, o)'
    BY CursorGiven
  <2>1. Inside(j, o) /\ j \in Inodes
    BY CursorsThere, Cursor
  <2>2. j = i => ~Truncates(i, mode)
    BY DEF IsOpen
  <2> QED BY <1>1, <1>2, <2>1, <2>2 DEF Inside
<1>5. NoBlockLeaks'
  <2> SUFFICES ASSUME NEW b \in Blocks, free_blocks'[b] = "TAKEN"
               PROVE  \E j \in Inodes : /\ freeinode_ts'[j] = "TAKEN"
                                        /\ inode_table'[j].i_size > 0
                                        /\ inode_table'[j].i_data_block = b
    BY DEF NoBlockLeaks
  <2>1. /\ free_blocks[b] = "TAKEN"
        /\ Truncates(i, mode) => inode_table[i].i_data_block # b
    BY DEF TablesInv, TablesType
  <2>2. PICK j \in Inodes : /\ freeinode_ts[j] = "TAKEN"
                            /\ inode_table[j].i_size > 0
                            /\ inode_table[j].i_data_block = b
    BY <2>1 DEF FilesInv, NoBlockLeaks
  <2>3. CASE j = i
    BY <2>1, <2>2, <2>3, <1>2
  <2>4. CASE j # i
    BY <2>2, <2>4, <1>1
  <2> QED BY <2>3, <2>4
<1> QED BY <1>3, <1>4, <1>5 DEF FilesInv

\* A free inode is written, and perhaps taken; nothing refers to it yet.
LEMMA InodeBegun ==
    ASSUME TablesInv, FilesInv, NEW i \in Inodes \ {ROOT_DIR_INUM},
           freeinode_ts[i] = "FREE",
           NEW rec, rec.i_size = 0, rec.i_node_type \in {"T_FILE", "T_SOFT_LINK"},
           rec.i_node_type = "T_SOFT_LINK" => rec.i_target \in Names,
           inode_table' = [inode_table EXCEPT ![i] = rec],
           freeinode_ts' \in {freeinode_ts, [freeinode_ts EXCEPT ![i] = "TAKEN"]},
           UNCHANGED free_blocks
    PROVE  /\ SizesBounded' /\ InodeKinds' /\ NoBlockLeaks'
           /\ \A j, o : j \in Inodes /\ Inside(j, o) => Inside(j, o)'
<1>1. /\ inode_table'[i] = rec
      /\ \A j \in Inodes \ {i} : /\ inode_table'[j] = inode_table[j]
                                 /\ freeinode_ts'[j] = freeinode_ts[j]
  BY DEF TablesInv, TablesType
<1>2. SizesBounded'
  BY <1>1, SizesAssumption DEF FilesInv, SizesBounded
<1>3. InodeKinds'
  BY <1>1 DEF FilesInv, InodeKinds, IsLink
<1>4. NoBlockLeaks'
  <2> SUFFICES ASSUME NEW b \in Blocks, free_blocks[b] = "TAKEN"
               PROVE  \E j \in Inodes : /\ freeinode_ts'[j] = "TAKEN"
                                        /\ inode_table'[j].i_size > 0
                                        /\ inode_table'[j].i_data_block = b
    BY DEF NoBlockLeaks
  <2>1. PICK j \in Inodes : /\ freeinode_ts[j] = "TAKEN"
                            /\ inode_table[j].i_size > 0
                            /\ inode_table[j].i_data_block = b
    BY DEF FilesInv, NoBlockLeaks
  <2> QED BY <1>1, <2>1
<1>5. \A j, o : j \in Inodes /\ Inside(j, o) => Inside(j, o)'
  BY <1>1 DEF Inside
<1> QED BY <1>2, <1>3, <1>4, <1>5

\* An entry under a name that is not in use.
LEMMA NameAdded ==
    ASSUME DirInv, TablesInv, NEW n \in Names \ Malformed, Matches(n) = {},
           NEW i \in Inodes, add_dir_entry(n, i)
    PROVE  DirInv'
<1>1. PICK s \in Slots :
          /\ dir[s].d_inumber = -1
          /\ dir' = [dir EXCEPT ![s] = [d_name |-> n, d_inumber |-> i]]
  BY DEF add_dir_entry, IsFirst, EmptySlots
<1>2. /\ dir'[s].d_name = n
      /\ \A t \in Slots \ {s} : dir'[t] = dir[t]
      /\ \A t \in Slots : dir[t].d_inumber # -1 => dir[t].d_name # n
  BY <1>1 DEF Matches, TablesInv, TablesType
<1>3. NamesDistinct'
  BY <1>2 DEF DirInv, NamesDistinct
<1>4. NamesWellFormed'
  BY <1>2 DEF DirInv, NamesWellFormed
<1> QED BY <1>3, <1>4 DEF DirInv

LEMMA NameRemoved ==
    ASSUME DirInv, TablesInv, NEW s \in Slots,
           dir' = [dir EXCEPT ![s] = [d_name |-> NoName, d_inumber |-> -1]]
    PROVE  DirInv'
<1>1. /\ dir'[s].d_inumber = -1
      /\ \A t \in Slots \ {s} : dir'[t] = dir[t]
  BY DEF TablesInv, TablesType
<1> QED BY <1>1 DEF DirInv, NamesDistinct, NamesWellFormed

\* The link count of an inode changes, and the inode may go, if no handle is
\* on it.
LEMMA LinkGone ==
    ASSUME TablesInv, FilesInv, NEW i \in Inodes, freeinode_ts[i] = "TAKEN",
           Deleted(i) => ~IsOpen(i), NEW links,
           inode_table' = [inode_table EXCEPT ![i].hard_links_count = links],
           IF Deleted(i) THEN inode_delete(i)
                         ELSE UNCHANGED <<free_blocks, freeinode_ts>>,
           UNCHANGED open_file_table
    PROVE  FilesInv'
<1>1. \A j \in Inodes : /\ inode_table'[j].i_node_type = inode_table[j].i_node_type
                        /\ inode_table'[j].i_size = inode_table[j].i_size
                        /\ inode_table'[j].i_data_block = inode_table[j].i_data_block
                        /\ inode_table'[j].i_target = inode_table[j].i_target
  <2> TAKE j \in Inodes
  <2>1. inode_table[j] \in InodeRecord /\ inode_table[i] \in InodeRecord
    BY InodeTyped
  <2>2. CASE j = i
    BY <2>1, <2>2 DEF InodeRecord, TablesInv, TablesType
  <2>3. CASE j # i
    BY <2>3 DEF TablesInv, TablesType
  <2> QED BY <2>2, <2>3
<1>2. /\ \A j \in Inodes \ {i} : freeinode_ts'[j] = freeinode_ts[j]
      /\ freeinode_ts'[i] = IF Deleted(i) THEN "FREE" ELSE "TAKEN"
  BY DEF inode_delete, TablesInv, TablesType
<1>3. SizesBounded' /\ InodeKinds'
  BY <1>1, <1>2 DEF FilesInv, SizesBounded, InodeKinds, IsLink
<1>4. CursorsInsideFiles'
  BY <1>1, <1>2, OpenInodes DEF FilesInv, CursorsInsideFiles, IsOpen
<1>5. RootNotOpen'
  BY DEF FilesInv, RootNotOpen
<1>6. NoBlockLeaks'
  <2> SUFFICES ASSUME NEW b \in Blocks, free_blocks'[b] = "TAKEN"
               PROVE  \E j \in Inodes : /\ freeinode_ts'[j] = "TAKEN"
                                        /\ inode_table'[j].i_size > 0
                                        /\ inode_table'[j].i_data_block = b
    BY DEF NoBlockLeaks
  <2>1. /\ free_blocks[b] = "TAKEN"
        /\ Deleted(i) /\ inode_table[i].i_size > 0
              => inode_table[i].i_data_block # b
    BY DEF inode_delete, TablesInv, TablesType
  <2>2. PICK j \in Inodes : /\ freeinode_ts[j] = "TAKEN"
                            /\ inode_table[j].i_size > 0
                            /\ inode_table[j].i_data_block = b
    BY <2>1 DEF FilesInv, NoBlockLeaks
  <2>3. freeinode_ts'[j] = "TAKEN"
    BY <1>2, <2>1, <2>2
  <2> QED BY <1>1, <2>2, <2>3
<1> QED BY <1>3, <1>4, <1>5, <1>6 DEF FilesInv

(***************************************************************************)
(* tfs_write and tfs_read with cursors inside files                        *)
(***************************************************************************)
\* What is cut off a write at the end of the block, and off a read at the end
\* of the file, does not wrap.
LEMMA NoWrap ==
    ASSUME NEW a \in Nat, NEW b \in Nat, a <= b, b <= BLOCK_SIZE
    PROVE  (b - a) % SIZE_T = b - a
<1>1. b - a \in Nat /\ b - a < SIZE_T
  BY SizesAssumption
<1> QED BY <1>1, SizesAssumption

LEMMA WriteFits ==
    ASSUME TablesInv, FilesInv, NEW fh \in Handles, open_file_table[fh] # NoFile,
           NEW to_write \in Nat,
           NEW offset, offset = open_file_table[fh].of_offset
    PROVE  /\ WriteCount(fh, to_write) =
                  IF to_write + offset > BLOCK_SIZE THEN BLOCK_SIZE - offset
                  ELSE to_write
           /\ WriteCount(fh, to_write) \in 0 .. to_write
           /\ offset + WriteCount(fh, to_write) <= BLOCK_SIZE
<1>1. PICK i : i = open_file_table[fh].of_inumber
  OBVIOUS
<1>2. /\ offset \in Nat /\ inode_table[i].i_size \in Nat
      /\ offset <= inode_table[i].i_size /\ inode_table[i].i_size <= BLOCK_SIZE
  BY <1>1, Cursor
<1>3. offset <= BLOCK_SIZE /\ BLOCK_SIZE \in Nat
  BY <1>2, SizesAssumption
<1>4. (BLOCK_SIZE - offset) % SIZE_T = BLOCK_SIZE - offset
  <2>1. BLOCK_SIZE <= BLOCK_SIZE
    BY <1>3
  <2> QED BY ONLY <1>2, <1>3, <2>1, NoWrap
<1>5. WriteCount(fh, to_write) =
          IF to_write + offset > BLOCK_SIZE THEN BLOCK_SIZE - offset ELSE to_write
  BY <1>4 DEF WriteCount
<1> QED BY <1>2, <1>3, <1>5

LEMMA ReadFits ==
    ASSUME TablesInv, FilesInv, NEW fh \in Handles, open_file_table[fh] # NoFile,
           NEW len \in Nat,
           NEW i, i = open_file_table[fh].of_inumber,
           NEW offset, offset = open_file_table[fh].of_offset
    PROVE  /\ ReadCount(fh, len) = IF inode_table[i].i_size - offset > len THEN len
                                   ELSE inode_table[i].i_size - offset
           /\ ReadCount(fh, len) \in 0 .. len
           /\ offset + ReadCount(fh, len) <= inode_table[i].i_size
<1>1. /\ offset \in Nat /\ inode_table[i].i_size \in Nat
      /\ offset <= inode_table[i].i_size /\ inode_table[i].i_size <= BLOCK_SIZE
  BY Cursor
<1>2. (inode_table[i].i_size - offset) % SIZE_T = inode_table[i].i_size - offset
  BY <1>1, NoWrap
<1>3. ReadCount(fh, len) = IF inode_table[i].i_size - offset > len THEN len
                           ELSE inode_table[i].i_size - offset
  BY <1>2 DEF ReadCount
<1> QED BY <1>1, <1>3

\* What a write of count bytes to block b changes.
LEMMA Written ==
    ASSUME TablesInv, FilesInv, NEW fh \in Handles, open_file_table[fh] # NoFile,
           NEW i, i = open_file_table[fh].of_inumber,
           NEW offset, offset = open_file_table[fh].of_offset,
           NEW count \in Nat \ {0}, NEW b \in Blocks, NEW buffer,
           WriteData(fh, b, count, buffer)
    PROVE  /\ inode_table'[i].i_node_type = "T_FILE"
           /\ inode_table'[i].i_data_block = b
           /\ inode_table'[i].i_size = IF offset + count > inode_table[i].i_size
                                         THEN offset + count
                                         ELSE inode_table[i].i_size
           /\ \A j \in Inodes \ {i} : inode_table'[j] = inode_table[j]
           /\ open_file_table' = [open_file_table EXCEPT
                  ![fh] = [of_inumber |-> i, of_offset |-> offset + count]]
           /\ \A c \in Blocks : free_blocks'[c] =
                  IF c = b /\ inode_table[i].i_size = 0 THEN "TAKEN"
                  ELSE free_blocks[c]
<1>1. /\ i \in Inodes /\ inode_table[i] \in InodeRecord /\ offset \in Nat
      /\ inode_table[i].i_node_type = "T_FILE"
      /\ open_file_table[fh] = [of_inumber |-> i, of_offset |-> offset]
  BY Cursor, InodeTyped
<1>2. inode_table' = [inode_table EXCEPT
          ![i].i_data_block = b,
          ![i].i_size = IF offset + count > inode_table[i].i_size
                          THEN offset + count ELSE inode_table[i].i_size]
  BY DEF WriteData
<1>3. /\ inode_table'[i].i_node_type = "T_FILE"
      /\ inode_table'[i].i_data_block = b
      /\ inode_table'[i].i_size = IF offset + count > inode_table[i].i_size
                                    THEN offset + count ELSE inode_table[i].i_size
      /\ \A j \in Inodes \ {i} : inode_table'[j] = inode_table[j]
  BY <1>1, <1>2 DEF TablesInv, TablesType, InodeRecord
<1>4. open_file_table' = [open_file_table EXCEPT
          ![fh] = [of_inumber |-> i, of_offset |-> offset + count]]
  <2>1. Moves(fh, count)
    BY DEF WriteData, Moves
  <2> QED BY <1>1, <2>1, CursorRecord
<1>5. \A c \in Blocks : free_blocks'[c] =
          IF c = b /\ inode_table[i].i_size = 0 THEN "TAKEN" ELSE free_blocks[c]
  BY DEF WriteData, TablesInv, TablesType
<1> QED BY <1>3, <1>4, <1>5

LEMMA FilesWritten ==
    ASSUME TablesInv, FilesInv, NEW fh \in Handles, open_file_table[fh] # NoFile,
           NEW count \in Nat \ {0},
           open_file_table[fh].of_offset + count <= BLOCK_SIZE,
           NEW b \in Blocks, WriteBlock(open_file_table[fh].of_inumber, b),
           NEW buffer, WriteData(fh, b, count, buffer),
           UNCHANGED freeinode_ts
    PROVE  FilesInv'
<1>1. PICK i, offset : /\ i = open_file_table[fh].of_inumber
                       /\ offset = open_file_table[fh].of_offset
  OBVIOUS
<1>2. /\ i \in Inodes \ {ROOT_DIR_INUM} /\ freeinode_ts[i] = "TAKEN"
      /\ inode_table[i].i_node_type = "T_FILE"
      /\ inode_table[i].i_size \in Nat /\ inode_table[i].i_size <= BLOCK_SIZE
      /\ offset \in Nat /\ offset <= inode_table[i].i_size
  <2>1. open_file_table[fh] \in OpenFile
    BY DEF TablesInv, TablesType
  <2>2. i \in Inodes /\ offset \in Nat
    BY <1>1, <2>1 DEF OpenFile
  <2>3. i # ROOT_DIR_INUM
    BY <1>1 DEF FilesInv, RootNotOpen
  <2>4. /\ freeinode_ts[i] = "TAKEN" /\ inode_table[i].i_node_type = "T_FILE"
        /\ offset <= inode_table[i].i_size /\ inode_table[i].i_size <= BLOCK_SIZE
    BY <1>1 DEF FilesInv, CursorsInsideFiles
  <2>5. inode_table[i].i_size \in Nat
    BY <2>2, InodeTyped DEF TablesInv
  <2> QED BY ONLY <2>2, <2>3, <2>4, <2>5
<1>3. /\ inode_table'[i].i_node_type = "T_FILE"
      /\ inode_table'[i].i_data_block = b
      /\ inode_table'[i].i_size = IF offset + count > inode_table[i].i_size
                                    THEN offset + count ELSE inode_table[i].i_size
      /\ \A j \in Inodes \ {i} : inode_table'[j] = inode_table[j]
      /\ open_file_table' = [open_file_table EXCEPT
             ![fh] = [of_inumber |-> i, of_offset |-> offset + count]]
      /\ \A c \in Blocks : free_blocks'[c] =
             IF c = b /\ inode_table[i].i_size = 0 THEN "TAKEN" ELSE free_blocks[c]
  BY <1>1, Written
<1>4. /\ inode_table'[i].i_size \in Nat \ {0}
      /\ inode_table'[i].i_size >= inode_table[i].i_size
      /\ inode_table'[i].i_size >= offset + count
      /\ inode_table'[i].i_size <= BLOCK_SIZE
  BY <1>1, <1>2, <1>3
<1>5. SizesBounded' /\ InodeKinds'
  BY <1>2, <1>3, <1>4 DEF FilesInv, SizesBounded, InodeKinds, IsLink
<1>6. CursorsInsideFiles' /\ RootNotOpen'
  <2>1. ASSUME NEW h \in Handles, open_file_table'[h] # NoFile,
               NEW j, j = open_file_table'[h].of_inumber,
               NEW o, o = open_file_table'[h].of_offset
        PROVE  Inside(j, o)'
    <3>1. CASE h = fh
      <4>1. j = i /\ o = offset + count
        BY <1>3, <2>1, <3>1 DEF TablesInv, TablesType
      <4> QED BY <1>2, <1>3, <1>4, <4>1 DEF Inside
    <3>2. CASE h # fh
      <4>1. open_file_table'[h] = open_file_table[h]
        BY <1>3, <3>2 DEF TablesInv, TablesType
      <4>2. Inside(j, o) /\ j \in Inodes /\ o \in Nat
        BY <2>1, <4>1, CursorsThere, Cursor
      <4> QED BY <1>2, <1>3, <1>4, <4>2 DEF Inside
    <3> QED BY <3>1, <3>2
  <2>2. \A h \in Handles : open_file_table'[h] # NoFile =>
            Inside(open_file_table[h].of_inumber, open_file_table[h].of_offset)'
    BY <2>1 DEF Inside
  <2>3. CursorsInsideFiles'
    BY <2>2 DEF CursorsInsideFiles, Inside
  <2> QED BY <2>2, <2>3 DEF RootNotOpen, Inside, NoFile, ROOT_DIR_INUM
<1>7. NoBlockLeaks'
  <2> SUFFICES ASSUME NEW c \in Blocks, free_blocks'[c] = "TAKEN"
               PROVE  \E j \in Inodes : /\ freeinode_ts'[j] = "TAKEN"
                                        /\ inode_table'[j].i_size > 0
                                        /\ inode_table'[j].i_data_block = c
    BY DEF NoBlockLeaks
  <2>1. CASE c = b
    BY <1>2, <1>3, <1>4, <2>1
  <2>2. CASE c # b
    <3>1. PICK j \in Inodes : /\ freeinode_ts[j] = "TAKEN"
                              /\ inode_table[j].i_size > 0
                              /\ inode_table[j].i_data_block = c
      BY <1>3, <2>2 DEF FilesInv, NoBlockLeaks
    <3>2. j # i
      BY <1>1, <1>2, <2>2, <3>1 DEF WriteBlock
    <3> QED BY <1>3, <3>1, <3>2
  <2> QED BY <2>1, <2>2
<1> QED BY <1>5, <1>6, <1>7 DEF FilesInv

\* A cursor moves on inside its file.
LEMMA CursorMoved ==
    ASSUME TablesInv, FilesInv, NEW fh \in Handles, open_file_table[fh] # NoFile,
           NEW i, i = open_file_table[fh].of_inumber,
           NEW offset, offset = open_file_table[fh].of_offset,
           NEW count \in Nat, offset + count <= inode_table[i].i_size,
           Moves(fh, count),
           UNCHANGED <<freeinode_ts, inode_table, free_blocks>>
    PROVE  /\ FilesInv'
           /\ open_file_table' = [open_file_table EXCEPT
                  ![fh] = [of_inumber |-> i, of_offset |-> offset + count]]
<1>1. /\ i \in Inodes \ {ROOT_DIR_INUM} /\ freeinode_ts[i] = "TAKEN"
      /\ inode_table[i].i_node_type = "T_FILE"
      /\ inode_table[i].i_size <= BLOCK_SIZE
      /\ open_file_table[fh] = [of_inumber |-> i, of_offset |-> offset]
  BY Cursor
<1>2. open_file_table' = [open_file_table EXCEPT
          ![fh] = [of_inumber |-> i, of_offset |-> offset + count]]
  BY <1>1, CursorRecord
<1>3. \A h \in Handles : IF h = fh
          THEN /\ open_file_table'[h].of_inumber = i
               /\ open_file_table'[h].of_offset = offset + count
          ELSE open_file_table'[h] = open_file_table[h]
  BY <1>2 DEF TablesInv, TablesType
<1>4. CursorsInsideFiles' /\ RootNotOpen'
  BY <1>1, <1>3 DEF FilesInv, CursorsInsideFiles, RootNotOpen
<1>5. SizesBounded' /\ InodeKinds' /\ NoBlockLeaks'
  BY DEF FilesInv, SizesBounded, InodeKinds, NoBlockLeaks, IsLink
<1> QED BY <1>2, <1>4, <1>5 DEF FilesInv

(***************************************************************************)
(* The calls                                                               *)
(***************************************************************************)
\* An inode of allocated entries is a file or a link.
LEMMA FoundKind ==
    ASSUME ClientInv, NEW n, NEW s \in Slots, Found(n, s),
           NEW i, i = dir[s].d_inumber
    PROVE  /\ i \in Inodes \ {ROOT_DIR_INUM}
           /\ freeinode_ts[i] = "TAKEN"
           /\ i \in Inode(n)
           /\ inode_table[i].i_node_type = IF IsLink(i) THEN "T_SOFT_LINK" ELSE "T_FILE"
           /\ IsLink(i) => inode_table[i].i_target \in Names
<1>1. i \in Inodes \ {ROOT_DIR_INUM} /\ freeinode_ts[i] = "TAKEN"
  BY FoundInode DEF ClientInv, IInv
<1>2. i \in Inode(n)
  BY DEF Inode
<1> QED BY <1>1, <1>2 DEF ClientInv, FilesInv, InodeKinds, IsLink

\* What tfs_open does to a name that is there.
OldOpen(n, mode, fh, s, i, inum, offset) ==
    /\ Found(n, s) /\ i = dir[s].d_inumber
    /\ freeinode_ts[i] = "TAKEN"
    /\ freeinode_ts[inum] = "TAKEN"
    /\ inode_table[inum].i_node_type = "T_FILE"
    /\ IF IsLink(i) THEN /\ inode_table[i].i_target \in Names
                         /\ \E t \in Slots : /\ Found(inode_table[i].i_target, t)
                                             /\ inum = dir[t].d_inumber
                         /\ "TFS_O_TRUNC" \notin mode /\ "TFS_O_APPEND" \notin mode
       ELSE inum = i
    /\ Truncates(i, mode) => ~IsOpen(i)
    /\ inode_table' = [inode_table EXCEPT ![i].i_size =
           IF Truncates(i, mode) THEN 0 ELSE inode_table[i].i_size]
    /\ free_blocks' = IF Truncates(i, mode)
                        THEN [free_blocks EXCEPT
                                ![inode_table[i].i_data_block] = "FREE"]
                        ELSE free_blocks
    /\ UNCHANGED <<freeinode_ts, dir>>
    /\ inode_table'[inum].i_node_type = "T_FILE"
    /\ inode_table'[inum].i_size =
           IF Truncates(i, mode) THEN 0 ELSE inode_table[inum].i_size
    /\ offset = IF "TFS_O_APPEND" \in mode THEN inode_table'[inum].i_size ELSE 0
    /\ add_to_open_file_table(inum, offset, fh)

LEMMA OldFound ==
    ASSUME ClientInv, NEW n \in Names, NEW mode, CanOpen(n, mode),
           NEW fh \in Handles \cup {-1}, OpenExisting(n, mode, fh)
    PROVE  \E s \in Slots, i, inum \in Inodes \ {ROOT_DIR_INUM}, offset \in Nat :
              OldOpen(n, mode, fh, s, i, inum, offset)
<1>1. PICK s, inum, i, size :
         /\ s \in Slots /\ inum \in Inodes
         /\ Found(n, s) /\ i = dir[s].d_inumber
         /\ size = IF Truncates(i, mode) THEN 0 ELSE inode_table[i].i_size
         /\ Resolved(i, inum)
         /\ inode_table' = [inode_table EXCEPT ![i].i_size = size]
         /\ free_blocks' = IF Truncates(i, mode)
                             THEN [free_blocks EXCEPT
                                     ![inode_table[i].i_data_block] = "FREE"]
                             ELSE free_blocks
         /\ add_to_open_file_table(inum,
                IF "TFS_O_APPEND" \in mode THEN size ELSE 0, fh)
         /\ UNCHANGED <<freeinode_ts, dir>>
  BY DEF OpenExisting
<1>2. /\ i \in Inodes \ {ROOT_DIR_INUM}
      /\ freeinode_ts[i] = "TAKEN"
      /\ i \in Inode(n)
      /\ inode_table[i].i_node_type = IF IsLink(i) THEN "T_SOFT_LINK" ELSE "T_FILE"
      /\ IsLink(i) => inode_table[i].i_target \in Names
  BY <1>1, FoundKind
<1>3. IF IsLink(i) THEN /\ "TFS_O_TRUNC" \notin mode /\ "TFS_O_APPEND" \notin mode
                        /\ \A j \in Inode(inode_table[i].i_target) : ~IsLink(j)
      ELSE Truncates(i, mode) => ~IsOpen(i)
  BY <1>2 DEF CanOpen, Truncates
<1>4. Truncates(i, mode) => ~IsLink(i)
  BY <1>3 DEF Truncates
<1>5. /\ inode_table[i] \in InodeRecord /\ inode_table[i].i_size \in Nat
      /\ inode_table \in [Inodes -> InodeRecord]
  BY <1>2, InodeTyped DEF ClientInv, IInv, TablesInv, TablesType
<1>6. CASE IsLink(i)
  <2>1. PICK t \in Slots : /\ Found(inode_table[i].i_target, t)
                           /\ inum = dir[t].d_inumber
    BY <1>1, <1>6 DEF Resolved, IsLink
  <2>2. /\ inum \in Inodes \ {ROOT_DIR_INUM} /\ freeinode_ts[inum] = "TAKEN"
        /\ ~IsLink(inum) /\ inode_table[inum].i_node_type = "T_FILE"
    BY <1>3, <1>6, <2>1, FoundKind
  <2>3. inode_table'[inum] = inode_table[inum]
    BY <1>1, <1>2, <1>5, <1>6, <2>2
  <2>4. OldOpen(n, mode, fh, s, i, inum, 0)
    BY <1>1, <1>2, <1>3, <1>4, <1>6, <2>1, <2>2, <2>3 DEF OldOpen
  <2> QED BY <1>1, <1>2, <2>2, <2>4
<1>7. CASE ~IsLink(i)
  <2>1. inum = i
    BY <1>1, <1>7 DEF Resolved, IsLink
  <2>2. inode_table'[i].i_size = size /\ inode_table'[i].i_node_type = "T_FILE"
    BY <1>1, <1>2, <1>5, <1>7 DEF InodeRecord
  <2>3. OldOpen(n, mode, fh, s, i, i, IF "TFS_O_APPEND" \in mode THEN size ELSE 0)
    BY <1>1, <1>2, <1>3, <1>7, <2>1, <2>2 DEF OldOpen
  <2> QED BY <1>1, <1>2, <1>5, <2>3
<1> QED BY <1>6, <1>7

\* What tfs_open does to create a file.
NewOpen(n, fh, i) ==
    /\ n \notin Malformed
    /\ Matches(n) = {}
    /\ freeinode_ts[i] = "FREE"
    /\ inode_table' = inode_create(i, "T_FILE")
    /\ freeinode_ts' = [freeinode_ts EXCEPT ![i] = "TAKEN"]
    /\ add_dir_entry(n, i)
    /\ add_to_open_file_table(i, 0, fh)
    /\ UNCHANGED free_blocks

\* A new inode is not the root's.
LEMMA FreshInode ==
    ASSUME ClientInv, Idle, NEW i \in Inodes, IsFirst(i, FreeInodes)
    PROVE  /\ i \in Inodes \ {ROOT_DIR_INUM}
           /\ freeinode_ts[i] = "FREE"
           /\ TablesType
  BY DEF ClientInv, IInv, CallInv, TablesInv, Idle, IsFirst, FreeInodes

LEMMA NewFound ==
    ASSUME ClientInv, Idle, NEW n \in Names, NEW mode, NEW fh,
           OpenCreates(n, mode, fh)
    PROVE  \E i \in Inodes \ {ROOT_DIR_INUM} : NewOpen(n, fh, i)
  BY FreshInode DEF OpenCreates, CanAddEntry, NewOpen

LEMMA OpenKeeps ==
    ASSUME ClientInv, Idle, NEW n \in Names, NEW mode, CanOpen(n, mode),
           NEW fh \in Handles \cup {-1}, Open(n, mode, fh)
    PROVE  FilesInv' /\ DirInv'
<1>1. TablesInv /\ FilesInv /\ DirInv /\ TablesType
  BY DEF ClientInv, IInv, TablesInv
<1>2. CASE OpenExisting(n, mode, fh)
  <2>1. PICK s \in Slots, i, inum \in Inodes \ {ROOT_DIR_INUM}, offset \in Nat :
           OldOpen(n, mode, fh, s, i, inum, offset)
    BY <1>2, OldFound
  <2>2. inode_table[inum].i_size \in Nat /\ inode_table[inum].i_size <= BLOCK_SIZE
    BY <1>1, <2>1, InodeTyped DEF OldOpen, FilesInv, SizesBounded
  <2>3. Inside(inum, offset)'
    BY <2>1, <2>2, SizesAssumption DEF OldOpen, Inside
  <2>4. FilesInv'
    BY <1>1, <2>1, <2>3, OldOpened DEF OldOpen
  <2> QED BY <1>1, <2>1, <2>4, DirKept DEF OldOpen
<1>3. CASE OpenCreates(n, mode, fh)
  <2>1. PICK i \in Inodes \ {ROOT_DIR_INUM} : NewOpen(n, fh, i)
    BY <1>3, NewFound
  <2>2. PICK rec : /\ inode_table' = [inode_table EXCEPT ![i] = rec]
                   /\ rec.i_size = 0 /\ rec.i_node_type = "T_FILE"
    BY <1>1, <2>1, InodeCreated DEF NewOpen
  <2>3. freeinode_ts[i] = "FREE" /\ freeinode_ts' = [freeinode_ts EXCEPT ![i] = "TAKEN"]
    BY <2>1 DEF NewOpen
  <2>4. /\ SizesBounded' /\ InodeKinds' /\ NoBlockLeaks'
        /\ \A j, o : j \in Inodes /\ Inside(j, o) => Inside(j, o)'
    BY <1>1, <2>1, <2>2, <2>3, InodeBegun DEF NewOpen
  <2>5. Inside(i, 0)'
    BY <1>1, <2>2, <2>3, SizesAssumption DEF Inside, TablesType
  <2>6. CursorsInsideFiles' /\ RootNotOpen'
    <3>1. add_to_open_file_table(i, 0, fh) /\ 0 \in Nat
      BY <2>1 DEF NewOpen
    <3>2. \A h \in Handles : open_file_table[h] # NoFile =>
             \A j, o : /\ j = open_file_table[h].of_inumber
                       /\ o = open_file_table[h].of_offset
                       => Inside(j, o)'
      BY <1>1, <2>4, CursorsThere, Cursor
    <3> QED BY <1>1, <2>5, <3>1, <3>2, CursorGiven
  <2>7. DirInv'
    BY <1>1, <2>1, NameAdded DEF NewOpen
  <2> QED BY <2>4, <2>6, <2>7 DEF FilesInv
<1>4. CASE OpenCannotCreate(n, mode)
  <2>1. PICK i \in Inodes \ {ROOT_DIR_INUM} :
           /\ freeinode_ts[i] = "FREE"
           /\ inode_table' = inode_create(i, "T_FILE")
    BY <1>4, FreshInode DEF OpenCannotCreate
  <2>2. PICK rec : /\ inode_table' = [inode_table EXCEPT ![i] = rec]
                   /\ rec.i_size = 0 /\ rec.i_node_type = "T_FILE"
    BY <1>1, <2>1, InodeCreated
  <2>3. UNCHANGED <<freeinode_ts, free_blocks, dir, open_file_table>>
    BY <1>4 DEF OpenCannotCreate
  <2>4. SizesBounded' /\ InodeKinds' /\ NoBlockLeaks'
    BY <1>1, <2>1, <2>2, <2>3, InodeBegun
  <2>5. \A h \in Handles : open_file_table[h] # NoFile
            => inode_table'[open_file_table[h].of_inumber]
                 = inode_table[open_file_table[h].of_inumber]
    BY <1>1, <2>1, <2>2, OpenInodes DEF TablesType
  <2>6. CursorsInsideFiles' /\ RootNotOpen'
    BY <1>1, <2>3, <2>5 DEF FilesInv, CursorsInsideFiles, RootNotOpen
  <2> QED BY <1>1, <2>3, <2>4, <2>6, DirKept DEF FilesInv
<1>5. CASE UNCHANGED tables
  BY <1>1, <1>5, FilesKept, DirKept DEF tables
<1> QED BY <1>2, <1>3, <1>4, <1>5 DEF Open

\* A running call that leaves a consistent state.
LEMMA Runs ==
    ASSUME IInv', FilesInv', DirInv', status' = "running"
    PROVE  ClientInv'
  BY DEF ClientInv, NeverStops

LEMMA InvParts ==
    ASSUME ClientInv
    PROVE  /\ TablesInv /\ TablesType /\ FilesInv /\ DirInv
           /\ copying # NoCopy => /\ copying.fhandle \in Handles
                                  /\ open_file_table[copying.fhandle] # NoFile
                                  /\ copying \in [fhandle : Handles, left : Nat]
  BY CopyHandle DEF ClientInv, IInv, TablesInv

LEMMA ClientFails ==
    ASSUME ClientInv, Idle, Fails, IInv'
    PROVE  ClientInv'
  BY InvParts, FilesKept, DirKept, Runs DEF Fails, tables, Idle

LEMMA ClientOpen ==
    ASSUME ClientInv, IInv', NEW n \in Names, NEW mode \in Modes,
           CanOpen(n, mode), tfs_open(n, mode)
    PROVE  ClientInv'
  BY OpenKeeps, Runs DEF tfs_open, Idle

LEMMA ClientClose ==
    ASSUME ClientInv, IInv', NEW fh \in Handles, tfs_close(fh)
    PROVE  ClientInv'
<1>1. CASE Fails
  BY <1>1, ClientFails DEF tfs_close
<1>2. CASE ~Fails
  <2>1. /\ remove_from_open_file_table(fh)
        /\ UNCHANGED <<status, freeinode_ts, inode_table, free_blocks, dir>>
    BY <1>2 DEF tfs_close
  <2>2. FilesInv' /\ DirInv'
    BY <2>1, InvParts, FilesKept, DirKept
       DEF remove_from_open_file_table, TablesType
  <2> QED BY <2>1, <2>2, Runs DEF tfs_close, Idle
<1> QED BY <1>1, <1>2

\* The caller may only name what is not there.
LEMMA NotThere ==
    ASSUME ClientInv, NEW n \in Names, Inode(n) = {}
    PROVE  n \notin Malformed => Matches(n) = {}
<1> SUFFICES ASSUME n \notin Malformed, NEW s \in Matches(n) PROVE FALSE
  OBVIOUS
<1>1. \A t \in Matches(n) : t = s
  BY DEF Matches, ClientInv, DirInv, NamesDistinct
<1>2. Found(n, s)
  BY <1>1 DEF Found, IsFirst, tfs_lookup, Matches, Slots
<1> QED BY <1>2 DEF Inode, Matches

LEMMA ClientLink ==
    ASSUME ClientInv, IInv', NEW target \in Names, NEW name \in Names,
           CanLink(target, name), tfs_link(target, name)
    PROVE  ClientInv'
<1>1. CASE Fails
  BY <1>1, ClientFails DEF tfs_link
<1>2. ASSUME NEW s \in Slots, Found(target, s), CanAddEntry(name),
             add_dir_entry(name, dir[s].d_inumber),
             inode_table' = [inode_table EXCEPT
                 ![dir[s].d_inumber].hard_links_count = @ + 1],
             UNCHANGED <<status, freeinode_ts, free_blocks, open_file_table>>
      PROVE  ClientInv'
  <2>1. PICK i : i = dir[s].d_inumber
    OBVIOUS
  <2>2. i \in Inodes
    BY <1>2, <2>1, FoundKind
  <2>3. inode_table' = [inode_table EXCEPT ![i].hard_links_count = @ + 1]
    BY <1>2, <2>1
  <2>4. \A j \in Inodes : /\ inode_table'[j].i_node_type = inode_table[j].i_node_type
                          /\ inode_table'[j].i_size = inode_table[j].i_size
                          /\ inode_table'[j].i_data_block = inode_table[j].i_data_block
                          /\ inode_table'[j].i_target = inode_table[j].i_target
    <3> TAKE j \in Inodes
    <3>1. inode_table[j] \in InodeRecord /\ inode_table[i] \in InodeRecord
      BY <2>2, InvParts, InodeTyped
    <3>2. CASE j = i
      BY <2>3, <3>1, <3>2, InvParts DEF InodeRecord, TablesType
    <3>3. CASE j # i
      BY <2>3, <3>3, InvParts DEF TablesType
    <3> QED BY <3>2, <3>3
  <2>5. CursorsInsideFiles' /\ RootNotOpen'
    BY <1>2, <2>4, InvParts, OpenInodes DEF FilesInv, CursorsInsideFiles, RootNotOpen
  <2>6. SizesBounded' /\ InodeKinds' /\ NoBlockLeaks'
    BY <1>2, <2>4, InvParts DEF FilesInv, SizesBounded, InodeKinds, NoBlockLeaks, IsLink
  <2>7. DirInv'
    BY <1>2, <2>1, <2>2, InvParts, NameAdded, NotThere DEF CanLink, CanAddEntry
  <2> QED BY <1>2, <2>5, <2>6, <2>7, Runs DEF FilesInv, tfs_link, Idle
<1> QED BY <1>1, <1>2 DEF tfs_link

LEMMA ClientSymLink ==
    ASSUME ClientInv, IInv', NEW target \in Names, NEW name \in Names,
           CanLink(target, name), tfs_sym_link(target, name)
    PROVE  ClientInv'
<1>1. CASE Fails
  BY <1>1, ClientFails DEF tfs_sym_link
<1>2. CASE ~Fails
  <2>1. PICK i \in Inodes \ {ROOT_DIR_INUM} :
           /\ freeinode_ts[i] = "FREE"
           /\ inode_table' = SymLinkInode(i, target)
           /\ \/ /\ CanAddEntry(name)
                 /\ freeinode_ts' = [freeinode_ts EXCEPT ![i] = "TAKEN"]
                 /\ add_dir_entry(name, i)
              \/ UNCHANGED <<freeinode_ts, dir>>
    BY <1>2, FreshInode DEF tfs_sym_link
  <2>2. PICK rec : /\ inode_table' = [inode_table EXCEPT ![i] = rec]
                   /\ rec.i_size = 0 /\ rec.i_node_type = "T_SOFT_LINK"
                   /\ rec.i_target = target
    BY <2>1, InvParts, InodeCreated DEF CanLink
  <2>3. /\ freeinode_ts' \in {freeinode_ts, [freeinode_ts EXCEPT ![i] = "TAKEN"]}
        /\ UNCHANGED <<status, free_blocks, open_file_table>>
    BY <1>2, <2>1 DEF tfs_sym_link
  <2>4. SizesBounded' /\ InodeKinds' /\ NoBlockLeaks'
    BY <2>1, <2>2, <2>3, InvParts, InodeBegun
  <2>5. \A j \in Inodes \ {i} : inode_table'[j] = inode_table[j]
                                /\ freeinode_ts'[j] = freeinode_ts[j]
    BY <2>1, <2>2, InvParts DEF TablesType
  <2>6. CursorsInsideFiles' /\ RootNotOpen'
    BY <2>1, <2>3, <2>5, InvParts, OpenInodes
       DEF FilesInv, CursorsInsideFiles, RootNotOpen
  <2>7. DirInv'
    BY <2>1, InvParts, NameAdded, NotThere, DirKept DEF CanLink, CanAddEntry
  <2> QED BY <2>3, <2>4, <2>6, <2>7, Runs DEF FilesInv, tfs_sym_link, Idle
<1> QED BY <1>1, <1>2

\* What tfs_unlink does to a name that is there: its caller keeps it from
\* links and from the last name of an open file.
OldUnlink(n, s, i) ==
    /\ Found(n, s) /\ i = dir[s].d_inumber
    /\ ~IsLink(i)
    /\ Deleted(i) => ~IsOpen(i)
    /\ dir' = [dir EXCEPT ![s] = [d_name |-> NoName, d_inumber |-> -1]]
    /\ inode_table' = [inode_table EXCEPT ![i].hard_links_count = @ - 1]
    /\ IF Deleted(i) THEN inode_delete(i)
       ELSE UNCHANGED <<free_blocks, freeinode_ts>>
    /\ ret' = 0 /\ buf' = NoData
    /\ UNCHANGED <<status, fs_data, open_file_table, copying>>

LEMMA UnlinkFound ==
    ASSUME ClientInv, NEW n \in Names, CanUnlink(n), tfs_unlink(n), ~Fails
    PROVE  \E s \in Slots, i \in Inodes \ {ROOT_DIR_INUM} : OldUnlink(n, s, i)
<1>1. PICK s, c \in Slots :
         /\ Found(n, s)
         /\ ClearedSlot(n, c)
         /\ \/ DeletedTwice(dir[s].d_inumber)
            \/ /\ dir' = [dir EXCEPT ![c] = [d_name |-> NoName, d_inumber |-> -1]]
               /\ inode_table' = [inode_table EXCEPT
                      ![dir[s].d_inumber].hard_links_count = @ - 1]
               /\ IF Deleted(dir[s].d_inumber) THEN inode_delete(dir[s].d_inumber)
                  ELSE UNCHANGED <<free_blocks, freeinode_ts>>
               /\ Returns(0)
               /\ UNCHANGED <<status, fs_data, open_file_table, copying>>
  BY DEF tfs_unlink
<1>2. PICK i : i = dir[s].d_inumber
  OBVIOUS
<1>3. i \in Inodes \ {ROOT_DIR_INUM} /\ i \in Inode(n)
  BY <1>1, <1>2, FoundKind
<1>4. ~IsLink(i) /\ (inode_table[i].hard_links_count = 1 => ~IsOpen(i))
  BY <1>3 DEF CanUnlink
<1>5. c = s
  BY <1>1, ClearedIsFound DEF ClientInv, IInv, TablesInv, NamesInv
<1>6. ~DeletedTwice(i) /\ (Deleted(i) => ~IsOpen(i))
  BY <1>4 DEF DeletedTwice, Deleted, IsLink
<1>7. OldUnlink(n, s, i)
  BY <1>1, <1>2, <1>4, <1>5, <1>6 DEF OldUnlink, Returns
<1> QED BY <1>3, <1>7

LEMMA ClientUnlink ==
    ASSUME ClientInv, IInv', NEW n \in Names, CanUnlink(n), tfs_unlink(n)
    PROVE  ClientInv'
<1>1. CASE Fails
  BY <1>1, ClientFails DEF tfs_unlink
<1>2. CASE ~Fails
  <2>1. PICK s \in Slots, i \in Inodes \ {ROOT_DIR_INUM} : OldUnlink(n, s, i)
    BY <1>2, UnlinkFound
  <2>2. freeinode_ts[i] = "TAKEN"
    BY <2>1, FoundKind DEF OldUnlink
  <2>3. FilesInv'
    BY <2>1, <2>2, InvParts, LinkGone DEF OldUnlink
  <2>4. DirInv'
    BY <2>1, InvParts, NameRemoved DEF OldUnlink
  <2> QED BY <2>1, <2>3, <2>4, Runs DEF OldUnlink, tfs_unlink, Idle
<1> QED BY <1>1, <1>2

\* What tfs_write stores on an open handle.
Stores(fh, count, b, buffer, r) ==
    /\ count > 0
    /\ r = count
    /\ WriteBlock(open_file_table[fh].of_inumber, b)
    /\ WriteData(fh, b, count, buffer)
    /\ UNCHANGED <<status, freeinode_ts, dir>>

LEMMA WriteEnds ==
    ASSUME ClientInv, NEW fh \in Handles, open_file_table[fh] # NoFile,
           NEW to_write \in Nat, NEW buffer, NEW r,
           Write(fh, to_write, buffer, r),
           NEW count, count = WriteCount(fh, to_write)
    PROVE  /\ count \in 0 .. to_write
           /\ \/ count = 0 /\ r = 0 /\ UNCHANGED <<status, tables, fs_data>>
              \/ WriteFails(fh, count) /\ r = -1 /\ UNCHANGED <<status, tables, fs_data>>
              \/ \E b \in Blocks : Stores(fh, count, b, buffer, r)
<1>1. count \in 0 .. to_write /\ open_file_table[fh].of_offset + count <= BLOCK_SIZE
  BY InvParts, WriteFits
<1>2. ~ (open_file_table[fh].of_offset + count > BLOCK_SIZE)
  BY <1>1, InvParts, OpenInodes, SizesAssumption
<1> QED BY <1>1, <1>2 DEF Write, Stores

LEMMA WriteKeeps ==
    ASSUME ClientInv, status = "running",
           NEW fh \in Handles, open_file_table[fh] # NoFile,
           NEW to_write \in Nat, NEW buffer, NEW r,
           Write(fh, to_write, buffer, r)
    PROVE  FilesInv' /\ DirInv' /\ status' = "running"
<1>1. PICK count : count = WriteCount(fh, to_write)
  OBVIOUS
<1>2. count \in 0 .. to_write /\ open_file_table[fh].of_offset + count <= BLOCK_SIZE
  BY <1>1, InvParts, WriteFits
<1>3. CASE UNCHANGED <<status, tables>>
  BY <1>3, InvParts, FilesKept, DirKept DEF tables
<1>4. ASSUME NEW b \in Blocks, Stores(fh, count, b, buffer, r)
      PROVE  FilesInv' /\ DirInv' /\ status' = "running"
  <2>1. count \in Nat \ {0}
    BY <1>2, <1>4 DEF Stores
  <2>2. FilesInv'
    BY <1>2, <1>4, <2>1, InvParts, FilesWritten DEF Stores
  <2> QED BY <1>4, <2>2, InvParts, DirKept DEF Stores
<1> QED BY <1>1, <1>3, <1>4, WriteEnds

LEMMA ClientWrite ==
    ASSUME ClientInv, IInv', NEW fh \in Handles, NEW to_write \in 0 .. MAX_LEN,
           NEW buffer \in Buffers(to_write), tfs_write(fh, to_write, buffer)
    PROVE  ClientInv'
<1>1. CASE Fails
  BY <1>1, ClientFails DEF tfs_write
<1>2. CASE ~Fails
  <2>1. to_write \in Nat
    BY SizesAssumption
  <2>2. PICK r : open_file_table[fh] # NoFile /\ Write(fh, to_write, buffer, r)
    BY <1>2 DEF tfs_write
  <2> QED BY <2>1, <2>2, WriteKeeps, Runs DEF tfs_write, Idle
<1> QED BY <1>1, <1>2

\* What tfs_read does on an open handle: it never stops.
Reads(fh, i, offset, count) ==
    /\ Moves(fh, count)
    /\ ret' = count
    /\ buf' = [k \in 0 .. count - 1 |->
                  fs_data[inode_table[i].i_data_block * BLOCK_SIZE + offset + k]]
    /\ UNCHANGED <<status, freeinode_ts, inode_table, free_blocks, fs_data, dir,
                   copying>>

LEMMA ReadEnds ==
    ASSUME ClientInv, NEW fh \in Handles, open_file_table[fh] # NoFile,
           NEW len \in Nat, tfs_read(fh, len),
           NEW i, i = open_file_table[fh].of_inumber,
           NEW offset, offset = open_file_table[fh].of_offset,
           NEW count, count = ReadCount(fh, len)
    PROVE  Reads(fh, i, offset, count)
<1>1. PICK b, first : /\ b = inode_table[i].i_data_block
                      /\ first = b * BLOCK_SIZE + offset
  OBVIOUS
<1>2. count \in 0 .. len /\ offset + count <= inode_table[i].i_size
  BY InvParts, ReadFits
<1>3. /\ i \in Inodes /\ freeinode_ts[i] = "TAKEN" /\ offset \in Nat
      /\ inode_table[i].i_size \in Nat /\ inode_table[i].i_size <= BLOCK_SIZE
  BY InvParts, Cursor
<1>4. count > 0 => b \in Blocks /\ first + count - 1 \in Addr
  <2> SUFFICES ASSUME count > 0 PROVE b \in Blocks /\ first + count - 1 \in Addr
    OBVIOUS
  <2>1. inode_table[i].i_size > 0
    BY <1>2, <1>3
  <2>2. b \in Blocks
    BY <1>1, <1>3, <2>1, InvParts DEF TablesInv, BlocksOwned
  <2>3. offset + count - 1 \in 0 .. BLOCK_SIZE - 1
    BY <1>2, <1>3, SizesAssumption
  <2>4. b * BLOCK_SIZE \in Nat /\ b * BLOCK_SIZE + (offset + count - 1) \in Addr
    BY <2>2, <2>3, BlockAddresses
  <2>5. PICK base \in Nat : base = b * BLOCK_SIZE
    BY <2>4
  <2>6. first + count - 1 = b * BLOCK_SIZE + (offset + count - 1)
    BY <1>1, <1>2, <1>3, <2>5
  <2> QED BY <2>2, <2>4, <2>6
<1>5. /\ open_file_table' = [open_file_table EXCEPT ![fh].of_offset = @ + count]
      /\ ret' = count
      /\ buf' = [k \in 0 .. count - 1 |-> fs_data[first + k]]
      /\ UNCHANGED <<status, freeinode_ts, inode_table, free_blocks, fs_data,
                     dir, copying>>
  BY <1>1, <1>4 DEF tfs_read
<1> QED BY <1>1, <1>5 DEF Reads, Moves

LEMMA ClientRead ==
    ASSUME ClientInv, IInv', NEW fh \in Handles, NEW len \in 0 .. MAX_LEN,
           tfs_read(fh, len)
    PROVE  ClientInv'
<1>1. CASE Fails
  BY <1>1, ClientFails DEF tfs_read
<1>2. CASE ~Fails
  <2>1. len \in Nat /\ open_file_table[fh] # NoFile
    BY <1>2, SizesAssumption DEF tfs_read
  <2>2. PICK i, offset, count : /\ i = open_file_table[fh].of_inumber
                                /\ offset = open_file_table[fh].of_offset
                                /\ count = ReadCount(fh, len)
    OBVIOUS
  <2>3. Reads(fh, i, offset, count)
    BY <2>1, <2>2, ReadEnds
  <2>4. count \in Nat /\ offset + count <= inode_table[i].i_size
    BY <2>1, <2>2, InvParts, ReadFits
  <2>5. FilesInv'
    BY <2>1, <2>2, <2>3, <2>4, InvParts, CursorMoved DEF Reads
  <2>6. DirInv'
    BY <2>3, InvParts, DirKept DEF Reads
  <2> QED BY <2>3, <2>5, <2>6, Runs DEF Reads, tfs_read, Idle
<1> QED BY <1>1, <1>2

LEMMA ClientCopyOpen ==
    ASSUME ClientInv, IInv', NEW n \in Names, NEW length \in -1 .. MAX_SOURCE,
           CanOpen(n, CopyMode), CopyOpen(n, length)
    PROVE  ClientInv'
<1>1. CASE Fails
  BY <1>1, ClientFails DEF CopyOpen
<1>2. CASE ~Fails
  BY <1>2, OpenKeeps, Runs DEF CopyOpen, Idle
<1> QED BY <1>1, <1>2

LEMMA ClientCopyChunk ==
    ASSUME ClientInv, IInv', NEW chunk \in 1 .. MAX_SOURCE,
           NEW buffer \in Buffers(chunk), CopyChunk(chunk, buffer)
    PROVE  ClientInv'
<1>1. CASE CopyStores(chunk, buffer)
  <2>1. PICK r : Write(copying.fhandle, chunk, buffer, r)
    BY <1>1 DEF CopyStores
  <2>2. chunk \in Nat
    BY SizesAssumption
  <2> QED BY <2>1, <2>2, InvParts, WriteKeeps, Runs DEF CopyChunk
<1>2. CASE CopyGivesUp(chunk)
  BY <1>2, InvParts, FilesKept, DirKept, Runs
     DEF CopyChunk, CopyGivesUp, remove_from_open_file_table, TablesType
<1> QED BY <1>1, <1>2 DEF CopyChunk

LEMMA ClientCopyReturns ==
    ASSUME ClientInv, IInv', CopyReturns
    PROVE  ClientInv'
  BY InvParts, FilesKept, DirKept, Runs
     DEF CopyReturns, remove_from_open_file_table, TablesType

\* Empty tables, and those of a library just initialised.
LEMMA EmptyFiles == NoTables => FilesInv /\ DirInv
  BY DEF NoTables, FilesInv, CursorsInsideFiles, RootNotOpen, SizesBounded,
         InodeKinds, NoBlockLeaks, DirInv, NamesDistinct, NamesWellFormed, NoFile,
         ROOT_DIR_INUM

LEMMA ClientInit == ASSUME IInv', tfs_init PROVE ClientInv'
<1>1. 0 \in Inodes /\ BLOCK_SIZE > 0
  BY SizesAssumption DEF Inodes
<1>2. /\ freeinode_ts'[0] = "TAKEN"
      /\ inode_table'[0].i_size = BLOCK_SIZE
      /\ inode_table'[0].i_data_block = 0
      /\ \A i \in Inodes \ {0} : freeinode_ts'[i] = "FREE"
      /\ \A b \in Blocks \ {0} : free_blocks'[b] = "FREE"
      /\ \A h \in Handles : open_file_table'[h] = NoFile
      /\ \A s \in Slots : dir'[s].d_inumber = -1
  BY <1>1 DEF tfs_init, ROOT_DIR_INUM
<1>3. CursorsInsideFiles' /\ RootNotOpen'
  BY <1>2 DEF CursorsInsideFiles, RootNotOpen, NoFile, ROOT_DIR_INUM
<1>4. SizesBounded' /\ InodeKinds' /\ NoBlockLeaks'
  BY <1>1, <1>2, SizesAssumption DEF SizesBounded, InodeKinds, NoBlockLeaks, ROOT_DIR_INUM
<1>5. DirInv'
  BY <1>2 DEF DirInv, NamesDistinct, NamesWellFormed
<1> QED BY <1>3, <1>4, <1>5, Runs DEF FilesInv, tfs_init

LEMMA ClientDestroy == ASSUME IInv', tfs_destroy PROVE ClientInv'
<1>1. NoTables'
  BY DEF tfs_destroy, NoTables
<1>2. FilesInv' /\ DirInv'
  BY <1>1, EmptyFiles, PTL
<1> QED BY <1>1, <1>2 DEF ClientInv, NeverStops, tfs_destroy

\* Every step of a careful caller keeps the invariant.
LEMMA ClientNextProof == ASSUME ClientInv, [ClientNext]_vars PROVE ClientInv'
<1>1. IInv'
  <2>1. [Next]_vars
    BY DEF ClientNext, Next
  <2> QED BY <2>1, NextProof DEF ClientInv
<1>2. CASE UNCHANGED vars
  <2>1. FilesInv' /\ DirInv'
    BY <1>2, InvParts, FilesKept, DirKept DEF vars
  <2>2. UNCHANGED <<status, tables>>
    BY <1>2 DEF vars, tables
  <2>3. NoTables => NoTables'
    BY <2>2 DEF NoTables, tables
  <2> QED BY <1>1, <2>1, <2>2, <2>3 DEF ClientInv, NeverStops
<1>3. CASE tfs_init_again
  BY <1>1, <1>3, ClientFails DEF tfs_init_again
<1>4. CASE tfs_init \/ tfs_destroy \/ CopyEnd \/ CopyReadFails
  BY <1>1, <1>4, ClientInit, ClientDestroy, ClientCopyReturns DEF CopyEnd, CopyReadFails
<1>5. CASE \E n \in Names, mode \in Modes : CanOpen(n, mode) /\ tfs_open(n, mode)
  BY <1>1, <1>5, ClientOpen
<1>6. CASE \E fh \in Handles : tfs_close(fh)
  BY <1>1, <1>6, ClientClose
<1>7. CASE \E target, name \in Names : CanLink(target, name) /\ tfs_link(target, name)
  BY <1>1, <1>7, ClientLink
<1>8. CASE \E target, name \in Names :
              CanLink(target, name) /\ tfs_sym_link(target, name)
  BY <1>1, <1>8, ClientSymLink
<1>9. CASE \E n \in Names : CanUnlink(n) /\ tfs_unlink(n)
  BY <1>1, <1>9, ClientUnlink
<1>10. CASE \E fh \in Handles, to_write \in 0 .. MAX_LEN :
               \E buffer \in Buffers(to_write) : tfs_write(fh, to_write, buffer)
  BY <1>1, <1>10, ClientWrite
<1>11. CASE \E fh \in Handles, len \in 0 .. MAX_LEN : tfs_read(fh, len)
  BY <1>1, <1>11, ClientRead
<1>12. CASE \E n \in Names, length \in -1 .. MAX_SOURCE :
               CanOpen(n, CopyMode) /\ CopyOpen(n, length)
  BY <1>1, <1>12, ClientCopyOpen
<1>13. CASE \E chunk \in 1 .. MAX_SOURCE : \E buffer \in Buffers(chunk) :
               CopyChunk(chunk, buffer)
  BY <1>1, <1>13, ClientCopyChunk
<1> QED BY <1>2, <1>3, <1>4, <1>5, <1>6, <1>7, <1>8, <1>9, <1>10, <1>11, <1>12,
           <1>13 DEF ClientNext

(***************************************************************************)
(* Theorems                                                                *)
(***************************************************************************)
\* Init, and every call of a careful caller, keeps the invariant.
THEOREM ClientConsistent == ClientSpec => []ClientInv
<1>1. Init => ClientInv
  <2> SUFFICES ASSUME Init PROVE ClientInv
    OBVIOUS
  <2>1. NoTables
    BY DEF Init, NoTables
  <2> QED BY <2>1, InitProof, EmptyFiles DEF Init, ClientInv, NeverStops
<1>2. ClientInv /\ [ClientNext]_vars => ClientInv'
  BY ClientNextProof
<1> QED BY <1>1, <1>2, PTL DEF ClientSpec

\* No assertion of the library fails and no access leaves its tables.
THEOREM NeverStopsCorrect == ClientSpec => []NeverStops
<1>1. ClientInv => NeverStops
  BY DEF ClientInv
<1> QED BY <1>1, ClientConsistent, PTL

\* Every open handle is on an allocated regular file, its offset inside it.
THEOREM CursorsInsideFilesCorrect == ClientSpec => []CursorsInsideFiles
<1>1. ClientInv => CursorsInsideFiles
  BY DEF ClientInv, FilesInv
<1> QED BY <1>1, ClientConsistent, PTL

\* Every allocated block holds the bytes of an allocated inode.
THEOREM NoBlockLeaksCorrect == ClientSpec => []NoBlockLeaks
<1>1. ClientInv => NoBlockLeaks
  BY DEF ClientInv, FilesInv
<1> QED BY <1>1, ClientConsistent, PTL
=============================================================================
