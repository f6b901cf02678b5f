--------------------------- MODULE TecnicoFSClient ---------------------------
(***************************************************************************)
(* TecnicoFS with a caller that stays inside what the library can take:    *)
(*  - it deletes no soft link, and gives up no last name, truncates no     *)
(*    contents, of a file some handle is open on;                          *)
(*  - it links to names that are not in use, and lets no soft link lead to *)
(*    another soft link;                                                   *)
(*  - it neither truncates nor appends through a soft link.                *)
(* For such a caller the library keeps the promise of AbstractFS, as far   *)
(* as external files can be read: an import whose read fails answers 0     *)
(* (operations.c:452), which AbstractFS does not allow.  Without the first *)
(* kind of care a call aborts (UnlinkReturns of TecnicoFSClaims), a file   *)
(* changes under its handle or a cursor is left past the end; without the  *)
(* others a name leads to two files or nowhere.                            *)
(***************************************************************************)
EXTENDS TecnicoFS, Sequences

CONSTANT None   \* no file, no name, no handle

ASSUME NoneAssumption ==
    /\ None \notin Names \cup {NoName}
    /\ None \notin Inodes \cup Handles
    /\ None \notin [file : Inodes, pos : Nat]
    /\ None \notin [handle : Handles, left : Nat]

IsLink(i) == inode_table[i].i_node_type = "T_SOFT_LINK"
IsOpen(i) == \E fh \in Handles : open_file_table[fh].of_inumber = i
Inode(n) == {dir[s].d_inumber : s \in {t \in Slots : Found(n, t)}}

CanOpen(n, mode) ==
    \A i \in Inode(n) :
        IF IsLink(i)
          THEN /\ mode \cap {"TFS_O_TRUNC", "TFS_O_APPEND"} = {}
               /\ \A j \in Inode(inode_table[i].i_target) : ~IsLink(j)
          ELSE "TFS_O_TRUNC" \in mode => ~IsOpen(i)

CanUnlink(n) ==
    \A i \in Inode(n) : /\ ~IsLink(i)
                        /\ inode_table[i].hard_links_count = 1 => ~IsOpen(i)

CanLink(target, name) == Inode(name) = {} /\ Cut[target] = target

\* The actions of TecnicoFS under these conditions.
ClientNext ==
    \/ tfs_init
    \/ tfs_init_again
    \/ tfs_destroy
    \/ \E n \in Names, mode \in Modes : CanOpen(n, mode) /\ tfs_open(n, mode)
    \/ \E fh \in Handles : tfs_close(fh)
    \/ \E target, name \in Names :
          CanLink(target, name) /\ tfs_link(target, name)
    \/ \E target, name \in Names :
          CanLink(target, name) /\ tfs_sym_link(target, name)
    \/ \E n \in Names : CanUnlink(n) /\ tfs_unlink(n)
    \/ \E fh \in Handles, to_write \in 0 .. MAX_LEN :
          \E buffer \in Buffers(to_write) : tfs_write(fh, to_write, buffer)
    \/ \E fh \in Handles, len \in 0 .. MAX_LEN : tfs_read(fh, len)
    \/ \E n \in Names, length \in -1 .. MAX_SOURCE :
          CanOpen(n, CopyMode) /\ CopyOpen(n, length)
    \/ \E chunk \in 1 .. MAX_SOURCE : \E buffer \in Buffers(chunk) :
          CopyChunk(chunk, buffer)
    \/ CopyEnd
    \/ CopyReadFails

\* The loop of tfs_copy_from_external_fs is left once read answers 0 or -1;
\* nothing else runs on the caller's thread meanwhile.
CopyStep ==
    \/ \E chunk \in 1 .. MAX_SOURCE : \E buffer \in Buffers(chunk) :
          CopyChunk(chunk, buffer)
    \/ CopyEnd
    \/ CopyReadFails

ClientSpec == Init /\ [][ClientNext]_vars /\ WF_vars(CopyStep)

\* External files that can be read to their end.
ReadableSpec == Init /\ [][ClientNext /\ ~CopyReadFails]_vars

(***************************************************************************)
(* Properties                                                              *)
(***************************************************************************)
\* No assertion of the library fails and no access leaves its tables.
NeverStops == status \in {"uninit", "running"}

\* Every open handle is on an allocated regular file, with its offset inside
\* the file: the subtraction of tfs_read never wraps, and what tfs_write
\* appends leaves no gap.
CursorsInsideFiles ==
    \A fh \in Handles : open_file_table[fh] # NoFile =>
        LET i == open_file_table[fh].of_inumber
        IN /\ freeinode_ts[i] = "TAKEN"
           /\ inode_table[i].i_node_type = "T_FILE"
           /\ open_file_table[fh].of_offset <= inode_table[i].i_size
           /\ inode_table[i].i_size <= BLOCK_SIZE

\* Every allocated block is the root's or holds the bytes of an allocated
\* inode: truncating, unlinking and failing calls lose none.
NoBlockLeaks ==
    \A b \in Blocks : free_blocks[b] = "TAKEN" =>
        \E i \in Inodes : /\ freeinode_ts[i] = "TAKEN"
                          /\ inode_table[i].i_size > 0
                          /\ inode_table[i].i_data_block = b

\* A copy that has begun ends, and leaves no handle of its own open.
CopyTerminates ==
    \A fh \in Handles : copying.fhandle = fh ~>
                            copying = NoCopy /\ open_file_table[fh] = NoFile

\* The promise of AbstractFS, kept while external files can be read: a name is
\* what its entry's inode says, a file is the bytes of its inode's block up to
\* i_size.
InodeOf(n) == CHOOSE i \in Inode(n) : TRUE
BytesOf(i) ==
    IF freeinode_ts[i] = "TAKEN" /\ ~IsLink(i)
      THEN [k \in 1 .. inode_table[i].i_size |->
               fs_data[inode_table[i].i_data_block * BLOCK_SIZE + k - 1]]
      ELSE <<>>

Files == Inodes \ {ROOT_DIR_INUM}
MaxTransfer == IF MAX_LEN > MAX_SOURCE THEN MAX_LEN ELSE MAX_SOURCE

fileOf == [n \in Names |-> IF Inode(n) = {} \/ IsLink(InodeOf(n))
                             THEN None ELSE InodeOf(n)]
linkTo == [n \in Names |-> IF Inode(n) # {} /\ IsLink(InodeOf(n))
                             THEN inode_table[InodeOf(n)].i_target ELSE None]
contents == [i \in Files |-> BytesOf(i)]
opened == [fh \in Handles |->
              IF open_file_table[fh] = NoFile THEN None
              ELSE [file |-> open_file_table[fh].of_inumber,
                    pos |-> open_file_table[fh].of_offset]]
importing == IF copying = NoCopy THEN None
             ELSE [handle |-> copying.fhandle, left |-> copying.left]
delivered == [k \in 1 .. Cardinality(DOMAIN buf) |-> buf[k - 1]]

Promise == INSTANCE AbstractFS WITH Capacity <- BLOCK_SIZE, result <- ret

KeepsPromise == Promise!Spec
=============================================================================
