--------------------------- MODULE TecnicoFSCalls ---------------------------
(***************************************************************************)
(* What a call of TecnicoFS that fails leaves behind.  An import takes     *)
(* several steps: the history variable before keeps the library as it was  *)
(* when the one in progress was called.                                    *)
(***************************************************************************)
EXTENDS TecnicoFS

VARIABLE before

callvars == <<vars, before>>

Library == [freeinode_ts |-> freeinode_ts, inode_table |-> inode_table,
            dir |-> dir, fs_data |-> fs_data, open_file_table |-> open_file_table]

CallsNext ==
    /\ Next
    /\ before' = IF copying' = NoCopy THEN NoCopy
                 ELSE IF copying = NoCopy THEN Library ELSE before

CallsSpec == Init /\ before = NoCopy /\ [][CallsNext]_callvars

\* File i has its inode, and the bytes of its block.
SameFile(start, now, i) ==
    LET inode == start.inode_table[i]
        first == inode.i_data_block * BLOCK_SIZE
    IN /\ now.inode_table[i] = inode
       /\ inode.i_size > 0 => \A k \in 0 .. BLOCK_SIZE - 1 :
                                 now.fs_data[first + k] = start.fs_data[first + k]

\* Between two states of the library nothing but file d was created, emptied or
\* written: the names that were there are, a new one is d's; no inode was freed,
\* one that was allocated is d; every other file and the root directory are the
\* same.
Spared(start, now, d) ==
    /\ \A s \in Slots :
          \/ now.dir[s] = start.dir[s]
          \/ start.dir[s].d_inumber = -1 /\ now.dir[s].d_inumber = d
    /\ \A i \in Inodes : now.freeinode_ts[i] # start.freeinode_ts[i] =>
                            i = d /\ now.freeinode_ts[i] = "TAKEN"
    /\ \A i \in Inodes \ {d} :
          /\ start.freeinode_ts[i] = "TAKEN"
          /\ start.inode_table[i].i_node_type # "T_SOFT_LINK"
          => SameFile(start, now, i)

\* Not even one file, but for the fields of an inode that is still free.
Unharmed ==
    /\ UNCHANGED <<freeinode_ts, free_blocks, dir, open_file_table, fs_data>>
    /\ \A i \in Inodes : freeinode_ts[i] = "TAKEN" => inode_table'[i] = inode_table[i]

(***************************************************************************)
(* Properties                                                              *)
(***************************************************************************)
\* A call that answers -1 leaves every name, allocation, open file and byte as
\* it was, an inode it had begun to create included.  Two calls cannot promise
\* that: one that opens with the open file table full (operations.c:173) and an
\* import that no block is left for (454-460) may have created, emptied or partly
\* written their own file, but they harm no other, and whatever was open, and
\* nothing else, is open when they return.
FailedCallHarmless ==
    [][Running /\ Running' /\ copying' = NoCopy /\ ret' = -1 =>
          CASE copying # NoCopy ->
                  /\ open_file_table' = before.open_file_table
                  /\ Spared(before, Library', open_file_table[copying.fhandle].of_inumber)
            [] copying = NoCopy /\ FreeHandles = {} ->
                  /\ UNCHANGED open_file_table
                  /\ \E d \in Inodes : Spared(Library, Library', d)
            [] OTHER -> Unharmed]_callvars
=============================================================================
