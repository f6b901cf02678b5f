-------------------------- MODULE MCTecnicoFSLocked --------------------------
(***************************************************************************)
(* What the next steps of TecnicoFSLocked can depend on, for the VIEW of   *)
(* the runs: no step reads ret or buf, a FREE inode is initialised before  *)
(* it is read (no handle is open on one, by the callers' side), and so is  *)
(* a FREE block.                                                           *)
(***************************************************************************)
EXTENDS TecnicoFSLocked

Live(inodes, free) ==
    [i \in Inodes |-> IF free[i] = "FREE" THEN [i_size |-> 0, i_data_block |-> -1]
                      ELSE inodes[i]]

Now == << freeinode_ts, free_blocks, dir, open_file_table, g_library_mutex, pc, call,
          Live(inode_table, freeinode_ts),
          [b \in Blocks |-> IF free_blocks[b] = "FREE" THEN Junk ELSE fs_data[b]] >>

\* The history is read by KeepsPromise only.
LockedView ==
    << Now,
       IF before = None THEN None
       ELSE << before.freeinode_ts, before.dir, before.open_file_table,
               Live(before.inode_table, before.freeinode_ts),
               BytesIn(before) >> >>
=============================================================================
