-------------------------- MODULE MCTecnicoFSCalls --------------------------
(***************************************************************************)
(* Values for TLC of the constants of TecnicoFSCalls that a configuration  *)
(* file cannot write.                                                      *)
(***************************************************************************)
EXTENDS TecnicoFSCalls, TLC

\* No name is long enough to lose a character in i_target.
CutNothing == [n \in Names |-> n]

\* No call reads ret or buf.
CallsView == <<status, freeinode_ts, inode_table, free_blocks, fs_data, dir,
               open_file_table, copying, before>>

\* Names short enough to store are interchangeable, and so are bytes.
SwapNamesAndBytes == Permutations(Names \ TooLong) \cup Permutations(Bytes)
=============================================================================
