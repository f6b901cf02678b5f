-------------------------- MODULE MCTecnicoFSClient --------------------------
(***************************************************************************)
(* Values for TLC of the constants of TecnicoFSClient that a configuration *)
(* file cannot write.                                                      *)
(***************************************************************************)
EXTENDS TecnicoFSClient, TLC

\* No name is long enough to lose a character in i_target.
CutNothing == [n \in Names |-> n]

\* What the next calls can depend on.  No call reads ret or buf; as
\* CursorsInsideFiles holds (ClientSafe.cfg checks it and
\* CursorsInsideFilesCorrect proves it) nothing reads a FREE inode or the bytes
\* that no file covers before they are set.
LiveView ==
    << status, freeinode_ts, free_blocks, dir, open_file_table, copying,
       [i \in Inodes |-> IF freeinode_ts[i] = "TAKEN"
                           THEN inode_table[i] ELSE RawInode],
       [i \in Inodes \ {ROOT_DIR_INUM} |-> BytesOf(i)] >>

\* Names are interchangeable, and so are bytes, where StaleNames, TooLong and
\* Malformed are empty.  Used for safety only: symmetry is not sound for
\* CopyTerminates.
SwapNamesAndBytes == Permutations(Names) \cup Permutations(Bytes)
=============================================================================
