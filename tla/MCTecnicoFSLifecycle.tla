------------------------ MODULE MCTecnicoFSLifecycle ------------------------
(***************************************************************************)
(* Tables of no entry and of one.  Memory for the six tables and for two   *)
(* that a tfs_init that failed has lost.                                   *)
(***************************************************************************)
EXTENDS TecnicoFSLifecycle

Few == 0 .. 1
Small == {1}
=============================================================================
