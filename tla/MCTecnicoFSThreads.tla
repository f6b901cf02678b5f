------------------------- MODULE MCTecnicoFSThreads -------------------------
(***************************************************************************)
(* Two threads and two names.                                              *)
(***************************************************************************)
EXTENDS TecnicoFSThreads, TLC

CONSTANTS t1, t2, f1, f2

\* Both threads open both names.
CommonFiles == (t1 :> {f1, f2}) @@ (t2 :> {f1, f2})

\* Each thread has a file of its own, as in tests/thread-test1.c.
OwnFiles == (t1 :> {f1}) @@ (t2 :> {f2})
=============================================================================
