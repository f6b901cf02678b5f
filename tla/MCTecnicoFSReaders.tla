------------------------- MODULE MCTecnicoFSReaders -------------------------
(***************************************************************************)
(* A writer and two readers; the readers are alike.                        *)
(***************************************************************************)
EXTENDS TecnicoFSReaders, TLC

CONSTANTS r1, r2

TwoReaders == {r1, r2}
ReadersAlike == Permutations(TwoReaders)
=============================================================================
