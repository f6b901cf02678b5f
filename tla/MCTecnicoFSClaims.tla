-------------------------- MODULE MCTecnicoFSClaims --------------------------
(***************************************************************************)
(* Values for TLC of the constants of TecnicoFSClaims that a configuration *)
(* file cannot write.                                                      *)
(***************************************************************************)
EXTENDS TecnicoFSClaims

\* Names that fit in i_target.
CutNone == [n \in Names |-> n]
=============================================================================
