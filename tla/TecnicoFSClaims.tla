--------------------------- MODULE TecnicoFSClaims ---------------------------
(***************************************************************************)
(* What the header of Projeto1/fs says of the library and its code does    *)
(* not do, for a caller that is free to make any call in any order.        *)
(***************************************************************************)
EXTENDS TecnicoFS

\* operations.h:117-123, "Delete a link, or a file if the number of hard links
\* reaches 0 [...] Returns 0 if successful, -1 otherwise": tfs_unlink returns
\* whatever name it is given.
UnlinkReturns ==
    [][\A n \in Names : tfs_unlink(n) => status' = "running"]_vars
=============================================================================
