-------------------------- MODULE MCMessageBroker --------------------------
(***************************************************************************)
(* Two workers and three clients, which are alike until they are given a   *)
(* role.                                                                   *)
(***************************************************************************)
EXTENDS MessageBroker, TLC

CONSTANTS w1, w2, c1, c2, c3

\* Safety only.
WorkersAndClients == Permutations({w1, w2}) \cup Permutations({c1, c2, c3})
=============================================================================
