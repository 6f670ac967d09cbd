--------------------------- MODULE MCSocketServer ---------------------------
(* Instances of SocketServer for TLC.                                        *)
EXTENDS SocketServer, TLC

Symmetry == Permutations(Workers) \cup Permutations(Sockets)
=============================================================================
