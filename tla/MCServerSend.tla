---------------------------- MODULE MCServerSend ----------------------------
(* Instance of ServerSend for TLC.                                           *)
EXTENDS ServerSend
=============================================================================
