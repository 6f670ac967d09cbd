----------------------------- MODULE MCStartup ------------------------------
(* Instance of Startup for TLC.                                              *)
EXTENDS Startup
=============================================================================
