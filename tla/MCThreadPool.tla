---------------------------- MODULE MCThreadPool ----------------------------
(* Instances of ThreadPool for TLC.  The sets are given in the .cfg files.   *)
EXTENDS ThreadPool
=============================================================================
