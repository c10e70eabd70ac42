---------------------------- MODULE MCThreadPool ----------------------------
(***************************************************************************)
(* Finite instances of ThreadPool.  There is no symmetry: the run checks   *)
(* liveness too.                                                           *)
(***************************************************************************)
EXTENDS ThreadPool
=============================================================================
