---------------------------- MODULE MCFerretQueue ----------------------------
(* The instance of FerretQueue for TLC.  Threads and items could be         *)
(* permuted, but the run checks liveness too, which rules symmetry out.     *)
EXTENDS FerretQueue
=============================================================================
