---------------------------- MODULE MCPublicRun ----------------------------
(* Model-checking instance of PublicRun: streams and the shared ID are     *)
(* model values given in the .cfg.                                         *)
EXTENDS PublicRun
=============================================================================
