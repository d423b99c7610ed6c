---------------------------- MODULE MCRunStream ----------------------------
(* Model-checking instance of RunStream: streams and the shared ID are     *)
(* model values given in the .cfg files.                                   *)
EXTENDS RunStream

\* Streams are interchangeable, and so are the IDs generated for them.
MCSymmetry == Permutations(Streams)
=============================================================================
