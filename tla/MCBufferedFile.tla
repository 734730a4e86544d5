---------------------------- MODULE MCBufferedFile ----------------------------
(* BufferedFile with interchangeable clients. *)
EXTENDS BufferedFile, TLC

ClientSymmetry == Permutations(Clients)
=============================================================================
