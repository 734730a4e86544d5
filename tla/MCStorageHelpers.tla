--------------------------- MODULE MCStorageHelpers ---------------------------
(* StorageHelperCreator with a directory, simulated trees and filters for TLC. *)
EXTENDS StorageHelperCreator

MCDirectory == <<"a", ".", "b">>

\* No tree, one that gets narrower and one that gets wider with depth.
MCTrees == {<<>>, <<<<2, 2>>, <<2, 1>>>>, <<<<2, 1>>, <<3, 2>>>>}

MCFilters == {{}, {"read", "flush", "readdir", "getattr", "mknod"}}

=============================================================================
