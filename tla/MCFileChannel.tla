--------------------------- MODULE MCFileChannel ----------------------------
(* Small instances of FileChannel for TLC.                                 *)
EXTENDS FileChannel
=============================================================================
