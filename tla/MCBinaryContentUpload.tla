------------------------ MODULE MCBinaryContentUpload ------------------------
(* BinaryContentUpload for TLC.                                                *)
EXTENDS BinaryContentUpload, TLC

Symmetry == Permutations(File) \cup Permutations(Thread)
=============================================================================
