---------------------------- MODULE MCBufferPool ----------------------------
(* An instance of BufferPool for TLC. *)
EXTENDS BufferPool, TLC

ReaderSymmetry == Permutations(Reader)
DataSymmetry == Permutations(Page \ {HeaderPage})
=============================================================================
