----------------------------- MODULE MCPoolTests -----------------------------
(* The unit tests with the sizes of a 64-bit build without EG_MEM_DEBUG: the  *)
(* tables of memory_pool.c, a header of 16 bytes, and the buffer of the tests. *)
EXTENDS PoolTests

SizeClasses == <<32, 64, 128, 256, 512, 1024, 2048, 4096>>
BlockCounts == <<512, 256, 128, 64, 32, 16, 8, 4>>

TestBuffer == 64 * 1024

\* The arrays asked for, and no buffer but the test's own.
ArraySizes == {100}
NoBuffers  == {}
=============================================================================
