------------------------------- MODULE MCHeap -------------------------------
(***************************************************************************)
(* Instantiates Heap for TLC: request sizes, calloc arguments and policy  *)
(* arguments a client can pass, and the bounds of the model.              *)
(***************************************************************************)
EXTENDS Heap

(* 8 and 50 bytes: a 56-byte block (align(50)) leaves 48 bytes after an  *)
(* 8-byte request, enough for split_block to carve an 8-byte block.      *)
MCRequests == {8, 50}

MCCallocArgs == {<<1, 8>>}

(* 0, 1, 2 and one value malloc_control rejects.                        *)
MCMethodArgs == {0, 1, 2, 3}

MCCallocNone == {}

(* The client of the refinement run: malloc, free, mem_trim and          *)
(* malloc_control only, the calls the simulator of sim_alloc.c makes.    *)
MCReallocNone == {}

(* 128 then 8: shrinking a 128-byte block to 8 leaves an 80-byte free    *)
(* block made by split_block, whose ptr field was never written, large  *)
(* enough for a later realloc to 50 to move into.                        *)
MCRequestsWide == {8, 128}

(* All three request sizes, for the refinement run.                     *)
MCRequestsAll == {8, 50, 128}
=============================================================================
