---------------------------- MODULE MCFitPolicy ----------------------------
(***************************************************************************)
(* Checks find_block() against the reference policies of spec.md 4.3 over *)
(* every block list of at most MaxBlocks blocks with sizes from Sizes and *)
(* every aligned request from Sizes.  The list is built one block at a    *)
(* time so that every prefix is a state of its own.                       *)
(***************************************************************************)
EXTENDS FitPolicy

CONSTANTS
  Sizes,      \* aligned block sizes and requests, in bytes
  MaxBlocks   \* longest block list enumerated

VARIABLES blocks, req
vars == <<blocks, req>>

Init ==
  /\ blocks = <<>>
  /\ req \in Sizes

AddBlock ==
  /\ Len(blocks) < MaxBlocks
  /\ \E sz \in Sizes, f \in {0, 1} :
       blocks' = Append(blocks, [size |-> sz, free |-> f])
  /\ UNCHANGED req

ChangeRequest ==
  /\ req' \in Sizes \ {req}
  /\ UNCHANGED blocks

Next == AddBlock \/ ChangeRequest

Spec == Init /\ [][Next]_vars

(* First fit (find_block case 0) returns the earliest free block that is  *)
(* large enough, and NULL exactly when there is none.                     *)
FirstFitAgrees ==
  FindBlock(blocks, req, FIRST_FIT).b = FirstFitRef(blocks, req)

(* Best fit (find_block case 1) returns the first exact fit, or else the  *)
(* earliest free block with the smallest leftover, and NULL only when no  *)
(* free block is large enough (spec.md 4.3).                              *)
BestFitAgrees ==
  FindBlock(blocks, req, BEST_FIT).b = BestFitRef(blocks, req)

(* Worst fit (find_block case 2) returns the first exact fit, or else the *)
(* earliest free block with the largest leftover.                         *)
WorstFitAgrees ==
  FindBlock(blocks, req, WORST_FIT).b = WorstFitRef(blocks, req)
=============================================================================
