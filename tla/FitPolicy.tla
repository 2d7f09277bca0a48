----------------------------- MODULE FitPolicy -----------------------------
(***************************************************************************)
(* The block-selection search of the allocator, find_block() in           *)
(* src/unnamed/part_000 (memory.c), as pure operators.                     *)
(*                                                                         *)
(* The search walks the block list from `base`.  Here the list is given as *)
(* the sequence of the blocks it visits, each block a record              *)
(* [size |-> b->size, free |-> b->free]; a result is an index into that   *)
(* sequence, 0 standing for NULL.  Next to the code's search this module  *)
(* states, as reference definitions, what spec.md section 4.3 says each   *)
(* policy returns.                                                         *)
(***************************************************************************)
EXTENDS Integers, Sequences
LOCAL INSTANCE FiniteSetsExt

FIRST_FIT == 0
BEST_FIT  == 1
WORST_FIT == 2
PAGESIZE  == 4096     \* memory.h; the initial `dif` of the best-fit walk

(* Mutation: first fit asks for a strictly larger block.                *)
RECURSIVE FirstFitFromStrict(_, _, _)
FirstFitFromStrict(bl, s, i) ==
  IF i > Len(bl) THEN 0
  ELSE IF bl[i].free # 0 /\ bl[i].size > s THEN i
  ELSE FirstFitFromStrict(bl, s, i + 1)

(* case 0: advance while the block is not (free and large enough).        *)
RECURSIVE FirstFitFrom(_, _, _)
FirstFitFrom(bl, s, i) ==
  IF i > Len(bl) THEN 0
  ELSE IF bl[i].free # 0 /\ bl[i].size >= s THEN i
  ELSE FirstFitFrom(bl, s, i + 1)

(* Mutation: worst fit also replaces `best` on an equal leftover.        *)
CloserOrEqual(meth, d, dif) == IF meth = BEST_FIT THEN d < dif ELSE d >= dif

(* The comparison that decides whether a candidate replaces `best`:       *)
(* best fit keeps the smallest leftover, worst fit the largest.           *)
Closer(meth, d, dif) == IF meth = BEST_FIT THEN d < dif ELSE d > dif

(* cases 1 and 2: an exact fit returns at once; otherwise a free block    *)
(* strictly larger than s whose leftover is Closer than `dif` becomes     *)
(* `best`.  `dif` starts at PAGESIZE for best fit and at 0 for worst fit. *)
RECURSIVE FitFrom(_, _, _, _, _, _)
FitFrom(bl, s, meth, i, dif, best) ==
  IF i > Len(bl) THEN best
  ELSE IF bl[i].free # 0 /\ bl[i].size = s THEN i
  ELSE LET d    == bl[i].size - s
           take == bl[i].free # 0 /\ bl[i].size > s /\ Closer(meth, d, dif)
       IN  FitFrom(bl, s, meth, i + 1,
                   IF take THEN d ELSE dif, IF take THEN i ELSE best)

(* find_block(&last, s): the chosen block, and `last`, the block the walk *)
(* stopped on, which my_malloc() links a new block after on a miss.  The  *)
(* walk visits every block when it finds nothing, so `last` is then the   *)
(* final block; an unknown method returns NULL leaving last = base.       *)
FindBlock(bl, s, meth) ==
  CASE meth = FIRST_FIT -> [b |-> FirstFitFrom(bl, s, 1), last |-> Len(bl)]
    [] meth = BEST_FIT  -> [b |-> FitFrom(bl, s, meth, 1, PAGESIZE, 0),
                            last |-> Len(bl)]
    [] meth = WORST_FIT -> [b |-> FitFrom(bl, s, meth, 1, 0, 0),
                            last |-> Len(bl)]
    [] OTHER            -> [b |-> 0, last |-> 1]

(***************************************************************************)
(* Reference definitions, from spec.md section 4.3 "Fit policies": the    *)
(* candidates are the free blocks with size >= s; ties go to walk order;  *)
(* best and worst fit return an exact-size match as soon as they meet it. *)
(***************************************************************************)
Fits(bl, s)  == {i \in 1..Len(bl) : bl[i].free # 0 /\ bl[i].size >= s}
Exact(bl, s) == {i \in Fits(bl, s) : bl[i].size = s}
Earliest(S)  == IF S = {} THEN 0 ELSE Min(S)

FirstFitRef(bl, s) == Earliest(Fits(bl, s))

BestFitRef(bl, s) ==
  IF Exact(bl, s) # {} THEN Earliest(Exact(bl, s))
  ELSE Earliest({i \in Fits(bl, s) :
                   \A j \in Fits(bl, s) : bl[i].size <= bl[j].size})

WorstFitRef(bl, s) ==
  IF Exact(bl, s) # {} THEN Earliest(Exact(bl, s))
  ELSE Earliest({i \in Fits(bl, s) :
                   \A j \in Fits(bl, s) : bl[i].size >= bl[j].size})
=============================================================================
