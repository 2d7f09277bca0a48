-------------------------------- MODULE Heap --------------------------------
(***************************************************************************)
(* The allocator of src/unnamed/part_000 (lib/memory/src/memory.c), with   *)
(* the layout of struct s_block from src/lib/memory/include/memory.h.      *)
(*                                                                         *)
(* Memory.  An address is an integer; the region returned by the k-th     *)
(* successful mmap() starts at k * Span and is mapped for `regions[k]`    *)
(* bytes (the request rounded up to whole pages).  `mem` holds the       *)
(* non-zero 8-byte words the allocator has written, so a word outside its *)
(* domain reads 0, as fresh anonymous mappings do.  A block header at `b` *)
(* is five words: size, next, prev, free, ptr; its payload starts at     *)
(* b + BLOCK_SIZE.  Words stay in `mem` after the block they belonged to *)
(* is gone, so a header later carved at the same place reads them back:   *)
(* that is how split_block()'s unwritten fields get their values.  The    *)
(* client writes at most one word, TAG, at the start of each new        *)
(* allocation, and only when `Tagged` (the simulator of sim_alloc.c      *)
(* writes nothing).                                                      *)
(*                                                                         *)
(* Every C function is an operator from an allocator state `st` (a record *)
(* of the globals and the memory) to the state after it; the entry points *)
(* compose them as the code calls them.                                   *)
(***************************************************************************)
EXTENDS Integers, Sequences, FiniteSets, TLC
LOCAL INSTANCE Functions
LOCAL FSE == INSTANCE FiniteSetsExt
FP == INSTANCE FitPolicy

CONSTANTS
  Requests,    \* sizes the client passes to my_malloc
  ReallocArgs, \* sizes the client passes to my_realloc
  CallocArgs,  \* <<number, size>> pairs the client passes to my_calloc
  MethodArgs,  \* values the client passes to malloc_control
  MaxRegions,  \* mmap() fails once this many regions are mapped
  MaxLive,     \* the client holds at most this many allocations
  Tagged       \* the client stores TAG in each allocation it gets

ASSUME MaxRegions \in Nat /\ MaxLive \in Nat /\ Tagged \in BOOLEAN

BLOCK_SIZE == 40      \* memory.h: offset of `data` in struct s_block
PAGESIZE   == 4096
NULL       == 0
Span       == 65536   \* address distance between two regions

(* Offsets of the fields of struct s_block.                               *)
SIZE == 0
NEXT == 8
PREV == 16
FREE == 24
PTR  == 32

(***************************************************************************)
(* Words of memory.                                                        *)
(***************************************************************************)
Rd(m, a) == IF a \in DOMAIN m THEN m[a] ELSE 0

Wr(m, a, v) ==
  IF v = 0 THEN Restrict(m, DOMAIN m \ {a}) ELSE (a :> v) @@ m

BSize(m, b) == Rd(m, b + SIZE)
BNext(m, b) == Rd(m, b + NEXT)
BPrev(m, b) == Rd(m, b + PREV)
BFree(m, b) == Rd(m, b + FREE)
BPtr(m, b)  == Rd(m, b + PTR)

(* b->data and get_block(p) (memory.c 120-126).                          *)
Data(b)     == b + BLOCK_SIZE
get_block(p) == p - BLOCK_SIZE

(* memory.h align(x): (((x - 1) >> 3) << 3) + 8 on size_t; for x = 0 the *)
(* subtraction wraps and so does the addition, giving 0.                  *)
align(x) == IF x = 0 THEN 0 ELSE ((x - 1) \div 8) * 8 + 8

(* a - s >= k computed on size_t: when a < s the difference wraps to a   *)
(* value near 2^64, which is >= k.                                        *)
WrapGE(a, s, k) == IF a >= s THEN a - s >= k ELSE TRUE

RegionOf(a) == a \div Span

(* [a, a + len) lies inside one mapped region.                           *)
RangeMapped(regs, a, len) ==
  \/ len = 0
  \/ /\ RegionOf(a) \in 1..Len(regs)
     /\ RegionOf(a + len - 1) = RegionOf(a)
     /\ (a % Span) + len <= regs[RegionOf(a)]

(***************************************************************************)
(* The block list, walked from b along `next`.  The walk is cut after     *)
(* Fuel(m) blocks, more than an acyclic list can have, so that a cycle   *)
(* shows as a list whose last block still has a successor.               *)
(***************************************************************************)
Fuel(m) == Cardinality(DOMAIN m) + 2

RECURSIVE Walk(_, _, _)
Walk(m, b, fuel) ==
  IF b = NULL \/ fuel = 0 THEN <<>> ELSE <<b>> \o Walk(m, BNext(m, b), fuel - 1)

Ledger(m, b) == Walk(m, b, Fuel(m))

Blocks(m, b) == LET L == Ledger(m, b) IN {L[i] : i \in DOMAIN L}

(* The block of the list a FitPolicy search result names, and `last`.    *)
FoundIn(L, r) == [b |-> IF r.b = 0 THEN NULL ELSE L[r.b], last |-> L[r.last]]

(* The list L as the [size, free] records FitPolicy searches.            *)
Candidates(m, L) == [i \in DOMAIN L |-> [size |-> BSize(m, L[i]), free |-> BFree(m, L[i])]]

(* Mutation: the search sees every block as free (the free test of      *)
(* find_block dropped).                                                   *)
find_block_any(m, base, s, method) ==
  LET L == Ledger(m, base)
  IN  FoundIn(L, FP!FindBlock([i \in DOMAIN L |-> [size |-> BSize(m, L[i]), free |-> 1]],
                              s, method))

(***************************************************************************)
(* find_block() (memory.c 23-78): the search of FitPolicy over the list  *)
(* from base; `last` is the block a miss leaves the walk on.             *)
(***************************************************************************)
SearchLedger(m, L, s, method) == FoundIn(L, FP!FindBlock(Candidates(m, L), s, method))

find_block(m, base, s, method) == SearchLedger(m, Ledger(m, base), s, method)

(* Mutation: b->next = new is written before new->next = b->next.      *)
split_block_linked_first(m, b, s) ==
  IF BSize(m, b) <= s + BLOCK_SIZE THEN m
  ELSE LET new == Data(b) + s
       IN  Wr(Wr(Wr(Wr(Wr(m, b + SIZE, s), b + NEXT, new),
                     new + SIZE, BSize(m, b) - s - BLOCK_SIZE),
                 new + NEXT, new), new + FREE, 1)

(* split_block(b, s) (memory.c 83-96).  The new header is written at     *)
(* b->data + s; its prev and ptr are never written, so they keep what    *)
(* memory held there; the old successor's prev is not updated.           *)
split_block(m, b, s) ==
  IF BSize(m, b) <= s + BLOCK_SIZE THEN m
  ELSE LET new == Data(b) + s
       IN  Wr(Wr(Wr(Wr(Wr(m, new + SIZE, BSize(m, b) - s - BLOCK_SIZE),
                        new + NEXT, BNext(m, b)),
                     new + FREE, 1), b + SIZE, s), b + NEXT, new)

(* The test `b->size - s >= BLOCK_SIZE + 4` (size_t) before each call of *)
(* split_block in my_malloc and my_realloc.                              *)
SplitIfRoom(m, b, s) ==
  IF WrapGE(BSize(m, b), s, BLOCK_SIZE + 4) THEN split_block(m, b, s) ELSE m

(* fusion(b) (memory.c 156-174): absorb free successors, except one that *)
(* is the last block of the list (the loop breaks when b->next->next is  *)
(* NULL).  The absorbed header's 40 bytes are not added to b->size.      *)
RECURSIVE FusionLoop(_, _, _)
FusionLoop(m, b, fuel) ==
  LET n == BNext(m, b) IN
  IF n = NULL \/ BFree(m, n) = 0 \/ BNext(m, n) = NULL \/ fuel = 0 THEN m
  ELSE FusionLoop(Wr(Wr(Wr(m, b + SIZE, BSize(m, b) + BSize(m, n)),
                        b + NEXT, BNext(m, n)),
                     BNext(m, n) + PREV, b), b, fuel - 1)

fusion(m, b) == IF b = NULL THEN m ELSE FusionLoop(m, b, Fuel(m))

(* mmap(0, s, ...) maps whole pages; it fails for s = 0, when the OS     *)
(* refuses (ok = FALSE) and, as the model's bound, beyond MaxRegions.    *)
MmapOK(st, s, ok) == ok /\ s > 0 /\ Len(st.regions) < MaxRegions

PageRound(s) == ((s + PAGESIZE - 1) \div PAGESIZE) * PAGESIZE

(* `last->next = b` when there is a last block.                          *)
LinkAfter(m, last, b) == IF last # NULL THEN Wr(m, last + NEXT, b) ELSE m

(* The header extend_heap writes at b: size s, no successor, prev last,  *)
(* ptr b->data, allocated.                                                *)
NewHeader(m, b, s, last) ==
  Wr(Wr(Wr(Wr(Wr(m, b + SIZE, s), b + NEXT, NULL), b + PREV, last),
        b + PTR, Data(b)), b + FREE, 0)

(* The state after a successful mmap of s bytes at b.                    *)
Mapped(st, b, s, last) ==
  [st EXCEPT !.mem = LinkAfter(NewHeader(@, b, s, last), last, b),
             !.regions = Append(@, PageRound(s))]

(* Mutation: last->next = b is written before b is checked against      *)
(* MAP_FAILED, so a failed mmap links MAP_FAILED (-1) after last.      *)
extend_heap_link_first(st, last, s, ok) ==
  IF ~MmapOK(st, s, ok)
  THEN [st |-> [st EXCEPT !.mem = LinkAfter(@, last, -1)], b |-> NULL]
  ELSE [st |-> Mapped(st, (Len(st.regions) + 1) * Span, s, last),
        b  |-> (Len(st.regions) + 1) * Span]

(* extend_heap(last, s) (memory.c 180-198): a new region of s bytes (not *)
(* s + BLOCK_SIZE) holding one block, linked after `last`.  Result: the  *)
(* new state and the block, NULL when mmap fails.                        *)
extend_heap(st, last, s, ok) ==
  IF ~MmapOK(st, s, ok) THEN [st |-> st, b |-> NULL]
  ELSE [st |-> Mapped(st, (Len(st.regions) + 1) * Span, s, last),
        b  |-> (Len(st.regions) + 1) * Span]

(* valid_addr(p) (memory.c 132-150): p's block is on the list and its   *)
(* ptr field is p.                                                        *)
valid_addr(m, base, p) ==
  /\ p # NULL
  /\ base # NULL
  /\ get_block(p) \in Blocks(m, base)
  /\ BPtr(m, get_block(p)) = p

(* enum alloc_type: the kinds of operation log_handler records, by the  *)
(* name each call passes with its ALLOC_TYPE_* value.                    *)
alloc_type == {"malloc", "calloc", "realloc", "free"}

Log(st, kind, p) == [st EXCEPT !.log = Append(@, [kind |-> kind, ptr |-> p])]

(* The end of a successful my_malloc (memory.c 274-277): log unless the  *)
(* call came from calloc/realloc, clear the flag, return b->data.        *)
MallocDone(st, b, size) ==
  [st  |-> [IF st.malloc_call = 0 THEN Log(st, "malloc", Data(b)) ELSE st
              EXCEPT !.malloc_call = 0],
   ret |-> Data(b)]

(* my_malloc, found block b (memory.c 255-259): split if there is room,  *)
(* mark allocated.                                                       *)
MallocReuse(st, size, s, b) ==
  MallocDone([st EXCEPT !.mem = Wr(SplitIfRoom(@, b, s), b + FREE, 0)], b, size)

(* my_malloc after extend_heap returned e (memory.c 261-272): a NULL     *)
(* block returns NULL before malloc_call is cleared; the first block    *)
(* becomes base.                                                         *)
MallocExtended(st, size, e) ==
  IF e.b = NULL THEN [st |-> e.st, ret |-> NULL]
  ELSE MallocDone(IF st.base # NULL THEN e.st ELSE [e.st EXCEPT !.base = e.b],
                  e.b, size)

MallocFound(st, size, s, fb, ok) ==
  IF st.base # NULL /\ fb.b # NULL THEN MallocReuse(st, size, s, fb.b)
  ELSE MallocExtended(st, size,
                      extend_heap(st, IF st.base # NULL THEN fb.last ELSE NULL, s, ok))

(* my_malloc(size) (memory.c 244-278).                                   *)
my_malloc(st, size, ok) ==
  MallocFound(st, size, align(size),
              find_block(st.mem, st.base, align(size), st.method), ok)

(* The end of an accepted my_free (memory.c 290-299): the fused block b  *)
(* in memory m1, unlinked when it is the last one.  brk() moves the      *)
(* program break, not the mmap()ed region: the region stays mapped.      *)
FreeFused(st, p, b, m1) ==
  LET tail == BNext(m1, b) = NULL
  IN  Log([st EXCEPT
             !.mem  = IF tail /\ BPrev(m1, b) # NULL
                      THEN Wr(m1, BPrev(m1, b) + NEXT, NULL) ELSE m1,
             !.base = IF tail /\ BPrev(m1, b) = NULL THEN NULL ELSE @], "free", p)

(* my_free(ptr) (memory.c 283-301).                                      *)
my_free(st, p) ==
  IF ~valid_addr(st.mem, st.base, p) THEN st
  ELSE FreeFused(st, p, get_block(p),
                 fusion(Wr(st.mem, get_block(p) + FREE, 1), get_block(p)))

(* copy_block(src, dst) (memory.c 101-114): nothing when either ptr is   *)
(* NULL; otherwise int by int from src->ptr to dst->ptr while below both *)
(* sizes.  The words of the source range (stale headers included) land   *)
(* at the same offsets of the destination; overlapping ranges are taken  *)
(* as copied from a snapshot.  Touching unmapped memory is a crash.      *)
CopyRange(st, sp, dp, len) ==
  LET m        == st.mem
      InDst(a) == dp <= a /\ a < dp + len
  IN  [st EXCEPT
         !.mem  = [a \in {x \in DOMAIN m : ~InDst(x)} \cup
                         {c - sp + dp : c \in {x \in DOMAIN m : sp <= x /\ x < sp + len}}
                     |-> IF InDst(a) THEN m[a - dp + sp] ELSE m[a]],
         !.segv = @ \/ ~RangeMapped(st.regions, sp, len)
                    \/ ~RangeMapped(st.regions, dp, len)]

copy_block(st, src, dst) ==
  IF BPtr(st.mem, src) = NULL \/ BPtr(st.mem, dst) = NULL THEN st
  ELSE CopyRange(st, BPtr(st.mem, src), BPtr(st.mem, dst),
                 (((IF BSize(st.mem, src) < BSize(st.mem, dst)
                    THEN BSize(st.mem, src) ELSE BSize(st.mem, dst)) + 3) \div 4) * 4)

(* Zeroing [a, a + len) word by word; past the mapping it crashes.       *)
ZeroRange(st, a, len) ==
  [st EXCEPT !.mem  = Restrict(@, {x \in DOMAIN @ : x < a \/ x >= a + len}),
             !.segv = @ \/ ~RangeMapped(st.regions, a, len)]

(* my_calloc after my_malloc(n) returned r (memory.c 317-325).  `new` is *)
(* a size_t*, and the loop runs align(n) << 2 times: it zeroes 32 bytes *)
(* per byte of the request.  calloc is logged even when r is NULL.      *)
CallocZeroed(r, n) ==
  [st  |-> Log(IF r.ret # NULL THEN ZeroRange(r.st, r.ret, 8 * (align(n) * 4))
               ELSE r.st, "calloc", r.ret),
   ret |-> r.ret]

(* my_calloc(number, size) (memory.c 307-326).                           *)
my_calloc(st, number, size, ok) ==
  IF number = 0 \/ size = 0 THEN [st |-> st, ret |-> NULL]
  ELSE CallocZeroed(my_malloc([st EXCEPT !.malloc_call = 1], number * size, ok),
                    number * size)

(* The realloc record of the pointer r.ret returned (memory.c 342-344).  *)
ReallocLogged(r) == [st |-> Log(r.st, "realloc", r.ret), ret |-> r.ret]

(* The block stays at p with memory m (memory.c 350-361, 378-379).       *)
ReallocInPlace(st0, p, m) == [st |-> Log([st0 EXCEPT !.mem = m], "realloc", p), ret |-> p]

(* The block moved to r.ret (memory.c 364-374): copy, free the old one, *)
(* log; a NULL r.ret returns NULL with the heap as my_malloc left it.   *)
ReallocMoved(p, b, r) ==
  IF r.ret = NULL THEN r
  ELSE ReallocLogged([r EXCEPT !.st = my_free(copy_block(@, b, get_block(r.ret)), p)])

(* my_realloc on the valid block b of p, s = align(size) (memory.c      *)
(* 348-379): shrink in place, grow into a free successor, or move.  The *)
(* growth test counts the successor's header, fusion() does not.        *)
ReallocValid(st0, p, s, b, ok) ==
  LET m  == st0.mem
      nb == BNext(m, b)
  IN  IF BSize(m, b) >= s THEN ReallocInPlace(st0, p, SplitIfRoom(m, b, s))
      ELSE IF nb # NULL /\ BFree(m, nb) # 0 /\ BSize(m, b) + BLOCK_SIZE + BSize(m, nb) >= s
      THEN ReallocInPlace(st0, p, SplitIfRoom(fusion(m, b), b, s))
      ELSE ReallocMoved(p, b, my_malloc(st0, s, ok))

(* my_realloc(ptr, size) (memory.c 332-381).  malloc_call is set on      *)
(* entry and only my_malloc clears it.                                   *)
my_realloc(st, p, size, ok) ==
  LET st0 == [st EXCEPT !.malloc_call = 1]
  IN  IF p = NULL THEN ReallocLogged(my_malloc(st0, size, ok))
      ELSE IF ~valid_addr(st.mem, st.base, p) THEN [st |-> st0, ret |-> NULL]
      ELSE ReallocValid(st0, p, align(size), get_block(p), ok)

(* Mutation: the method is stored unchecked, as set_method() does.       *)
malloc_control_unchecked(st, m) == [st EXCEPT !.method = m]

(* malloc_control(m) (memory.c 220-238): only 0, 1 and 2 are accepted.   *)
malloc_control(st, m) ==
  IF m \in {FP!FIRST_FIT, FP!BEST_FIT, FP!WORST_FIT}
  THEN [st EXCEPT !.method = m] ELSE st

(* mem_trim() (memory.c 491-507): free every allocated block through its *)
(* ptr field, fuse forward, and drop the list at its last block.         *)
RECURSIVE TrimLoop(_, _, _)

(* One round after the my_free: fuse, drop base at the last block, move *)
(* on to current->next.                                                  *)
TrimFused(st1, m2, cur, fuel) ==
  TrimLoop([st1 EXCEPT !.mem = m2,
                       !.base = IF BNext(m2, cur) = NULL THEN NULL ELSE @],
           BNext(m2, cur), fuel - 1)

TrimFreed(st1, cur, fuel) == TrimFused(st1, fusion(st1.mem, cur), cur, fuel)

TrimLoop(st, cur, fuel) ==
  IF cur = NULL \/ fuel = 0 THEN st
  ELSE TrimFreed(IF BFree(st.mem, cur) = 0 THEN my_free(st, BPtr(st.mem, cur)) ELSE st,
                 cur, fuel)

mem_trim(st) == TrimLoop(st, st.base, Fuel(st.mem))

SumSizes(m, S) == FSE!MapThenSumSet(LAMBDA b : BSize(m, b), S)

(* The two anomalies check_heap() reports while walking the list        *)
(* (memory.c 437-454): a free block whose successor is free, and a block *)
(* whose size_t size is <= 0, i.e. 0.                                     *)
AdjacentFreeAt(m, base) ==
  {b \in Blocks(m, base) : BFree(m, b) # 0 /\ BNext(m, b) # NULL /\ BFree(m, BNext(m, b)) # 0}

BadSizeAt(m, base) == {b \in Blocks(m, base) : BSize(m, b) = 0}

(* external_frag() (memory.c 560-584): the largest allocated size, then  *)
(* the free blocks smaller than it against the total; the ratio is       *)
(* unusable * 100 / total, NaN when total = 0.                           *)
external_frag(m, base) ==
  LET B    == Blocks(m, base)
      maxs == IF \E b \in B : BFree(m, b) = 0
              THEN BSize(m, CHOOSE b \in B : BFree(m, b) = 0 /\
                              \A c \in B : BFree(m, c) = 0 => BSize(m, c) <= BSize(m, b))
              ELSE 0
  IN  [unusable |-> SumSizes(m, {b \in B : BFree(m, b) # 0 /\ BSize(m, b) < maxs}),
       total    |-> SumSizes(m, B)]

(***************************************************************************)
(* The process state: the globals of memory.c, the mappings, and the     *)
(* client (the caller of the allocator: what it holds and has freed).    *)
(***************************************************************************)
VARIABLES
  mem,          \* the words of memory written so far (address -> value)
  base,         \* memory.c `base`: the first block, NULL when empty
  method,       \* memory.c `method`: the fit policy
  malloc_call,  \* memory.c `malloc_call`: suppresses my_malloc's log line
  regions,      \* mapped length of each region mmap() returned
  segv,         \* the last call touched unmapped memory: the process died
  logged,       \* the log records the last call wrote
  held,         \* client: payload pointer -> size asked for, not yet freed
  freed,        \* client: pointers it passed to my_free
  op            \* client: the last call, its pointer argument and result

vars == <<mem, base, method, malloc_call, regions, segv, logged, held, freed, op>>

St == [mem |-> mem, base |-> base, method |-> method, malloc_call |-> malloc_call,
       regions |-> regions, segv |-> segv, log |-> <<>>]

Apply(st) ==
  /\ mem' = st.mem
  /\ base' = st.base
  /\ method' = st.method
  /\ malloc_call' = st.malloc_call
  /\ regions' = st.regions
  /\ segv' = st.segv
  /\ logged' = st.log

Drop(f, p) == Restrict(f, DOMAIN f \ {p})

Init ==
  /\ mem = [a \in {} |-> 0]
  /\ base = NULL
  /\ method = FP!FIRST_FIT
  /\ malloc_call = 0
  /\ regions = <<>>
  /\ segv = FALSE
  /\ logged = <<>>
  /\ held = [p \in {} |-> 0]
  /\ freed = {}
  /\ op = [call |-> "none", arg |-> NULL, ret |-> NULL]

(* A call that returns a new allocation: the client holds the result.    *)
(* A realloc that moved p leaves p freed.                               *)
Hold(call, arg, ret, n) ==
  /\ held' = IF ret = NULL THEN held ELSE (ret :> n) @@ Drop(held, arg)
  /\ freed' = IF arg # NULL /\ ret # NULL /\ ret # arg
              THEN (freed \cup {arg}) \ {ret} ELSE freed \ {ret}
  /\ op' = [call |-> call, arg |-> arg, ret |-> ret]

(* The client's view of a call that returned r.                         *)
Returned(call, arg, n, r) == Apply(r.st) /\ Hold(call, arg, r.ret, n)

(* The value the client writes, and its write *p = TAG: a crash when p  *)
(* is not mapped.                                                        *)
TAG == 7

Store(st, p) ==
  [st EXCEPT !.mem = Wr(st.mem, p, TAG), !.segv = st.segv \/ ~RangeMapped(st.regions, p, 8)]

(* The client of a call that returned a new allocation r.ret stores TAG *)
(* in it, when it writes at all.                                         *)
Stored(r) ==
  IF Tagged /\ r.ret # NULL THEN [st |-> Store(r.st, r.ret), ret |-> r.ret] ELSE r

Malloc(n) ==
  /\ ~segv
  /\ Cardinality(DOMAIN held) < MaxLive
  /\ \E ok \in BOOLEAN : Returned("malloc", NULL, n, Stored(my_malloc(St, n, ok)))

Calloc(number, size) ==
  /\ ~segv
  /\ Cardinality(DOMAIN held) < MaxLive
  /\ \E ok \in BOOLEAN :
       Returned("calloc", NULL, number * size,
                Stored(my_calloc(St, number, size, ok)))

(* The client frees what it holds, frees again what it freed, or NULL.   *)
Free(p) ==
  /\ ~segv
  /\ Apply(my_free(St, p))
  /\ held' = Drop(held, p)
  /\ freed' = IF p \in DOMAIN held THEN freed \cup {p} ELSE freed
  /\ op' = [call |-> "free", arg |-> p, ret |-> NULL]

(* On success a moved allocation's old pointer counts as freed; on       *)
(* failure the client keeps the original (spec.md 4.3).                  *)
Realloc(p, n) ==
  /\ ~segv
  /\ p = NULL => Cardinality(DOMAIN held) < MaxLive
  /\ \E ok \in BOOLEAN :
       Returned("realloc", p, n, IF p = NULL THEN Stored(my_realloc(St, p, n, ok))
                                 ELSE my_realloc(St, p, n, ok))

MallocControl(m) ==
  /\ ~segv
  /\ Apply(malloc_control(St, m))
  /\ UNCHANGED <<held, freed>>
  /\ op' = [call |-> "control", arg |-> NULL, ret |-> NULL]

(* mem_trim() ends a simulator round (sim_alloc.c 103): every block is   *)
(* freed, so the client holds nothing afterwards.                        *)
MemTrim ==
  /\ ~segv
  /\ Apply(mem_trim(St))
  /\ held' = [q \in {} |-> 0]
  /\ freed' = freed \cup DOMAIN held
  /\ op' = [call |-> "trim", arg |-> NULL, ret |-> NULL]

Next ==
  \/ \E n \in Requests : Malloc(n)
  \/ \E a \in CallocArgs : Calloc(a[1], a[2])
  \/ \E p \in DOMAIN held \cup freed \cup {NULL} : Free(p)
  \/ \E p \in DOMAIN held \cup {NULL}, n \in ReallocArgs : Realloc(p, n)
  \/ \E m \in MethodArgs : MallocControl(m)
  \/ MemTrim

Spec == Init /\ [][Next]_vars

(***************************************************************************)
(* Properties.                                                             *)
(***************************************************************************)
TypeOK ==
  /\ DOMAIN mem \subseteq Nat /\ \A a \in DOMAIN mem : mem[a] \in Int \ {0}
  /\ base \in Nat
  /\ method \in {FP!FIRST_FIT, FP!BEST_FIT, FP!WORST_FIT}
  /\ malloc_call \in {0, 1}
  /\ regions \in Seq(Nat) /\ Len(regions) <= MaxRegions
  /\ segv \in BOOLEAN
  /\ logged \in Seq([kind : alloc_type, ptr : Nat])
  /\ DOMAIN held \subseteq Nat \ {NULL} /\ Cardinality(DOMAIN held) <= MaxLive
  /\ freed \subseteq Nat \ {NULL}
  /\ op \in [call : {"none", "malloc", "calloc", "free", "realloc", "control", "trim"},
             arg : Nat, ret : Nat]

List == Ledger(mem, base)

(* The block list is acyclic: following `next` from base reaches NULL.  *)
(* split_block, fusion, extend_heap and the tail unlink of my_free all  *)
(* rewrite `next`; a cycle would hang every later walk.                 *)
LedgerAcyclic == List = <<>> \/ BNext(mem, List[Len(List)]) = NULL

ListBlocks == Blocks(mem, base)

(* spec.md 3: at the end of every call no two neighbours on the list are *)
(* both free.  my_free fuses only forward, and fusion() leaves a free    *)
(* last block unabsorbed.                                                *)
NoAdjacentFree == AdjacentFreeAt(mem, base) = {}

(* spec.md 3: prev and next are mutual inverses along the list.          *)
PrevNextInverse ==
  /\ List # <<>> => BPrev(mem, List[1]) = NULL
  /\ \A i \in 1..Len(List) - 1 : BPrev(mem, List[i + 1]) = List[i]

(* Every allocation the client holds is an allocated block of the list,  *)
(* at least as large as asked, that my_free / my_realloc would accept:  *)
(* no sequence of calls loses, frees or shrinks a live allocation.       *)
HeldBlocksLive ==
  \A p \in DOMAIN held :
    /\ valid_addr(mem, base, p)
    /\ BFree(mem, get_block(p)) = 0
    /\ BSize(mem, get_block(p)) >= align(held[p])

(* spec.md 8: every live allocation can be written in full: its payload *)
(* overlaps neither another live payload nor a header on the list.       *)
Payload(p) == {a \in {p + 8 * k : k \in 0..(align(held[p]) \div 8) - 1} : TRUE}

HeldDisjoint ==
  /\ \A p, q \in DOMAIN held : p # q => Payload(p) \cap Payload(q) = {}
  /\ \A p \in DOMAIN held, b \in ListBlocks :
       \A a \in Payload(p) : ~(b <= a /\ a < b + BLOCK_SIZE)

(* spec.md 8: every live allocation lies in memory the process has       *)
(* mapped: writing it in full does not fault.                            *)
HeldMapped == \A p \in DOMAIN held : RangeMapped(regions, p, align(held[p]))

(* spec.md 4.5: every call that succeeds is reported to the recorder    *)
(* under its own kind and with the pointer it returned; a my_free of a   *)
(* pointer the client held before the call is reported with that         *)
(* pointer.  A step's records are logged', the pre-state tells whether   *)
(* the freed pointer was held, so this is a property of steps.           *)
Recorded(kind, p) == \E i \in DOMAIN logged' : logged'[i] = [kind |-> kind, ptr |-> p]

LogRecordsCall ==
  [][ /\ op'.call \in {"malloc", "calloc", "realloc"} /\ op'.ret # NULL =>
           Recorded(op'.call, op'.ret)
      /\ op'.call = "free" /\ op'.arg \in DOMAIN held =>
           Recorded("free", op'.arg) ]_vars

(* No call touches memory outside the region it belongs to.             *)
NoSegv == ~segv

(* spec.md 4.2 / 8: a region whose last block left the list is given     *)
(* back to the OS, so every mapped region holds a block of the list.     *)
RegionsInUse ==
  \A r \in 1..Len(regions) : \E b \in ListBlocks : RegionOf(b) = r

(* A call never hands out a payload the client already holds.           *)
NoDoubleAllocation ==
  [][op'.ret # NULL /\ op'.ret # op'.arg => op'.ret \notin DOMAIN held]_vars

(* spec.md 4.4: check_heap() finds no block of non-positive size; a    *)
(* zero size is a header the allocator carved or wiped wrongly.          *)
PositiveSizes == BadSizeAt(mem, base) = {}

(* spec.md 7: a call that fails leaves the heap as it was: no step of    *)
(* my_malloc, my_calloc or my_realloc writes memory, links a block or    *)
(* maps a region and then returns NULL.                                  *)
FailureIsAtomic ==
  [][op'.call \in {"malloc", "calloc", "realloc"} /\ op'.ret = NULL =>
       UNCHANGED <<mem, base, regions>>]_vars

(* spec.md 7: my_free of a pointer the client does not hold (one already *)
(* freed, or NULL) is a no-op.                                           *)
StaleFreeIsNoOp ==
  [][op'.call = "free" /\ op'.arg \notin DOMAIN held =>
       UNCHANGED <<mem, base, regions>>]_vars

(* spec.md 8, data preservation: every allocation the client holds still *)
(* starts with the TAG it stored, through every later call: no split or  *)
(* fusion header, no calloc zeroing, and no realloc copy_block (which    *)
(* skips the copy when the new block's ptr field is NULL) loses it.      *)
ContentsKept == Tagged => \A p \in DOMAIN held : Rd(mem, p) = TAG

(***************************************************************************)
(* Refinement: the allocations the client holds, with the word each       *)
(* starts with in memory, behave as AbstractAllocator's live allocations.  *)
(***************************************************************************)
(* The abstract kind of the client's last call; realloc(NULL, n) is an  *)
(* allocate (memory.c 340-345).                                          *)
CallKind(o) ==
  CASE o.call = "malloc"                     -> "allocate"
    [] o.call = "calloc"                     -> "zero_allocate"
    [] o.call = "realloc" /\ o.arg = NULL    -> "allocate"
    [] o.call = "realloc"                    -> "resize"
    [] o.call = "free"                       -> "release"
    [] o.call = "trim"                       -> "release_all"
    [] o.call = "control"                    -> "set_method"
    [] OTHER                                 -> "none"

ABS == INSTANCE AbstractAllocator
         WITH live <- [p \in DOMAIN held |-> align(held[p])],
              data <- [p \in DOMAIN held |-> Rd(mem, p)],
              call <- CallKind(op)

(* Every call, as the client sees it, is a step of the abstract          *)
(* allocator: a new allocation is clear of all live ones, a free ends    *)
(* exactly its allocation, a realloc carries its first word, mem_trim   *)
(* ends all, and no call changes what another allocation holds.          *)
AllocatorSpec == ABS!ASpec
=============================================================================
