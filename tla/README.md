# TLA+ models of the metrics_monitor memory allocator

The repository has two parts. One is a custom allocator, `memory.c`, found at
`src/unnamed/part_000` with its header `src/lib/memory/include/memory.h`. The
other is a fragmentation simulator, `sim_alloc.c`, found at
`src/unnamed/part_001`. The simulator drives the allocator under each fit
policy and publishes the fragmentation it measures to the metrics exporter.
This directory models the allocator with TLC: its block list, its regions, its
fit policies, and every public call. It also models the simulator thread that
drives the allocator, and the metrics thread that reads its results through a
semaphore.

## 1. Inventory

### Components, their state and operations

| Component | State in the code | Operations that change state |
|---|---|---|
| Block ledger | Each `struct s_block` header lives in memory: size, next, prev, free, ptr, then `data`. The global `base` is the head of the list. | `split_block`, `fusion`, the unlinking in `my_free`, and `mem_trim` |
| Region provider | The anonymous `mmap` regions. | `extend_heap`, which calls mmap. `my_free`, which calls `brk`. |
| Fit policies | The global `method` (0, 1 or 2). | `find_block` (read only), `malloc_control`, `set_method` |
| Allocator core | All of the above. | `my_malloc`, `my_free`, `my_calloc`, `my_realloc`, `copy_block` |
| Operation recorder | The `malloc_call` flag and `log_file`. | `log_handler`, `log_function_call`, `log_close` |
| Introspection | None; these functions only read. | `check_heap`, `memory_usage`, `external_frag` |
| Simulator (`sim_alloc.c`) | `frag0..2` and the semaphore `sem`. | `simulador`, `init_sim`, and the `get_frag_*` getters |
| Metrics and HTTP exposition | `main.c`, `metrics.c` and `expose_metrics.c` are named by the CMake build but are not in the repository. | none |

### How they interact

- **Allocation.** `my_malloc` asks `find_block` for a block, walking the list
  from `base` under `method`. On a hit it calls `split_block`. On a miss it
  calls `extend_heap`, which maps a new region and links its block after the
  `last` block the walk stopped on.
- **Free.** `my_free` validates the pointer with `valid_addr` and marks the
  block free. It then calls `fusion` on the block, which merges only forward.
  If the block is the tail, it unlinks it and calls `brk`.
- **calloc and realloc.** Both go through `my_malloc`. They raise
  `malloc_call` so that `my_malloc` does not log the call a second time.
  `my_realloc` grows a block in place through `fusion`, or moves the data with
  `copy_block` followed by `my_free`.
- **Simulator.** `init_sim` runs on its own thread. It calls `sem_init`, then
  loops: `generar_datos` draws the workload, and `simulador(0..2)` replays it
  under each policy. Each run calls `set_method`, `my_malloc`, `my_free` and,
  at the end, `mem_trim`. It stores `external_frag()` into `frag0..2` between
  `sem_wait` and `sem_post`.
- **Metrics thread.** It calls `get_frag_first_fit`, `get_frag_best_fit` and
  `get_frag_worst_fit` periodically (spec.md 6). Each getter reads its value
  between `sem_wait` and `sem_post`. `main.c`, which starts both threads, is not
  in the repository.

### What is hard

There are no threads inside the allocator: only the simulator thread calls it.
The two threads meet only at the semaphore and `frag0..2`. What makes the
allocator hard is **long sequences of legal calls**. A header written by one call is read by a later
call at an address another call reuses. Specific cases:

- `split_block` leaves `prev` and `ptr` unwritten.
- `fusion` refuses a free tail.
- `my_free` coalesces forward only, and unmaps nothing.
- Some `size_t` expressions wrap.
- The calloc loop overruns its block.
- `malloc_call` leaks across calls.
- Failure paths can fail part-way.

The full list is the `hazards` section of `PROJECT.json`. Each entry has its
source line and the properties that cover it.

### Properties each component needs

- **Ledger:**
  - the list stays acyclic;
  - `prev` and `next` are inverses;
  - no block has size 0;
  - no two neighbouring blocks are free;
  - every block the client holds stays on the list, busy, and big enough.
- **Allocator:**
  - no payload is handed out twice;
  - held payloads are disjoint and lie inside mapped memory;
  - a failing call changes nothing;
  - freeing a stale pointer changes nothing;
  - no write faults.
- **Regions:** a mapped region always holds a listed block.
- **Fit policies:** each policy returns what spec.md 4.3 prescribes.
- **Recorder:** every successful call is logged once.
- **Simulator:**
  - `punteros` holds exactly the live allocations;
  - the store and a read of `frag` never overlap;
  - every getter call returns;
  - every policy eventually gets measured.

## 2. Plan

Modules, in dependency order:

1. `FitPolicy.tla`: `find_block`'s three walks as RECURSIVE operators over a
   sequence of `[size, free]` records, with reference definitions taken from
   spec.md. `MCFitPolicy.tla` enumerates every list of up to 3 blocks and
   every request. *(done)*
2. `Heap.tla`: the whole allocator. It INSTANCEs `FitPolicy`. Memory is a
   sparse map from 8-byte word address to value, where an absent word reads 0.
   Each C function is an operator from state record to state record, so an
   action models the whole call, including every nested call. `MCHeap.tla`
   gives the constants. *(done)*
3. `AbstractAllocator.tla`: the contract memory.h documents for each call,
   as disjoint live intervals and the word each starts with. `Heap` INSTANCEs
   it under a refinement mapping, and `AllocatorSpec` is checked as a
   PROPERTY. Because of the bugs found below, the refinement holds only for a
   client that avoids calloc and realloc, which is the simulator's client.
   *(done)*
4. `Simulator.tla`: `init_sim` and `simulador` as one thread that composes
   `Heap`'s operators, the getters as a second thread, and glibc's semaphore
   between them. `MCSimulator.tla` gives the constants. *(done)*

## 3. The modules and how they correspond to the code

### FitPolicy

- `FirstFitFrom` models `find_block` case 0.
- `FitFrom` models cases 1 and 2. An exact size returns at once. Otherwise
  `Closer` compares the leftover with `dif`.
- `FindBlock` also returns `last`, which `my_malloc` needs.
- `FirstFitRef`, `BestFitRef` and `WorstFitRef` state spec.md's policies
  directly as sets.

### Heap

Memory and regions:

- A header at address `b` has its fields at `b+0`, `b+8`, `b+16`, `b+24` and
  `b+32`, and `data = b+40`.
- Region k starts at `k*65536`. `regions` is the sequence of
  `[start, len]` records that `mmap` returned.
- Fresh mappings are zero. A header carved where an old one lay reads the old
  words. This is how the model gives the unwritten `prev` and `ptr` of
  `split_block` exactly the values the program would read.

The operators:

- `find_block`, `split_block`, `fusion`, `extend_heap`, `valid_addr`,
  `my_malloc`, `my_free`, `copy_block`, `my_calloc`, `my_realloc`,
  `malloc_control` and `mem_trim` follow their C functions statement by
  statement. Each loop is a RECURSIVE operator with a fuel bound equal to the
  number of words in memory, which is enough because every walk visits at
  most one header per word.
- memory.h's comments on `malloc_control` and `set_method` still say the
  mode is 0 (First Fit) or 1 (Best Fit). Those comments are stale: the code
  accepts 2 (Worst Fit) as well, and the simulator uses it. The model
  follows the code.
- A result computed by one call (find_block's search, extend_heap's new
  block, my_malloc's return, fusion's memory) is handed to a helper operator
  as a parameter, e.g. `MallocFound`, `MallocExtended`, `FreeFused` or
  `ReallocMoved`, and not referenced repeatedly through a LET name. Each
  helper is one branch of its C function, and `map` names its lines.
- `my_calloc`'s zeroing loop writes `align(n*size) << 2` words, as the code
  does. A write outside every mapping sets `segv`.
- `brk()` is modelled as having no effect: it cannot release an `mmap`ed
  region.
- `ok \in BOOLEAN` is the outcome of `mmap`. mmap also fails when 0 bytes are
  requested, or when `MaxRegions` regions are already mapped.
- `log` records each `log_handler` call as `[kind, ptr]`. The file
  output is not modelled.

The actions:

- The actions are `Malloc`, `Calloc`, `Free`, `Realloc`, `MallocControl` and
  `MemTrim`. Each one applies the operator of its call to the whole state.
- Auxiliary variables record what the client holds:
  - `held` maps each payload pointer to its requested size;
  - `freed` holds the pointers that were freed;
  - `op` holds the last call and its result.
- `Free` is offered both held and freed pointers. This is how double frees
  are explored.
- When `Tagged`, the client stores `TAG` into the first word of each
  allocation that malloc, calloc or `realloc(NULL, n)` returns (`Stored`).
  A realloc that moves a block does not store: what the new block starts
  with is whatever `copy_block` put there. The simulator writes nothing, so
  its runs set `Tagged = FALSE`. The rest of each payload is not modelled.

### AbstractAllocator, and the refinement

- Variables: `live` maps each payload address to its length, `data` maps it
  to the word it starts with, and `call` is the kind of the client's last
  request.
- Actions: `Allocate` (my_malloc), `ZeroAllocate` (my_calloc), `Release`
  (my_free), `Resize` (my_realloc), `ReleaseAll` (mem_trim), `SetMethod`
  (malloc_control) and `Refuse`. A new allocation or a resized one must be
  clear of every other live interval. A resize carries the first word. No
  action changes another allocation's word. `Refuse` is a failed call, or a
  free of something not live, and it changes nothing.
- Mapping in `Heap`: `live <- [p \in DOMAIN held |-> align(held[p])]`,
  `data <- [p \in DOMAIN held |-> Rd(mem, p)]` and `call <- CallKind(op)`.
  `call` is what makes the check strict: without it, a malloc that handed
  out a live block again would pass as an in-place resize.
- Known gap: a malloc that returns a held block of the same size, right
  after an identical call, maps to a stuttering step. `NoDoubleAllocation`
  in heap_structure covers that case.

### Simulator

Threads and the semaphore:

- `spc` is the simulator thread's place in `init_sim` and `simulador`, and
  `mpc` is the metrics thread's place in a getter. Each labelled step is one
  action: `InitSim`, `Break`, `GenerarDatos`, `SetMethod`, `IterMalloc`,
  `IterFree`, `IterSkip`, `IterEnd`, `Drain`, `DrainEnd`, `FragTake`,
  `FragBlock`, `FragStore`, `FragPost` and `Trim`, then `MetCall`, `MetTake`,
  `MetBlock`, `MetRead` and `MetPost`.
- An allocator call inside a step is the `Heap` operator of that call, applied
  whole, so a step of the simulator thread is one allocator call.
- The semaphore is glibc's, with a count `sem` and registered `waiters`.
  - `sem_wait` takes a unit if the count is positive (`FragTake`, `MetTake`).
    Otherwise it registers and parks (`FragBlock`, `MetBlock`).
  - The futex wait (`SimPark`, `MetPark`) sleeps only if the count is still
    0. Otherwise the thread retries.
  - `sem_post` adds a unit and wakes one sleeper if waiters are registered.
  - `sem` is a zero-filled global, so before `sem_init` its count is 0.
    `sem_init` stores count 1 and zero waiters, and wakes nobody.
- `rand()` is a nondeterministic choice: `generar_datos`'s actions and sizes,
  and the slot `IterFree` frees. `sleep()` adds no state.
- `Builds` is the set of builds to explore. In the repository, line 122
  `break`s out of the loop before its first round (`Break`). Its comment says
  to remove that line to run the simulation (`GenerarDatos`). `loopRuns` is
  chosen from `Builds` in the initial state.
- `frag` holds each value as the exact fraction `external_frag` divides, so
  0.0/0.0 (NaN) is representable.

## 4. Runs

| Run | Expect | What it shows |
|---|---|---|
| fit_first_worst | pass | First fit and worst fit choose the block spec.md prescribes on every list of up to 3 blocks (2340 states). |
| fit_best_pagesize | violation | Best fit ignores any block 4096 or more bytes larger than the request (`dif = PAGESIZE`). |
| heap_structure | pass | Over every call sequence within the bounds (about 35k states): the list stays acyclic, no call returns a payload still held, and a call returning NULL leaves memory, `base` and regions unchanged. |
| adjacent_free | violation | `fusion` refuses the free tail and `my_free` coalesces only forward, so adjacent free blocks remain. |
| lost_allocation | violation | A split-off block has `ptr = 0`. Once handed out, `valid_addr` rejects it, so it can never be freed. |
| realloc_overlap | violation | In-place growth returns a block too small for the request, which overlaps the next header. |
| log_suppressed | violation | A `malloc_call` flag left set by calloc or realloc hides the next malloc from the log. `LogRecordsCall` is a property of steps: it also requires a my_free of a pointer held before the call to be logged. |
| stale_free | violation | A double free changes the heap. |
| heap_refines | pass | For a client of malloc, free, mem_trim and malloc_control that stores a word in every allocation, `Heap` implements `AbstractAllocator` (`AllocatorSpec`). The abstract `data` is each allocation's first word, so no call may overwrite a word the client stored. About 12.6k states. |
| data_loss | violation | After `malloc(128)` and `realloc(p, 8)`, a `realloc(q, 50)` that must move lands in the block `split_block` carved. That block's `ptr` was never written, so `copy_block` returns without copying and q's contents are lost (`ContentsKept`). |
| sim_rounds | pass | Both threads in both builds, about 96k states. Four properties hold: `punteros` holds exactly the live allocations, with no slot lost or repeated by the swap-remove; the store of `frag` and a getter's read never overlap; a getter that starts after `sem_init` returns; and when the loop runs, all three policies get measured. |
| getter_before_init | violation | A getter called before `sem_init` never returns. It registers as a waiter on the zero-filled semaphore and sleeps. `sem_init` wipes the waiter count, so no `sem_post` wakes it. |

Four properties of `Heap` are stated but no run checks them. TLC finds each
violated:

- `RegionsInUse`: `brk` never releases the region of a freed tail.
- `PositiveSizes`: `realloc(p, 0)` splits at `p` itself.
- `NoSegv`: `calloc(1, 128)` zeroes 4096 bytes and faults. This needs
  `CallocArgs = {<<1, 128>>}`.
- `HeldMapped`: `malloc(4096)` runs 40 bytes past its mapping, because
  `extend_heap` maps `s` and not `s + 40`. This needs `Requests = {4096}`.

The last two are single calls that a unit test reaches. They gave way to the
refinement and data-loss runs. The hazards list records all four.

### Bounds

- `Requests = {8, 50}`. 8 is the smallest aligned size. 50 aligns to 56, which
  is large enough to split off an 8-byte block (56 ≥ 8+40+8).
- `CallocArgs = {<<1,8>>}`.
- `MethodArgs = {0,1,2,3}`. The value 3 is there to exercise
  `malloc_control`'s rejection.
- `MaxRegions = 2` and `MaxLive = 2`. Two regions make cross-region links and
  cross-region fusion possible. Two live blocks make split, reuse,
  coalescing, tail release and moving realloc all reachable.
- A probe with 3 regions and 3 live blocks confirmed `NoDoubleAllocation` on
  176k states.
- heap_refines uses `Requests = {8, 50, 128}`, `MaxLive = 3` and no calloc
  or realloc. 128 then 8 makes splits that leave large carved blocks. Three
  live blocks let a header write land between two held payloads. With
  `MaxRegions = 3` the run does not finish in 15 minutes.
- data_loss uses `Requests = {8, 128}` with `ReallocArgs = {8, 50}`. This is
  the smallest set that leaves a carved free block big enough for a moving
  realloc.
- With calloc in, `ContentsKept` fails at once, because calloc's zeroing
  wipes the neighbour's word (part_000:320).

Simulator (`MCSimulator.cfg`):

- `Iterations = 3`, `MaxPtrs = 2`, `SimSizes = {8, 50}`, `MaxRegions = 2`,
  `Rounds = 1`.
- Three iterations with two slots reach a free of a slot that is not the
  last, which is the case the swap-remove exists for. They also reach a
  malloc refused by the full-array guard.
- One round runs `simulador` under all three policies on the same data. The
  heap left by one policy is the start of the next.
- The metrics thread can poll at any point, any number of times.
- The run does not check deadlock, because the system really stops: the
  as-built simulator returns after `break`, and the rounds end at `Rounds`.
  The liveness properties say what must still happen.

### Fairness

- The allocator has no fairness. It is a library: it takes a step only when
  its single caller calls it, and nothing in it must eventually happen.
- Each thread of `Simulator` has weak fairness: a thread that can run is
  eventually scheduled.
- Each thread's successful `sem_wait` has strong fairness (`FragTake`,
  `MetTake`). `sem_post` hands its unit to no thread in particular, so under
  weak fairness alone the polling reader could take the semaphore every time
  the simulator is woken. Strong fairness states that a thread finds the
  semaphore free infinitely often when it is free infinitely often. The code
  justifies this: the reader polls periodically and sleeps between polls, and
  the simulator holds the semaphore for one store per run.

## 5. Not modelled

- Payload contents past the first word. One word is enough to observe
  `copy_block`'s skipped copy and calloc's overrun into a neighbour.
- The output of `check_heap` and `memory_usage`, which is printing only. The
  two anomaly checks of `check_heap` are modelled as `AdjacentFreeAt` and
  `BadSizeAt`.
- The file I/O of the logger, including its handle. `log_handler` opens
  `log.txt` lazily; if `fopen` fails it drops the record. `log_close`
  closes the file without resetting `log_file`: with nothing logged this is
  `fclose(NULL)`, and a later call writes to a closed stream. Only `main.c`
  calls `log_close`, and it is not in the repository. The hazards list
  records this.
- `memory_usage`. It only prints. A check of its "Total allocated" against
  what the client holds fails on the lost_allocation trace: the free of the
  split-off block is ignored, and the block stays busy. That is the same
  bug, so it has no run of its own.
- The `size_t` wrap of `number*size` in calloc, which needs operands near
  2^64.
- The value `frag0..2` takes. `simulador` frees every block before it calls
  `external_frag`, so there is no busy block, `maxs` is 0 and no free block
  counts as unusable. The value is therefore always 0, or NaN when the heap is
  empty. The model stores the value, but no property is about it.
- `src/include/sim_alloc.h`. `sim_alloc.c` does not include it, and its
  constants (5000 iterations, sizes up to 1024) and its prototypes of
  `generar_datos` and `simulador` disagree with the code. Its `get_frag_*`
  declarations (lines 13-32) agree with the code. They are the interface
  the metrics thread calls, and `MetCall` models that call.
- The ordering of the two threads' start-up, which `main.c` decides and which
  is not in the repository. The metrics thread may therefore call a getter
  before `sem_init`.
- The metrics and HTTP code, whose sources are absent.
