------------------------------ MODULE Simulator ------------------------------
(***************************************************************************)
(* The fragmentation simulator of src/unnamed/part_001 (sim_alloc.c)      *)
(* composed with the allocator of Heap, and the metrics thread that reads *)
(* the three fragmentation values through get_frag_*().                   *)
(*                                                                         *)
(* Two threads share the semaphore `sem` and frag0..2.  The simulator     *)
(* thread runs init_sim(): sem_init, then rounds of generar_datos and    *)
(* simulador(0), (1), (2); only it calls the allocator.  The metrics      *)
(* thread (main.c/metrics.c, not in the repository: modelled from        *)
(* spec.md section 6) calls the getters, in any order and at any time.   *)
(*                                                                         *)
(* The semaphore is glibc's: a count and a number of registered waiters. *)
(* sem_wait takes a unit when the count is positive; otherwise it        *)
(* registers and parks in the kernel, where it sleeps unless the count    *)
(* changed meanwhile (then it retries).  sem_post adds a unit and wakes   *)
(* one sleeper if waiters are registered.  `sem` is a global, so before  *)
(* sem_init it is all zero: count 0.  sem_init stores count 1 and clears *)
(* the waiters, waking nobody.  Waiting on it before sem_init is          *)
(* undefined; this is what the build does.                                *)
(***************************************************************************)
EXTENDS Heap

CONSTANTS
  Iterations,  \* NUM_ITERACIONES: operations per simulador() run
  SimSizes,    \* values of tamanos[i] = rand() % TAMANO_MAXIMO_ASIGNACION + 1
  MaxPtrs,     \* MAX_PUNTEROS_ACTIVOS: length of the punteros array
  Rounds,      \* rounds of init_sim's while (1) explored
  Builds       \* builds explored: FALSE, the `break` of line 122 ends
               \* init_sim's loop, as built; TRUE, that line removed, as
               \* its comment says to do to run the simulation

ASSUME /\ Iterations \in Nat /\ MaxPtrs \in Nat \ {0} /\ Rounds \in Nat
       /\ SimSizes \subseteq 1..50 /\ Builds \subseteq BOOLEAN

SIM == "sim"
MET == "metrics"
Threads == {SIM, MET}

(* frag0, frag1, frag2: one per policy, index = simulador's metodo.      *)
Policies == {FP!FIRST_FIT, FP!BEST_FIT, FP!WORST_FIT}

(* A double computed by external_frag, as the exact fraction <<n, d>> it *)
(* stands for; 0.0 / 0.0, NaN, is <<0, 0>>.                              *)
NaN == <<0, 0>>

VARIABLES
  loopRuns,  \* the build: whether init_sim's loop body runs (see Builds)
  spc,       \* simulator thread: where it is in init_sim / simulador
  metodo,    \* the policy of the running simulador()
  round,     \* rounds of init_sim's loop started
  i,         \* simulador's loop index (from 1)
  j,         \* the index of the final free loop (from 1)
  acciones,  \* generar_datos: 0 malloc, 1 free, per iteration
  tamanos,   \* generar_datos: the size per iteration
  punteros,  \* punteros[0 .. asignaciones_activas - 1], as a sequence
  frag,      \* frag0..2
  measured,  \* the policies whose frag simulador has stored (history)
  sem,       \* the semaphore's count
  semReady,  \* sem_init has run (history)
  waiters,   \* threads registered as waiters in the semaphore
  blk,       \* per thread: "run", "parking" (in sem_wait, about to sleep), "asleep"
  mpc        \* metrics thread: where it is in a get_frag_* call; the
             \* three getters run the same code on frag0, frag1, frag2

workVars == <<loopRuns, metodo, round, i, j, acciones, tamanos, punteros>>
fragVars == <<frag, measured>>
semVars  == <<sem, semReady, waiters, blk>>
metVars  == <<mpc>>
allVars  == <<vars, spc, workVars, fragVars, semVars, metVars>>

(***************************************************************************)
(* The semaphore.                                                          *)
(***************************************************************************)
(* A thread not blocked in sem_wait.                                      *)
Running(t) == blk[t] = "run"

Sleepers == {t \in Threads : blk[t] = "asleep"}

(* sem_init(&sem, 0, 1) (sim_alloc.c 114).                               *)
SemInit ==
  /\ sem' = 1 /\ semReady' = TRUE /\ waiters' = {}
  /\ UNCHANGED blk

(* Mutation: sem_wait that does not wait for a unit.                      *)
SemTakeAny(t) ==
  /\ sem' = (IF sem > 0 THEN sem - 1 ELSE 0) /\ waiters' = waiters \ {t}
  /\ UNCHANGED <<semReady, blk>>

(* sem_wait succeeding: take a unit, leave the waiters if registered.   *)
SemTake(t) ==
  /\ sem > 0
  /\ sem' = sem - 1 /\ waiters' = waiters \ {t}
  /\ UNCHANGED <<semReady, blk>>

(* sem_wait on a zero count: register and go to sleep.                   *)
SemBlock(t) ==
  /\ sem = 0
  /\ waiters' = waiters \cup {t} /\ blk' = [blk EXCEPT ![t] = "parking"]
  /\ UNCHANGED <<sem, semReady>>

(* The futex wait: it sleeps only if the count is still zero; otherwise  *)
(* sem_wait retries.                                                     *)
Park(t) ==
  /\ blk[t] = "parking"
  /\ blk' = [blk EXCEPT ![t] = IF sem > 0 THEN "run" ELSE "asleep"]
  /\ UNCHANGED <<sem, semReady, waiters>>

(* Mutation: sem_post never wakes a sleeper.                            *)
SemPostNoWake ==
  /\ sem' = sem + 1
  /\ UNCHANGED <<semReady, waiters, blk>>

(* sem_post: add a unit; with waiters registered, wake one sleeper.      *)
SemPost ==
  /\ sem' = sem + 1
  /\ IF waiters = {} \/ Sleepers = {} THEN UNCHANGED blk
     ELSE \E s \in Sleepers : blk' = [blk EXCEPT ![s] = "run"]
  /\ UNCHANGED <<semReady, waiters>>

(***************************************************************************)
(* The simulator thread: init_sim() and simulador().                       *)
(***************************************************************************)
(* external_frag's (total_free / total) * 100 (part_000 582-583).         *)
Ratio(r) == <<100 * r.unusable, r.total>>

(* Mutation: the freed slot is not refilled; the last pointer is dropped. *)
SwapRemoveLast(s, k) == SubSeq(s, 1, Len(s) - 1)

(* punteros[indice] = punteros[--asignaciones_activas] (line 89).        *)
SwapRemove(s, k) == SubSeq([s EXCEPT ![k] = s[Len(s)]], 1, Len(s) - 1)

(* srand, then sem_init (lines 112-114).                                 *)
InitSim ==
  /\ Running(SIM)
  /\ spc = "start" /\ spc' = "loop"
  /\ SemInit
  /\ UNCHANGED <<vars, workVars, fragVars, metVars>>

(* while (1) { break; ... } (lines 119-122): init_sim returns.           *)
Break ==
  /\ Running(SIM)
  /\ spc = "loop" /\ ~loopRuns /\ spc' = "done"
  /\ UNCHANGED <<vars, workVars, fragVars, semVars, metVars>>

(* generar_datos (lines 57-64, 125), then simulador(0, ...).             *)
GenerarDatos ==
  /\ Running(SIM)
  /\ spc = "loop" /\ loopRuns /\ round < Rounds
  /\ \E acc \in [1..Iterations -> {0, 1}], tam \in [1..Iterations -> SimSizes] :
       acciones' = acc /\ tamanos' = tam
  /\ metodo' = FP!FIRST_FIT /\ round' = round + 1 /\ spc' = "set"
  /\ UNCHANGED <<vars, loopRuns, i, j, punteros, fragVars, semVars, metVars>>

(* set_method(metodo); an empty punteros (lines 71-73).                  *)
SetMethod ==
  /\ Running(SIM)
  /\ spc = "set" /\ spc' = "iter"
  /\ method' = metodo
  /\ i' = 1 /\ punteros' = <<>>
  /\ UNCHANGED <<mem, base, malloc_call, regions, segv, logged, held, freed, op,
                 loopRuns, metodo, round, j, acciones, tamanos, fragVars, semVars, metVars>>

(* A malloc iteration that stores a non-NULL result (lines 77-84).       *)
SimMalloc(r) ==
  /\ Apply(r.st) /\ Hold("malloc", NULL, r.ret, tamanos[i])
  /\ punteros' = IF r.ret = NULL THEN punteros ELSE Append(punteros, r.ret)

IterMalloc ==
  /\ Running(SIM)
  /\ spc = "iter" /\ i <= Iterations
  /\ acciones[i] = 0 /\ Len(punteros) < MaxPtrs
  /\ \E ok \in BOOLEAN : SimMalloc(my_malloc(St, tamanos[i], ok))
  /\ i' = i + 1
  /\ UNCHANGED <<spc, loopRuns, metodo, round, j, acciones, tamanos, fragVars, semVars, metVars>>

(* my_free(p) of the client.                                              *)
SimFree(p) ==
  /\ Apply(my_free(St, p))
  /\ held' = Drop(held, p) /\ freed' = freed \cup {p}
  /\ op' = [call |-> "free", arg |-> p, ret |-> NULL]

(* A free iteration: a random live slot, freed and refilled from the    *)
(* last one (lines 85-90).                                               *)
IterFree ==
  /\ Running(SIM)
  /\ spc = "iter" /\ i <= Iterations
  /\ acciones[i] = 1 /\ Len(punteros) > 0
  /\ \E k \in 1..Len(punteros) :
       SimFree(punteros[k]) /\ punteros' = SwapRemove(punteros, k)
  /\ i' = i + 1
  /\ UNCHANGED <<spc, loopRuns, metodo, round, j, acciones, tamanos, fragVars, semVars, metVars>>

(* A malloc with the array full, or a free with it empty: nothing.       *)
IterSkip ==
  /\ Running(SIM)
  /\ spc = "iter" /\ i <= Iterations
  /\ acciones[i] = 0 => Len(punteros) >= MaxPtrs
  /\ acciones[i] = 1 => Len(punteros) = 0
  /\ i' = i + 1
  /\ UNCHANGED <<vars, spc, loopRuns, metodo, round, j, acciones, tamanos, punteros,
                 fragVars, semVars, metVars>>

IterEnd ==
  /\ Running(SIM)
  /\ spc = "iter" /\ i > Iterations /\ spc' = "drain" /\ j' = 1
  /\ UNCHANGED <<vars, loopRuns, metodo, round, i, acciones, tamanos, punteros,
                 fragVars, semVars, metVars>>

(* The final free loop over punteros[0 .. activas - 1] (lines 94-97).    *)
Drain ==
  /\ Running(SIM)
  /\ spc = "drain" /\ j <= Len(punteros)
  /\ SimFree(punteros[j])
  /\ j' = j + 1
  /\ UNCHANGED <<spc, loopRuns, metodo, round, i, acciones, tamanos, punteros,
                 fragVars, semVars, metVars>>

DrainEnd ==
  /\ Running(SIM)
  /\ spc = "drain" /\ j > Len(punteros) /\ spc' = "frag_wait"
  /\ UNCHANGED <<vars, workVars, fragVars, semVars, metVars>>

(* sem_wait(&sem) before the store (line 100): it takes the unit, or    *)
(* blocks.                                                               *)
FragTake ==
  /\ Running(SIM)
  /\ spc = "frag_wait" /\ spc' = "frag"
  /\ SemTake(SIM)
  /\ UNCHANGED <<vars, workVars, fragVars, metVars>>

FragBlock ==
  /\ Running(SIM)
  /\ spc = "frag_wait"
  /\ SemBlock(SIM)
  /\ UNCHANGED <<vars, spc, workVars, fragVars, metVars>>

(* *frag = external_frag() (line 101).                                   *)
FragStore ==
  /\ Running(SIM)
  /\ spc = "frag" /\ spc' = "frag_post"
  /\ frag' = [frag EXCEPT ![metodo] = Ratio(external_frag(mem, base))]
  /\ measured' = measured \cup {metodo}
  /\ UNCHANGED <<vars, workVars, semVars, metVars>>

(* sem_post(&sem) (line 102).                                            *)
FragPost ==
  /\ Running(SIM)
  /\ spc = "frag_post" /\ spc' = "trim"
  /\ SemPost
  /\ UNCHANGED <<vars, workVars, fragVars, metVars>>

(* Mutation: init_sim runs one simulador too many (metodo 3).            *)
TrimPastLast ==
  /\ Running(SIM)
  /\ spc = "trim"
  /\ Apply(mem_trim(St))
  /\ held' = [q \in {} |-> 0] /\ freed' = freed \cup DOMAIN held
  /\ op' = [call |-> "trim", arg |-> NULL, ret |-> NULL]
  /\ IF metodo <= FP!WORST_FIT
     THEN metodo' = metodo + 1 /\ spc' = "set"
     ELSE spc' = "loop" /\ UNCHANGED metodo
  /\ UNCHANGED <<loopRuns, round, i, j, acciones, tamanos, punteros,
                 fragVars, semVars, metVars>>

(* Mutation: init_sim omits the worst-fit simulador (line 130).          *)
TrimTwoPolicies ==
  /\ Running(SIM)
  /\ spc = "trim"
  /\ Apply(mem_trim(St))
  /\ held' = [q \in {} |-> 0] /\ freed' = freed \cup DOMAIN held
  /\ op' = [call |-> "trim", arg |-> NULL, ret |-> NULL]
  /\ IF metodo < FP!BEST_FIT
     THEN metodo' = metodo + 1 /\ spc' = "set"
     ELSE spc' = "loop" /\ UNCHANGED metodo
  /\ UNCHANGED <<loopRuns, round, i, j, acciones, tamanos, punteros,
                 fragVars, semVars, metVars>>

(* mem_trim() ends simulador (line 103); init_sim then runs the next    *)
(* policy, or sleeps and loops (lines 128-131).                           *)
Trim ==
  /\ Running(SIM)
  /\ spc = "trim"
  /\ Apply(mem_trim(St))
  /\ held' = [q \in {} |-> 0] /\ freed' = freed \cup DOMAIN held
  /\ op' = [call |-> "trim", arg |-> NULL, ret |-> NULL]
  /\ IF metodo < FP!WORST_FIT
     THEN metodo' = metodo + 1 /\ spc' = "set"
     ELSE spc' = "loop" /\ UNCHANGED metodo
  /\ UNCHANGED <<loopRuns, round, i, j, acciones, tamanos, punteros,
                 fragVars, semVars, metVars>>

(* The futex wait of a simulator sem_wait (line 100).                    *)
SimPark ==
  /\ Park(SIM)
  /\ UNCHANGED <<vars, spc, workVars, fragVars, metVars>>

SimStep ==
  \/ InitSim \/ Break \/ GenerarDatos \/ SetMethod
  \/ IterMalloc \/ IterFree \/ IterSkip \/ IterEnd \/ Drain \/ DrainEnd
  \/ FragTake \/ FragBlock \/ FragStore \/ FragPost \/ Trim \/ SimPark

(***************************************************************************)
(* The metrics thread: a get_frag_*() call (lines 22-52).                  *)
(***************************************************************************)
(* The metrics loop calls one of the getters (spec.md 6).                *)
MetCall ==
  /\ Running(MET)
  /\ mpc = "idle" /\ mpc' = "wait"
  /\ UNCHANGED <<vars, spc, workVars, fragVars, semVars>>

(* sem_wait(&sem) (lines 24, 36, 48): it takes the unit, or blocks.      *)
MetTake ==
  /\ Running(MET)
  /\ mpc = "wait" /\ mpc' = "read"
  /\ SemTake(MET)
  /\ UNCHANGED <<vars, spc, workVars, fragVars>>

MetBlock ==
  /\ Running(MET)
  /\ mpc = "wait"
  /\ SemBlock(MET)
  /\ UNCHANGED <<vars, spc, workVars, fragVars, metVars>>

(* double f = frag0/1/2 (lines 25, 37, 49).                              *)
MetRead ==
  /\ Running(MET)
  /\ mpc = "read" /\ mpc' = "post"
  /\ UNCHANGED <<vars, spc, workVars, fragVars, semVars>>

(* sem_post(&sem); return f (lines 26-27, 38-39, 50-51).                 *)
MetPost ==
  /\ Running(MET)
  /\ mpc = "post" /\ mpc' = "idle"
  /\ SemPost
  /\ UNCHANGED <<vars, spc, workVars, fragVars>>

(* The futex wait of a getter's sem_wait.                                *)
MetPark ==
  /\ Park(MET)
  /\ UNCHANGED <<vars, spc, workVars, fragVars, metVars>>

MetStep == MetCall \/ MetTake \/ MetBlock \/ MetRead \/ MetPost \/ MetPark

SimInit ==
  /\ Init
  /\ loopRuns \in Builds
  /\ spc = "start" /\ metodo = FP!FIRST_FIT /\ round = 0 /\ i = 1 /\ j = 1
  /\ acciones = [k \in 1..Iterations |-> 0] /\ tamanos = [k \in 1..Iterations |-> 1]
  /\ punteros = <<>>
  /\ frag = [k \in Policies |-> <<0, 1>>] /\ measured = {}
  /\ sem = 0 /\ semReady = FALSE /\ waiters = {}
  /\ blk = [t \in Threads |-> "run"]
  /\ mpc = "idle"

SimNext == SimStep \/ MetStep

(* A thread that can run is eventually scheduled (one asleep in the      *)
(* kernel cannot).  The semaphore hands no unit to a woken thread: the   *)
(* other may take it first, and weak fairness would let it do so         *)
(* forever.  The metrics thread polls periodically (spec.md 6) and the   *)
(* simulator holds the semaphore once per run, so each finds it free     *)
(* infinitely often: strong fairness for each thread's taking of it.     *)
SimSpec ==
  /\ SimInit /\ [][SimNext]_allVars
  /\ WF_allVars(SimStep) /\ WF_allVars(MetStep)
  /\ SF_allVars(FragTake) /\ SF_allVars(MetTake)

(***************************************************************************)
(* Properties.                                                             *)
(***************************************************************************)
SimTypeOK ==
  /\ spc \in {"start", "loop", "done", "set", "iter", "drain",
              "frag_wait", "frag", "frag_post", "trim"}
  /\ loopRuns \in BOOLEAN /\ metodo \in Policies /\ round \in 0..Rounds
  /\ punteros \in Seq(Nat \ {NULL})
  /\ frag \in [Policies -> Nat \X Nat]
  /\ measured \subseteq Policies
  /\ sem \in Nat /\ semReady \in BOOLEAN /\ waiters \subseteq Threads
  /\ blk \in [Threads -> {"run", "parking", "asleep"}]
  /\ mpc \in {"idle", "wait", "read", "post"}

(* The slots of punteros that hold live allocations: all of them while  *)
(* the loop runs, those the final free loop has not reached yet, none   *)
(* before a run and after it.                                            *)
LiveSlots ==
  CASE spc = "iter"  -> 1..Len(punteros)
    [] spc = "drain" -> j..Len(punteros)
    [] OTHER         -> {}

(* simulador's array (lines 72-97) holds exactly the allocations it has *)
(* not freed, each once, in at most MAX_PUNTEROS_ACTIVOS slots: a       *)
(* pointer lost by the swap-remove of line 89 leaks and is never freed, *)
(* one kept twice is freed twice, and a malloc past the guard of line 77 *)
(* writes beyond the stack array.                                        *)
PunterosTrackHeld ==
  /\ Len(punteros) <= MaxPtrs
  /\ {punteros[k] : k \in LiveSlots} = DOMAIN held
  /\ \A k, l \in LiveSlots : k # l => punteros[k] # punteros[l]

(* The store of a fragmentation value (line 101) and a getter's read of *)
(* it (lines 25, 37, 49) never overlap: the semaphore excludes them.    *)
FragExclusive == ~(spc = "frag" /\ mpc = "read")

(* Every get_frag_*() call the metrics thread makes returns, including  *)
(* one made before init_sim has run sem_init (line 114).                 *)
GetterReturns == mpc = "wait" ~> mpc = "idle"

(* A get_frag_*() call running after sem_init (line 114), and not left *)
(* registered from a wait begun before it, returns: the sem_post of     *)
(* line 102 or of another getter wakes the wait a store made it start.  *)
GetterReturnsAfterInit ==
  (mpc = "wait" /\ semReady /\ blk[MET] = "run") ~> mpc = "idle"

(* The simulator eventually stores a fragmentation value for each of the *)
(* three policies (lines 128-130 through line 101), so the getters come  *)
(* to report measured values rather than the initial 0 (spec.md 6).      *)
FragMeasured == <>(measured = Policies)

(* The same, in the build whose loop body runs (line 122 removed).      *)
FragMeasuredWhenRun == loopRuns => FragMeasured
====
