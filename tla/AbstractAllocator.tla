-------------------------- MODULE AbstractAllocator --------------------------
(***************************************************************************)
(* What the allocator promises its client (spec.md 4.3, 7 and 8), with no *)
(* blocks, regions or policies: a set of live allocations, each an        *)
(* interval of addresses, and what the client stored at its start.        *)
(*                                                                         *)
(*  - allocate returns an address whose whole interval overlaps no other  *)
(*    live allocation (spec.md 8, second law);                            *)
(*  - release ends one live allocation; any other call of it is a no-op   *)
(*    (spec.md 4.3 release step 1, and 7);                                *)
(*  - resize ends one allocation and starts another, in place or not,     *)
(*    that begins with the bytes the old one began with (spec.md 8, the   *)
(*    data-preservation law);                                             *)
(*  - no call changes what another live allocation holds;                *)
(*  - a failing call changes nothing (spec.md 7).                        *)
(* `call` is the kind of the client's last request, so that a step is    *)
(* judged as the call it is: an allocate may never reshape a live one.   *)
(***************************************************************************)
EXTENDS Integers, TLC

VARIABLES
  live,  \* payload address -> length in bytes of the allocation
  data,  \* payload address -> the word the allocation starts with
  call   \* the client's last request

avars == <<live, data, call>>

Calls == {"none", "allocate", "zero_allocate", "release", "resize",
          "release_all", "set_method"}

(* [p, p + n) and [q, q + k) share no byte.                              *)
Apart(p, n, q, k) == p + n <= q \/ q + k <= p

Without(f, p) == [q \in DOMAIN f \ {p} |-> f[q]]

(* p, of length n, is a new allocation clear of every other live one     *)
(* except `old`, the one a resize ends.                                   *)
Fresh(p, n, old) ==
  /\ p # 0
  /\ p \notin DOMAIN live \ {old}
  /\ \A q \in DOMAIN live \ {old} : Apart(p, n, q, live[q])

AInit ==
  /\ live = [p \in {} |-> 0]
  /\ data = [p \in {} |-> 0]
  /\ call = "none"

(* One new allocation, clear of the live ones; what it holds is the      *)
(* client's to write (it may write at once, in the same call's step).    *)
NewAllocation ==
  \E p \in DOMAIN live' \ DOMAIN live :
    /\ Fresh(p, live'[p], 0)
    /\ live' = (p :> live'[p]) @@ live
    /\ data' = (p :> data'[p]) @@ data

(* my_malloc(size): a block of the size asked for.                       *)
Allocate ==
  /\ call' = "allocate"
  /\ NewAllocation

(* my_calloc(number, size): the same, zero-filled; the client's first   *)
(* store follows in the same step, so the word it starts with is free.  *)
ZeroAllocate ==
  /\ call' = "zero_allocate"
  /\ NewAllocation

(* my_free(p): the allocation at p ends.                                 *)
Release ==
  /\ call' = "release"
  /\ \E p \in DOMAIN live :
       /\ live' = Without(live, p)
       /\ data' = Without(data, p)

(* my_realloc(p, size) returning q: the first word moves with the       *)
(* allocation when both lengths cover it.                                *)
Resize ==
  /\ call' = "resize"
  /\ \E p \in DOMAIN live, q \in DOMAIN live' :
       /\ Fresh(q, live'[q], p)
       /\ live' = (q :> live'[q]) @@ Without(live, p)
       /\ data' = (q :> IF live[p] > 0 /\ live'[q] > 0 THEN data[p] ELSE data'[q])
                    @@ Without(data, p)

(* mem_trim(): every allocation ends.                                    *)
ReleaseAll ==
  /\ call' = "release_all"
  /\ live' = [p \in {} |-> 0]
  /\ data' = [p \in {} |-> 0]

(* malloc_control(mode): the allocations are untouched.                 *)
SetMethod ==
  /\ call' = "set_method"
  /\ UNCHANGED <<live, data>>

(* A refused request (spec.md 7), or a release of what is not live,     *)
(* changes no allocation.                                                *)
Refuse ==
  /\ call' \in {"allocate", "zero_allocate", "release", "resize"}
  /\ UNCHANGED <<live, data>>

ANext == Allocate \/ ZeroAllocate \/ Release \/ Resize \/ ReleaseAll \/ SetMethod \/ Refuse

ASpec == AInit /\ [][ANext]_avars
=============================================================================
