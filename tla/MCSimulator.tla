---------------------------- MODULE MCSimulator ----------------------------
(***************************************************************************)
(* Constants for checking Simulator with TLC.                             *)
(***************************************************************************)
EXTENDS Simulator

(* The simulator passes no calloc/realloc arguments and no policy of its *)
(* own to malloc_control: those inputs of Heap are empty.               *)
MCNoRequests  == {}
MCNoCalloc    == {}
MCNoMethods   == {}

(* tamanos[i]: 8 is one aligned word; 50 aligns to 56, enough to split  *)
(* off an 8-byte block (56 >= 8 + 40 + 8).                               *)
MCSimSizes == {8, 50}

(* Both builds: the `break` of init_sim line 122 present, and removed.  *)
MCBuilds == BOOLEAN

(* The build as it is in the repository: the loop breaks at once.       *)
MCAsBuilt == {FALSE}
====
