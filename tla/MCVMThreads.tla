---------------------------- MODULE MCVMThreads ----------------------------
(***************************************************************************)
(* Model checking of VMThreads.  Threads are numbered in the order of the   *)
(* list and ports by their semaphore ids, so only the objects are           *)
(* interchangeable.                                                         *)
(***************************************************************************)
EXTENDS VMThreads, TLC

ObjectSymmetry == Permutations(Objects)
=============================================================================
