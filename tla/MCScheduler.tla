---------------------------- MODULE MCScheduler ----------------------------
(***************************************************************************)
(* Instances of the scheduler for TLC.                                     *)
(***************************************************************************)
EXTENDS SchedulerRefinement, TLC

(* Request ids are interchangeable.                                        *)
ReqSymmetry == Permutations(Reqs)
=============================================================================
