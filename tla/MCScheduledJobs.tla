-------------------------- MODULE MCScheduledJobs --------------------------
(***************************************************************************)
(* Instances of ScheduledJobs for TLC: one job of any kind in either       *)
(* edition (jobs share nothing but the start of their process), two        *)
(* expressions and two requests at a time.                                 *)
(***************************************************************************)
EXTENDS ScheduledJobs, TLC

Symmetric == Permutations(Handlers) \cup Permutations(Crons)
=============================================================================
