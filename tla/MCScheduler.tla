----------------------------- MODULE MCScheduler -----------------------------
(* TLC instances of Scheduler.                                               *)
EXTENDS Scheduler, TLC

CONSTANTS a, b

\* A tick with two checks, one with one check and one with none.
MixedTicks == <<{a, b}, {b}, {}>>
\* Two checks between ticks without any.
SparseTicks == <<{}, {a, b}, {}>>

MCCheck == Tick \X Config
ProcSymmetry == Permutations(Proc)
==============================================================================
