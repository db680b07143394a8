--------------------------- MODULE MCCheckExecutor ---------------------------
(* TLC instances of CheckExecutor.                                           *)
EXTENDS CheckExecutor, TLC

\* Every profile with every way of running the checks.
EveryBuild == [inline_tasks : BOOLEAN, panic_aborts : BOOLEAN]
==============================================================================
