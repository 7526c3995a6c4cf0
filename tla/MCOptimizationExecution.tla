---------------------- MODULE MCOptimizationExecution ----------------------
(* Small instances of the optimization executions for TLC.                 *)
EXTENDS OptimizationExecution, TLC

WorkerSymmetry == Permutations(Worker)
=============================================================================
