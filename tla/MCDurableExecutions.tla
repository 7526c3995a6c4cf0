------------------------- MODULE MCDurableExecutions -------------------------
(***************************************************************************)
(* Small instances for TLC of the three executions that live behind a job. *)
(* A behaviour is one of experiments, of walk-forward runs or of           *)
(* optimizations, chosen with the initial state; the queue, the operator,  *)
(* the crashes and the lapsed leases around them are the same.             *)
(***************************************************************************)
EXTENDS ExperimentExecution, TLC

CONSTANT Kind

VARIABLES
    kind,
    spent,    \* fold computations or trial executions spent on each execution
    fold      \* the fold each optimization runner is at

\* The two are taken with what is proved of them.
WalkForward == INSTANCE WalkForwardExecutionProofs WITH
    computed <- spent, TotalFolds <- 3, HardLimit <- 4, MaxLapses <- 1, MaxCrashes <- 2

Optimization == INSTANCE OptimizationExecutionProofs WITH
    executed <- spent, TotalTrials <- 2, TotalFolds <- 2,
    PolicyAttempts <- 3, MaxLapses <- 1, MaxCrashes <- 2

WorkerSymmetry == Permutations(Worker)

KindInit ==
    /\ kind \in Kind
    /\ \/ kind = "experiment" /\ ExecInit /\ spent = << >> /\ fold = << >>
       \/ kind = "walk_forward" /\ WalkForward!ExecInit /\ handed = {} /\ fold = << >>
       \/ kind = "optimization" /\ Optimization!ExecInit /\ handed = {}

KindNext ==
    /\ UNCHANGED kind
    /\ \/ kind = "experiment" /\ ExecNext /\ UNCHANGED <<spent, fold>>
       \/ kind = "walk_forward" /\ WalkForward!ExecNext /\ UNCHANGED <<handed, fold>>
       \/ kind = "optimization" /\ Optimization!ExecNext /\ UNCHANGED handed

KindSpec == KindInit /\ [][KindNext]_<<kind, allVars, spent, fold>>

-----------------------------------------------------------------------------
\* The three SuccessIsBacked: what a succeeded execution or job promises is in
\* the registries, whatever crashes, lapsed leases and retries happened.
EverySuccessIsBacked ==
    CASE kind = "experiment"   -> SuccessIsBacked
      [] kind = "walk_forward" -> WalkForward!SuccessIsBacked
      [] kind = "optimization" -> Optimization!SuccessIsBacked

\* ResumeLosesOneFold and ResumeLosesOneTrial: an attempt repeats at most the
\* one fold or trial it had not recorded.
ResumeLosesOneStep ==
    /\ kind = "walk_forward" => WalkForward!ResumeLosesOneFold
    /\ kind = "optimization" => Optimization!ResumeLosesOneTrial
=============================================================================
