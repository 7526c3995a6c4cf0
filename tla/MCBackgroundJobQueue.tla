------------------------ MODULE MCBackgroundJobQueue ------------------------
(* Small instances of the job queue for TLC.                               *)
EXTENDS BackgroundJobQueue, TLC

\* One tick of back-off before every automatic retry.
MCRetryDelays == [a \in 1..(PolicyAttempts - 1) |-> 1]

WorkerSymmetry == Permutations(Worker)
=============================================================================
