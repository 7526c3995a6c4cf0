------------------------------ MODULE MCLiveness -----------------------------
(***************************************************************************)
(* Small instances of the two liveness promises for TLC: that of the job   *)
(* queue to its users and that of the stream's jobs to their workers.  A   *)
(* behaviour is one of the queue or one of the stream, chosen with the     *)
(* initial state, and fair to the steps of that one.                       *)
(***************************************************************************)
EXTENDS MCBackgroundJobQueue

CONSTANTS Workers, Payloads, MaxWindow, Lateness, MaxPolls, Part

VARIABLES part, watermarks, versions, journal, requests, revised, polls, pc, task, tx, held,
          outcome

Stream == INSTANCE MarketDataStream WITH job <- task

streamVars == <<watermarks, versions, journal, requests, revised, polls, pc, task, tx, held,
                outcome>>

LiveInit == part \in Part /\ Init /\ Stream!Init

LiveNext ==
    /\ UNCHANGED part
    /\ \/ part = "queue" /\ Next /\ UNCHANGED streamVars
       \/ part = "stream" /\ Stream!Next /\ UNCHANGED vars

LiveSpec ==
    /\ LiveInit
    /\ [][LiveNext]_<<part, vars, streamVars>>
    /\ part = "queue" => Fairness
    /\ part = "stream" => Stream!Fairness

-----------------------------------------------------------------------------
\* MarketDataStream: every poll and replay job ends, none waits for ever for
\* the rows another one has locked.
StreamJobsEnd == part = "stream" => Stream!JobsEnd

\* BackgroundJobQueue: every enqueued job reaches a terminal status.
QueuedJobsFinish == part = "queue" => EveryJobFinishes
=============================================================================
