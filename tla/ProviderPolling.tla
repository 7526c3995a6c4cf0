--------------------------- MODULE ProviderPolling ---------------------------
(***************************************************************************)
(* One attempt of a poll job walks the two routes of its watchlist entry:  *)
(* the connection is checked, a request is taken from the provider's token *)
(* bucket, the provider is called, and what it returned is ingested.  The  *)
(* bucket is a database row that all workers share.                        *)
(*                                                                         *)
(* A worker reads its clock before the connection check and hands that     *)
(* time to the bucket, whose row it may have to wait for: MaxDelay bounds  *)
(* the ticks between the two.  A worker that was overtaken while it waited *)
(* sets the row's time back.  Tokens are counted in ticks, TokenTicks of   *)
(* them make one request, so that a tick refills one unit.                 *)
(***************************************************************************)
EXTENDS Integers, Sequences

CONSTANTS Workers,      \* background workers
          Providers,    \* provider_id of each route
          Route,        \* Route[k]: the provider of the k-th route
          Burst,        \* burst_requests of the budget
          TokenTicks,   \* ticks that refill one request
          MaxDelay,     \* ticks between reading the clock and the row lock
          MaxClock      \* bound: the clock

ASSUME PollingAssumption == /\ Burst \in Nat \ {0}
                            /\ TokenTicks \in Nat \ {0}
                            /\ MaxDelay \in Nat
                            /\ MaxClock \in Nat
                            /\ Route \in [1 .. 2 -> Providers]

Failures == {"connection_unavailable", "rate_limited_locally", "provider_failed",
             "no_data", "quality_rejected"}
Outcomes == Failures \cup {"succeeded", "ingestion_failed", "finalization_failed"}

VARIABLES
    clock,
    bucket,     \* bucket[p]: the row of provider p, refilled = -1: no row yet
    grants,     \* grants[p]: the requests to provider p, [at, overtaken]
    overtaken,  \* overtaken[p]: acquisitions that came with a time before the row's
    pc,         \* pc[s]: what worker s does next
    started,    \* started[s]: attempt_started_at of the route that asks for a request
    attempts,   \* attempts[s]: outcomes of the routes of this run
    run         \* the poll run saved last, until another one begins

vars == <<clock, bucket, grants, overtaken, pc, started, attempts, run>>

NoRun == [status |-> "none", retryable |-> FALSE, code |-> "none", attempts |-> <<>>]

Init ==
    /\ clock = 0
    /\ bucket = [p \in Providers |-> [tokens |-> 0, refilled |-> -1]]
    /\ grants = [p \in Providers |-> <<>>]
    /\ overtaken = [p \in Providers |-> 0]
    /\ pc = [s \in Workers |-> "idle"]
    /\ started = [s \in Workers |-> 0]
    /\ attempts = [s \in Workers |-> <<>>]
    /\ run = NoRun

GoTo(s, label) == pc' = [pc EXCEPT ![s] = label]

\* The clock goes on, but no worker waits for a bucket longer than MaxDelay.
Tick ==
    /\ clock < MaxClock
    /\ \A s \in Workers : pc[s] = "budget" => clock - started[s] < MaxDelay
    /\ clock' = clock + 1
    /\ UNCHANGED <<bucket, grants, overtaken, pc, started, attempts, run>>

-----------------------------------------------------------------------------
(* The token bucket.                                                       *)

\* Mutant: the whole burst is available again after every request.
RefilledFull(p, now) == Burst * TokenTicks

\* Tokens of provider p at time now; a row that does not exist yet is created
\* with a full bucket.
Refilled(p, now) ==
    LET elapsed == IF now > bucket[p].refilled THEN now - bucket[p].refilled ELSE 0
        tokens == bucket[p].tokens + elapsed
    IN  IF bucket[p].refilled = -1 \/ tokens > Burst * TokenTicks
        THEN Burst * TokenTicks ELSE tokens

Enough(tokens) == tokens >= TokenTicks

Behind(p, now) == now < bucket[p].refilled

Provider(s) == Route[Len(attempts[s]) + 1]

\* Under the row lock: refill, take one request if there is one, and store the
\* time the worker brought along.
Acquire(s) ==
    LET p == Provider(s)
        tokens == Refilled(p, started[s])
        acquired == Enough(tokens)
    IN  /\ pc[s] = "budget"
        /\ bucket' = [bucket EXCEPT ![p] =
                        [tokens |-> IF acquired THEN tokens - TokenTicks ELSE tokens,
                         refilled |-> started[s]]]
        /\ overtaken' = [overtaken EXCEPT ![p] = IF Behind(p, started[s]) THEN @ + 1 ELSE @]
        /\ IF acquired
           THEN /\ grants' = [grants EXCEPT ![p] =
                                Append(@, [at |-> clock, overtaken |-> overtaken'[p]])]
                /\ GoTo(s, "call")
                /\ UNCHANGED attempts
           ELSE /\ attempts' = [attempts EXCEPT ![s] = Append(@, "rate_limited_locally")]
                /\ GoTo(s, "route")
                /\ UNCHANGED grants
        /\ started' = [started EXCEPT ![s] = 0]
        /\ UNCHANGED <<clock, run>>

-----------------------------------------------------------------------------
(* The routes of one run.                                                  *)

\* A poll job of an active entry starts; the early refusals change nothing.
Begin(s) ==
    /\ pc[s] = "idle"
    /\ run' = NoRun
    /\ GoTo(s, "route")
    /\ UNCHANGED <<clock, bucket, grants, overtaken, started, attempts>>

\* The next route: its connection must still be enabled and healthy.
Connect(s) ==
    /\ pc[s] = "route"
    /\ Len(attempts[s]) < 2
    /\ \/ GoTo(s, "budget") /\ started' = [started EXCEPT ![s] = clock] /\ UNCHANGED attempts
       \/ attempts' = [attempts EXCEPT ![s] = Append(@, "connection_unavailable")]
          /\ UNCHANGED <<pc, started>>
    /\ UNCHANGED <<clock, bucket, grants, overtaken, run>>

Save(s, result) ==
    /\ run' = result
    /\ attempts' = [attempts EXCEPT ![s] = <<>>]
    /\ GoTo(s, "idle")

\* The provider fails, has nothing or returns candles that are refused.
CallFails(s) ==
    /\ pc[s] = "call"
    /\ \E outcome \in {"provider_failed", "no_data", "quality_rejected"} :
         attempts' = [attempts EXCEPT ![s] = Append(@, outcome)]
    /\ GoTo(s, "route")
    /\ UNCHANGED <<clock, bucket, grants, overtaken, started, run>>

\* The candles are ingested and the windows finalized; an error ends the run
\* and is retried with the job.
Ingest(s) ==
    /\ pc[s] = "call"
    /\ \E outcome \in {"succeeded", "ingestion_failed", "finalization_failed"} :
         LET all == Append(attempts[s], outcome)
         IN  Save(s, IF outcome = "succeeded"
                     THEN [status |-> "succeeded", retryable |-> FALSE, code |-> "none",
                           attempts |-> all]
                     ELSE [status |-> "failed", retryable |-> TRUE, code |-> outcome,
                           attempts |-> all])
    /\ UNCHANGED <<clock, bucket, grants, overtaken, started>>

Saw(s, outcomes) == \E i \in DOMAIN attempts[s] : attempts[s][i] \in outcomes
Only(s, outcomes) == \A i \in DOMAIN attempts[s] : attempts[s][i] \in outcomes

\* Mutant: only a failing provider is worth another attempt.
RetryableProviderOnly(s) == Saw(s, {"provider_failed"})

Retryable(s) == Saw(s, {"provider_failed", "rate_limited_locally"})

\* No route is left: nothing was found, or the run has failed.
Exhausted(s) ==
    /\ pc[s] = "route"
    /\ Len(attempts[s]) = 2
    /\ Save(s, IF Only(s, {"no_data"})
               THEN [status |-> "no_data", retryable |-> FALSE, code |-> "none",
                     attempts |-> attempts[s]]
               ELSE [status |-> "failed", retryable |-> Retryable(s),
                     code |-> IF Only(s, {"rate_limited_locally"})
                              THEN "provider_budget_exhausted"
                              ELSE "provider_routes_exhausted",
                     attempts |-> attempts[s]])
    /\ UNCHANGED <<clock, bucket, grants, overtaken, started>>

\* The worker dies; a request it was granted is not given back.
Crash(s) ==
    /\ pc[s] # "idle"
    /\ attempts' = [attempts EXCEPT ![s] = <<>>]
    /\ GoTo(s, "idle")
    /\ started' = [started EXCEPT ![s] = 0]
    /\ UNCHANGED <<clock, bucket, grants, overtaken, run>>

Step(s) == Connect(s) \/ Acquire(s) \/ CallFails(s) \/ Ingest(s) \/ Exhausted(s)

Next == Tick \/ \E s \in Workers : Begin(s) \/ Step(s) \/ Crash(s)

Spec == Init /\ [][Next]_vars

-----------------------------------------------------------------------------
(* Properties.                                                             *)

\* Every variable has its type; a bucket never holds more than its burst and
\* never owes a request.
TypeOK ==
    /\ clock \in 0 .. MaxClock
    /\ bucket \in [Providers -> [tokens : 0 .. Burst * TokenTicks, refilled : -1 .. MaxClock]]
    /\ overtaken \in [Providers -> Nat]
    /\ grants \in [Providers -> Seq([at : 0 .. MaxClock, overtaken : Nat])]
    /\ pc \in [Workers -> {"idle", "route", "budget", "call"}]
    /\ started \in [Workers -> 0 .. MaxClock]
    /\ \A s \in Workers : attempts[s] \in Seq(Outcomes) /\ Len(attempts[s]) <= 2

\* The budget of a provider holds in every interval, whichever workers call it:
\* requests i to j are at most the burst and what the time between them refills.
\* The times are those of the grants, so the wait of request i counts as well; and
\* every acquisition in between that was overtaken while it waited for the row, and
\* set its time back, lets at most one such wait be refilled again (acquire).
WithinBudget ==
    \A p \in Providers : \A i, j \in DOMAIN grants[p] :
        LET first == grants[p][i]
            last == grants[p][j]
        IN  i <= j => (j - i + 1) * TokenTicks
                        <= Burst * TokenTicks + (last.at - first.at)
                             + MaxDelay * (1 + last.overtaken - first.overtaken)

\* The configured budget itself (docs/v0.3/14-durable-watchlist-polling.md:51-55), give
\* or take the one wait of request i: a single worker keeps it, several do not.
ConfiguredBudget ==
    \A p \in Providers : \A i, j \in DOMAIN grants[p] :
        i <= j => (j - i + 1) * TokenTicks
                    <= Burst * TokenTicks + (grants[p][j].at - grants[p][i].at) + MaxDelay

\* A run that met an exhausted local budget is never given up: unless another
\* route delivered, it is stored as a failure that the job queue retries, even
\* when the other route answered that there is nothing (run).
BudgetExhaustionIsRetried ==
    /\ run.status # "succeeded"
    /\ \E i \in DOMAIN run.attempts : run.attempts[i] = "rate_limited_locally"
    => run.status = "failed" /\ run.retryable
=============================================================================
