------------------------ MODULE PollingRetentionProofs -----------------------
(***************************************************************************)
(* What is proved of the market data that is polled and later purged.      *)
(*                                                                         *)
(* The request budget, for any number of workers and providers, any budget *)
(* and any clock, however long a worker waits for the bucket's row after   *)
(* it has read the clock: the tokens that are left and the requests        *)
(* granted since any moment are together at most the burst, what has been  *)
(* refilled since, and one longest wait for every worker that was          *)
(* overtaken while it waited.  One worker alone is never overtaken.  That  *)
(* every exhausted budget is retried holds as well.                        *)
(*                                                                         *)
(* The schedule of a watchlist entry, for any number of schedulers and     *)
(* operators: until an operator writes over a commit that fell into its    *)
(* call, an active entry is never due before it was last changed, and      *)
(* every job was enqueued by then.                                         *)
(*                                                                         *)
(* The purge, for any number of events, any retention times and any batch  *)
(* limit.  A hold stops every purge: holds are only changed while none is  *)
(* under way, and none starts beside a hold.  The lineage of a replay      *)
(* still to come and the newest window stay: neither is a candidate when a *)
(* batch is selected, and no job that runs between the selection and the   *)
(* deletes makes a row of the batch part of them.                          *)
(***************************************************************************)
EXTENDS ProviderPolling, WatchlistSchedule, MarketDataRetention, TLAPS

\* The saved runs.
Codes == {"none", "provider_budget_exhausted", "provider_routes_exhausted",
          "ingestion_failed", "finalization_failed"}
Runs == [status : {"none", "succeeded", "failed", "no_data"}, retryable : BOOLEAN,
         code : Codes, attempts : Seq(Outcomes)]

\* A granted request.
Grants == [at : 0 .. MaxClock, overtaken : Nat]

\* A worker that asks for a request, or has been granted one, has a route left.
RouteLeft ==
    \A s \in Workers : pc[s] \in {"budget", "call"} => Len(attempts[s]) < 2

\* What the type invariant leaves open of the workers' variables.
WorkersTyped == attempts \in [Workers -> Seq(Outcomes)] /\ run \in Runs

\* The inductive invariant of the control flow.
PollInv == TypeOK /\ WorkersTyped /\ RouteLeft /\ BudgetExhaustionIsRetried

-----------------------------------------------------------------------------
(* The bucket.                                                             *)

\* A refilled bucket has between nothing and its burst.
LEMMA RefilledType ==
    ASSUME TypeOK, NEW p \in Providers, NEW time \in 0 .. MaxClock
    PROVE  /\ Refilled(p, time) \in 0 .. Burst * TokenTicks
           /\ bucket[p].refilled # -1 /\ bucket[p].refilled <= time =>
                 Refilled(p, time) <= bucket[p].tokens + (time - bucket[p].refilled)
<1> DEFINE full == Burst * TokenTicks
           b == bucket[p]
<1>1. full \in Nat
  BY PollingAssumption
<1>2. b.tokens \in 0 .. full /\ b.refilled \in -1 .. MaxClock /\ MaxClock \in Nat
  BY PollingAssumption DEF TypeOK
<1> HIDE DEF full
<1>3. QED BY <1>1, <1>2 DEF Refilled, full

\* The provider of a worker that asks for a request.
LEMMA ProviderType ==
    ASSUME TypeOK, RouteLeft, NEW s \in Workers, pc[s] = "budget"
    PROVE  Provider(s) \in Providers
<1>1. attempts[s] \in Seq(Outcomes) /\ Len(attempts[s]) < 2
  BY DEF TypeOK, RouteLeft
<1>2. Len(attempts[s]) + 1 \in 1 .. 2
  BY <1>1
<1>3. QED BY <1>2, PollingAssumption DEF Provider

-----------------------------------------------------------------------------
(* The control flow of a worker.                                           *)

\* Initially no bucket has a row and no run was saved.
LEMMA PollInit == Init => PollInv
<1> SUFFICES ASSUME Init PROVE PollInv
  OBVIOUS
<1>1. 0 \in 0 .. MaxClock /\ 0 \in 0 .. Burst * TokenTicks /\ -1 \in -1 .. MaxClock
  BY PollingAssumption
<1>2. TypeOK /\ RouteLeft
  BY <1>1 DEF Init, TypeOK, RouteLeft
<1>3. NoRun \in Runs /\ NoRun.attempts = <<>> /\ <<>> \in Seq(Outcomes)
  <2>1. <<>> \in Seq(Outcomes)
    OBVIOUS
  <2> DEFINE none == <<>>
  <2> HIDE DEF none
  <2>2. none \in Seq(Outcomes)
    BY <2>1 DEF none
  <2>3. [status |-> "none", retryable |-> FALSE, code |-> "none", attempts |-> none] \in Runs
    BY <2>2 DEF Runs, Codes
  <2>4. NoRun.attempts = <<>>
    BY DEF NoRun
  <2>5. QED BY <2>1, <2>3, <2>4 DEF NoRun, none
<1>4. WorkersTyped
  BY <1>3 DEF Init, WorkersTyped
<1>5. BudgetExhaustionIsRetried
  BY <1>3 DEF Init, BudgetExhaustionIsRetried
<1>6. QED BY <1>2, <1>4, <1>5 DEF PollInv

\* The clock.
LEMMA PollTick ==
    ASSUME PollInv, Tick PROVE PollInv'
<1>1. clock + 1 \in 0 .. MaxClock
  BY PollingAssumption DEF Tick, PollInv, TypeOK
<1>2. QED
  BY <1>1 DEF Tick, PollInv, TypeOK, WorkersTyped, RouteLeft, BudgetExhaustionIsRetried

Labels == {"idle", "route", "budget", "call"}
AttemptsTyped == \A s \in Workers : attempts[s] \in Seq(Outcomes) /\ Len(attempts[s]) <= 2

\* A route ends with an outcome.
LEMMA AppendTyped ==
    ASSUME PollInv, NEW s \in Workers, NEW o \in Outcomes, Len(attempts[s]) < 2,
           attempts' = [attempts EXCEPT ![s] = Append(@, o)],
           GoTo(s, "route") \/ (pc[s] = "route" /\ pc' = pc), run' = run
    PROVE  /\ AttemptsTyped' /\ WorkersTyped' /\ RouteLeft'
           /\ pc' \in [Workers -> Labels]
<1> DEFINE q == Append(attempts[s], o)
<1>1. attempts[s] \in Seq(Outcomes)
  BY DEF PollInv, WorkersTyped
<1>2. q \in Seq(Outcomes) /\ Len(q) <= 2
  BY <1>1
<1> HIDE DEF q
<1>3. attempts' = [attempts EXCEPT ![s] = q]
  BY DEF q
<1>4. AttemptsTyped'
  BY <1>2, <1>3 DEF PollInv, TypeOK, WorkersTyped, AttemptsTyped
<1>5. WorkersTyped'
  BY <1>2, <1>3 DEF PollInv, WorkersTyped
<1>6. pc' \in [Workers -> Labels]
  BY DEF PollInv, TypeOK, GoTo, Labels
<1>7. RouteLeft'
  BY <1>3 DEF PollInv, TypeOK, WorkersTyped, RouteLeft, GoTo
<1>8. QED BY <1>4, <1>5, <1>6, <1>7

\* A run ends.
LEMMA ResetTyped ==
    ASSUME PollInv, NEW s \in Workers, attempts' = [attempts EXCEPT ![s] = <<>>],
           GoTo(s, "idle"), run' \in Runs
    PROVE  /\ AttemptsTyped' /\ WorkersTyped' /\ RouteLeft'
           /\ pc' \in [Workers -> Labels]
<1> DEFINE q == <<>>
<1>1. q \in Seq(Outcomes) /\ Len(q) <= 2
  OBVIOUS
<1> HIDE DEF q
<1>2. attempts' = [attempts EXCEPT ![s] = q]
  BY DEF q
<1>3. AttemptsTyped'
  BY <1>1, <1>2 DEF PollInv, TypeOK, WorkersTyped, AttemptsTyped
<1>4. WorkersTyped'
  BY <1>1, <1>2 DEF PollInv, WorkersTyped
<1>5. pc' \in [Workers -> Labels]
  BY DEF PollInv, TypeOK, GoTo, Labels
<1>6. RouteLeft'
  BY <1>2 DEF PollInv, TypeOK, WorkersTyped, RouteLeft, GoTo
<1>7. QED BY <1>3, <1>4, <1>5, <1>6

\* A request is granted, or the route is given up.
LEMMA PollAcquire ==
    ASSUME PollInv, NEW s \in Workers, Acquire(s) PROVE PollInv'
<1> DEFINE p == Provider(s)
           tokens == Refilled(p, started[s])
           full == Burst * TokenTicks
           left == IF Enough(tokens) THEN tokens - TokenTicks ELSE tokens
<1>1. p \in Providers /\ pc[s] = "budget"
  BY ProviderType DEF Acquire, PollInv
<1>2. started[s] \in 0 .. MaxClock /\ clock \in 0 .. MaxClock
  BY DEF PollInv, TypeOK
<1>3. tokens \in 0 .. full
  BY <1>1, <1>2, RefilledType DEF PollInv
<1>4. full \in Nat /\ TokenTicks \in Nat /\ MaxClock \in Nat
  BY PollingAssumption
<1> HIDE DEF tokens, full
<1>5. left \in 0 .. full
  BY <1>3, <1>4 DEF Enough
<1>6. bucket' = [bucket EXCEPT ![p] = [tokens |-> left, refilled |-> started[s]]]
  BY DEF Acquire, tokens
<1> HIDE DEF p, left
<1>7. bucket' \in [Providers -> [tokens : 0 .. full, refilled : -1 .. MaxClock]]
  <2>1. [tokens |-> left, refilled |-> started[s]]
           \in [tokens : 0 .. full, refilled : -1 .. MaxClock]
    BY <1>2, <1>4, <1>5
  <2>2. QED BY <1>6, <2>1 DEF PollInv, TypeOK, full
<1>8. /\ clock' = clock /\ run' = run
      /\ started' \in [Workers -> 0 .. MaxClock] /\ overtaken' \in [Providers -> Nat]
  <2>1. 0 \in 0 .. MaxClock /\ started' = [started EXCEPT ![s] = 0]
    BY <1>4 DEF Acquire
  <2>2. started' \in [Workers -> 0 .. MaxClock]
    BY <2>1 DEF PollInv, TypeOK
  <2>3. /\ overtaken' = [overtaken EXCEPT ![p] = IF Behind(p, started[s]) THEN @ + 1 ELSE @]
        /\ clock' = clock /\ run' = run
    BY DEF Acquire, p
  <2>4. overtaken' \in [Providers -> Nat]
    BY <1>1, <2>3 DEF PollInv, TypeOK
  <2>5. QED BY <2>2, <2>3, <2>4
<1>9. CASE /\ grants' = [grants EXCEPT ![p] =
                           Append(@, [at |-> clock, overtaken |-> overtaken'[p]])]
           /\ GoTo(s, "call") /\ attempts' = attempts
  <2>1. grants' \in [Providers -> Seq(Grants)]
    <3> DEFINE new == [at |-> clock, overtaken |-> overtaken'[p]]
    <3>1. new \in Grants
      BY <1>1, <1>2, <1>8 DEF Grants, p
    <3>2. grants[p] \in Seq(Grants) /\ grants \in [Providers -> Seq(Grants)]
      BY <1>1 DEF PollInv, TypeOK, Grants
    <3> HIDE DEF new
    <3>3. Append(grants[p], new) \in Seq(Grants)
      BY <3>1, <3>2
    <3>4. QED BY <1>9, <3>2, <3>3 DEF new
  <2>2. TypeOK'
    <3>1. AttemptsTyped' /\ pc' \in [Workers -> Labels]
      BY <1>9 DEF PollInv, TypeOK, GoTo, Labels, AttemptsTyped
    <3>2. QED BY <1>2, <1>7, <1>8, <2>1, <3>1, Zenon DEF TypeOK, AttemptsTyped, Labels, Grants, full
  <2>3. WorkersTyped' /\ BudgetExhaustionIsRetried'
    BY <1>8, <1>9 DEF PollInv, WorkersTyped, BudgetExhaustionIsRetried
  <2>4. RouteLeft'
    BY <1>1, <1>9 DEF PollInv, TypeOK, RouteLeft, GoTo
  <2>5. QED BY <2>2, <2>3, <2>4 DEF PollInv
<1>10. CASE /\ attempts' = [attempts EXCEPT ![s] = Append(@, "rate_limited_locally")]
            /\ GoTo(s, "route") /\ grants' = grants
  <2>1. TypeOK' /\ WorkersTyped' /\ RouteLeft'
    <3>1. pc[s] \in {"route", "budget", "call"} /\ Len(attempts[s]) < 2
      BY <1>1 DEF PollInv, RouteLeft
    <3>2. "rate_limited_locally" \in Outcomes
      BY DEF Outcomes, Failures
    <3>3. AttemptsTyped' /\ WorkersTyped' /\ RouteLeft' /\ pc' \in [Workers -> Labels]
      BY <1>8, <1>10, <3>1, <3>2, AppendTyped
    <3>4. clock' \in 0 .. MaxClock /\ grants' \in [Providers -> Seq(Grants)]
      BY <1>8, <1>10 DEF PollInv, TypeOK, Grants
    <3>5. QED BY <1>7, <1>8, <3>3, <3>4, Zenon DEF Grants, TypeOK, AttemptsTyped, Labels, full
  <2>2. BudgetExhaustionIsRetried'
    BY <1>8 DEF PollInv, BudgetExhaustionIsRetried
  <2>3. QED BY <2>1, <2>2 DEF PollInv
<1>11. QED BY <1>9, <1>10 DEF Acquire, p

\* Of the remaining steps none touches the clock or a bucket.
LEMMA PollTyped ==
    ASSUME PollInv, UNCHANGED <<clock, bucket, grants, overtaken>>,
           started' \in [Workers -> 0 .. MaxClock], pc' \in [Workers -> Labels], AttemptsTyped'
    PROVE  TypeOK'
<1>1. /\ clock' \in 0 .. MaxClock /\ grants' \in [Providers -> Seq(Grants)]
      /\ overtaken' \in [Providers -> Nat]
      /\ bucket' \in [Providers -> [tokens : 0 .. Burst * TokenTicks, refilled : -1 .. MaxClock]]
  BY DEF PollInv, TypeOK, Grants
<1>2. QED BY <1>1, Zenon DEF TypeOK, AttemptsTyped, Labels, Grants

\* The attempts and labels of a state that satisfies the invariant.
LEMMA PollFacts ==
    ASSUME PollInv, NEW s \in Workers
    PROVE  /\ attempts[s] \in Seq(Outcomes) /\ Len(attempts[s]) <= 2
           /\ AttemptsTyped /\ pc \in [Workers -> Labels]
           /\ clock \in 0 .. MaxClock /\ started \in [Workers -> 0 .. MaxClock]
BY DEF PollInv, TypeOK, AttemptsTyped, Labels

\* A run starts.
LEMMA PollBegin ==
    ASSUME PollInv, NEW s \in Workers, Begin(s) PROVE PollInv'
<1>1. pc' \in [Workers -> Labels] /\ started' = started /\ attempts' = attempts
  BY PollFacts DEF Begin, GoTo, Labels
<1>2. TypeOK'
  BY <1>1, PollFacts, PollTyped DEF Begin, AttemptsTyped
<1>3. NoRun \in Runs /\ NoRun.attempts = <<>>
  <2> DEFINE none == <<>>
  <2>1. none \in Seq(Outcomes)
    OBVIOUS
  <2> HIDE DEF none
  <2>2. [status |-> "none", retryable |-> FALSE, code |-> "none", attempts |-> none] \in Runs
    BY <2>1 DEF Runs, Codes
  <2>3. QED BY <2>2 DEF NoRun, none
<1>4. WorkersTyped'
  BY <1>1, <1>3 DEF Begin, PollInv, WorkersTyped
<1>5. RouteLeft'
  BY <1>1 DEF Begin, PollInv, TypeOK, RouteLeft, GoTo
<1>6. BudgetExhaustionIsRetried'
  BY <1>3 DEF Begin, BudgetExhaustionIsRetried
<1>7. QED BY <1>2, <1>4, <1>5, <1>6 DEF PollInv

\* The next route.
LEMMA PollConnect ==
    ASSUME PollInv, NEW s \in Workers, Connect(s) PROVE PollInv'
<1>1. started' \in [Workers -> 0 .. MaxClock]
  BY PollFacts DEF Connect
<1>2. BudgetExhaustionIsRetried'
  BY DEF Connect, PollInv, BudgetExhaustionIsRetried
<1>3. CASE GoTo(s, "budget") /\ attempts' = attempts
  <2>1. pc' \in [Workers -> Labels] /\ AttemptsTyped'
    BY <1>3, PollFacts DEF GoTo, Labels, AttemptsTyped
  <2>2. TypeOK'
    BY <1>1, <2>1, PollTyped DEF Connect
  <2>3. WorkersTyped' /\ RouteLeft'
    BY <1>3 DEF Connect, PollInv, TypeOK, WorkersTyped, RouteLeft, GoTo
  <2>4. QED BY <1>2, <2>2, <2>3 DEF PollInv
<1>4. CASE /\ attempts' = [attempts EXCEPT ![s] = Append(@, "connection_unavailable")]
           /\ pc' = pc
  <2>1. "connection_unavailable" \in Outcomes
    BY DEF Outcomes, Failures
  <2>2. /\ AttemptsTyped' /\ WorkersTyped' /\ RouteLeft' /\ pc' \in [Workers -> Labels]
    BY <1>4, <2>1, AppendTyped DEF Connect
  <2>3. TypeOK'
    BY <1>1, <2>2, PollTyped DEF Connect
  <2>4. QED BY <1>2, <2>2, <2>3 DEF PollInv
<1>5. QED BY <1>3, <1>4 DEF Connect

\* The provider has nothing to offer.
LEMMA PollCallFails ==
    ASSUME PollInv, NEW s \in Workers, CallFails(s) PROVE PollInv'
<1>1. PICK o \in {"provider_failed", "no_data", "quality_rejected"} :
        attempts' = [attempts EXCEPT ![s] = Append(@, o)]
  BY DEF CallFails
<1>2. o \in Outcomes /\ Len(attempts[s]) < 2
  BY DEF CallFails, Outcomes, Failures, PollInv, RouteLeft
<1>3. AttemptsTyped' /\ WorkersTyped' /\ RouteLeft' /\ pc' \in [Workers -> Labels]
  BY <1>1, <1>2, AppendTyped DEF CallFails
<1>4. TypeOK'
  BY <1>3, PollFacts, PollTyped DEF CallFails
<1>5. BudgetExhaustionIsRetried'
  BY DEF CallFails, PollInv, BudgetExhaustionIsRetried
<1>6. QED BY <1>3, <1>4, <1>5 DEF PollInv

\* A run is saved: with a success, or with a result that keeps the promise.
LEMMA PollSave ==
    ASSUME PollInv, NEW s \in Workers, NEW r \in Runs, Save(s, r),
           UNCHANGED <<clock, bucket, grants, overtaken, started>>,
           \/ r.status = "succeeded"
           \/ r.status = "failed" /\ r.retryable
           \/ \A i \in DOMAIN r.attempts : r.attempts[i] # "rate_limited_locally"
    PROVE  PollInv'
<1>1. run' = r /\ run' \in Runs
  BY DEF Save
<1>2. AttemptsTyped' /\ WorkersTyped' /\ RouteLeft' /\ pc' \in [Workers -> Labels]
  BY <1>1, ResetTyped DEF Save
<1>3. TypeOK'
  BY <1>2, PollFacts, PollTyped
<1>4. BudgetExhaustionIsRetried'
  BY <1>1 DEF BudgetExhaustionIsRetried
<1>5. QED BY <1>2, <1>3, <1>4 DEF PollInv

\* The delivered candles are ingested, or the run is to be retried.
LEMMA PollIngest ==
    ASSUME PollInv, NEW s \in Workers, Ingest(s) PROVE PollInv'
<1>1. PICK o \in {"succeeded", "ingestion_failed", "finalization_failed"} :
        LET all == Append(attempts[s], o)
        IN  Save(s, IF o = "succeeded"
                    THEN [status |-> "succeeded", retryable |-> FALSE, code |-> "none",
                          attempts |-> all]
                    ELSE [status |-> "failed", retryable |-> TRUE, code |-> o,
                          attempts |-> all])
  BY DEF Ingest
<1> DEFINE all == Append(attempts[s], o)
<1>2. all \in Seq(Outcomes)
  BY PollFacts DEF Outcomes
<1>3. UNCHANGED <<clock, bucket, grants, overtaken, started>>
  BY DEF Ingest
<1> HIDE DEF all
<1>4. CASE o = "succeeded"
  <2> DEFINE r == [status |-> "succeeded", retryable |-> FALSE, code |-> "none", attempts |-> all]
  <2>1. r \in Runs /\ r.status = "succeeded"
    BY <1>2 DEF Runs, Codes
  <2>2. Save(s, r)
    BY <1>1, <1>4 DEF all
  <2> HIDE DEF r
  <2>3. QED BY <1>3, <2>1, <2>2, PollSave
<1>5. CASE o # "succeeded"
  <2> DEFINE r == [status |-> "failed", retryable |-> TRUE, code |-> o, attempts |-> all]
  <2>1. r \in Runs /\ r.status = "failed" /\ r.retryable
    BY <1>2, <1>5 DEF Runs, Codes
  <2>2. Save(s, r)
    BY <1>1, <1>5 DEF all
  <2> HIDE DEF r
  <2>3. QED BY <1>3, <2>1, <2>2, PollSave
<1>6. QED BY <1>4, <1>5

\* No route is left: a run that met the budget was not only told that there is
\* nothing, and is retried.
LEMMA PollExhausted ==
    ASSUME PollInv, NEW s \in Workers, Exhausted(s) PROVE PollInv'
<1> DEFINE all == attempts[s]
           code == IF Only(s, {"rate_limited_locally"}) THEN "provider_budget_exhausted"
                                                        ELSE "provider_routes_exhausted"
<1>1. all \in Seq(Outcomes)
  BY PollFacts
<1>2. UNCHANGED <<clock, bucket, grants, overtaken, started>>
  BY DEF Exhausted
<1>3. CASE Only(s, {"no_data"})
  <2> DEFINE r == [status |-> "no_data", retryable |-> FALSE, code |-> "none", attempts |-> all]
  <2>1. Save(s, r)
    BY <1>3 DEF Exhausted
  <2>2. \A i \in DOMAIN all : all[i] # "rate_limited_locally"
    BY <1>3 DEF Only
  <2> HIDE DEF all
  <2>3. r \in Runs /\ r.attempts = all
    BY <1>1 DEF Runs, Codes
  <2> HIDE DEF r
  <2>4. QED BY <1>2, <2>1, <2>2, <2>3, PollSave
<1>4. CASE ~Only(s, {"no_data"})
  <2> DEFINE b == Retryable(s)
             r == [status |-> "failed", retryable |-> b, code |-> code, attempts |-> all]
  <2>1. Save(s, r)
    BY <1>4 DEF Exhausted
  <2>2. b \in BOOLEAN
    BY DEF Retryable, Saw
  <2>3. b \/ \A i \in DOMAIN all : all[i] # "rate_limited_locally"
    BY DEF Retryable, Saw
  <2>4. code \in Codes
    BY DEF Codes
  <2> HIDE DEF all, b, code
  <2>5. r \in Runs /\ r.attempts = all /\ r.status = "failed" /\ r.retryable = b
    BY <1>1, <2>2, <2>4 DEF Runs
  <2> HIDE DEF r
  <2>6. QED BY <1>2, <2>1, <2>3, <2>5, PollSave
<1>5. QED BY <1>3, <1>4

\* A worker dies.
LEMMA PollCrash ==
    ASSUME PollInv, NEW s \in Workers, Crash(s) PROVE PollInv'
<1>1. /\ run' = run /\ run \in Runs
      /\ 0 \in 0 .. MaxClock /\ started' = [started EXCEPT ![s] = 0]
  BY PollingAssumption DEF Crash, PollInv, WorkersTyped
<1>2. AttemptsTyped' /\ WorkersTyped' /\ RouteLeft' /\ pc' \in [Workers -> Labels]
  BY <1>1, ResetTyped DEF Crash
<1>3. TypeOK'
  BY <1>1, <1>2, PollFacts, PollTyped DEF Crash
<1>4. BudgetExhaustionIsRetried'
  BY <1>1 DEF PollInv, BudgetExhaustionIsRetried
<1>5. QED BY <1>2, <1>3, <1>4 DEF PollInv

\* The control-flow invariant is inductive.
LEMMA PollNext == PollInv /\ [Next]_vars => PollInv'
<1> SUFFICES ASSUME PollInv, [Next]_vars PROVE PollInv'
  OBVIOUS
<1>1. CASE UNCHANGED vars
  BY <1>1 DEF vars, PollInv, TypeOK, WorkersTyped, RouteLeft, BudgetExhaustionIsRetried
<1>2. QED
  BY <1>1, PollTick, PollBegin, PollConnect, PollAcquire, PollCallFails, PollIngest,
     PollExhausted, PollCrash DEF Next, Step

\* The control-flow invariant holds in every state.
LEMMA PollInvariance == Spec => []PollInv
BY PollInit, PollNext, PTL DEF Spec

\* Type correctness: no bucket holds more than its burst or owes a request, and
\* no run tries more than its two routes.
THEOREM PollingTypeCorrect == Spec => []TypeOK
<1>1. PollInv => TypeOK
  BY DEF PollInv
<1>2. QED BY <1>1, PollInvariance, PTL

\* A run that met an exhausted budget, and that no other route saved, is stored
\* as a failure that the job queue retries.
THEOREM ExhaustedBudgetsAreRetried == Spec => []BudgetExhaustionIsRetried
<1>1. PollInv => BudgetExhaustionIsRetried
  BY DEF PollInv
<1>2. QED BY <1>1, PollInvariance, PTL

-----------------------------------------------------------------------------
(* The budget.                                                             *)

\* A worker that asks the bucket brings a time that is at most MaxDelay old.
ClocksRecent ==
    \A s \in Workers : pc[s] = "budget" => /\ started[s] <= clock
                                           /\ clock <= started[s] + MaxDelay

\* What the waits for the row may have let refill twice since request g.
Allowance(g, k) == MaxDelay * (1 + k - g.overtaken)

\* Since the i-th request of a provider was granted, the tokens spent on it and
\* on the later ones, and those that are left, come from one burst and from what
\* the time since then has refilled, part of it twice if the row was set back.
TokensAccounted ==
    \A p \in Providers :
        /\ bucket[p].refilled <= clock
        /\ bucket[p].refilled = -1 => Len(grants[p]) = 0
        /\ \A i \in 1 .. Len(grants[p]) :
              (Len(grants[p]) - i + 1) * TokenTicks + bucket[p].tokens
                <= Burst * TokenTicks + (bucket[p].refilled - grants[p][i].at)
                     + Allowance(grants[p][i], overtaken[p])

BudgetInv == ClocksRecent /\ TokensAccounted /\ WithinBudget

\* One request more costs the ticks of one request.
LEMMA OneMore ==
    ASSUME NEW n \in Int PROVE (n + 1) * TokenTicks = n * TokenTicks + TokenTicks
BY PollingAssumption

\* One worker more that was overtaken allows for one wait more; none allow for one.
LEMMA AllowanceGrows ==
    ASSUME NEW g \in Grants, NEW k \in Nat
    PROVE  /\ Allowance(g, k) \in Int /\ Allowance(g, k + 1) = Allowance(g, k) + MaxDelay
           /\ k = g.overtaken => Allowance(g, k) = MaxDelay
<1> DEFINE x == 1 + k - g.overtaken
<1>1. x \in Int /\ 1 + (k + 1) - g.overtaken = x + 1 /\ MaxDelay \in Nat
      /\ (k = g.overtaken => x = 1)
  BY PollingAssumption DEF Grants
<1> HIDE DEF x
<1>2. MaxDelay * (x + 1) = MaxDelay * x + MaxDelay /\ MaxDelay * x \in Int /\ MaxDelay * 1 = MaxDelay
  BY <1>1
<1>3. QED BY <1>1, <1>2 DEF Allowance, x

\* Initially nothing was granted.
LEMMA BudgetInit == Init => BudgetInv
BY DEF Init, BudgetInv, ClocksRecent, TokensAccounted, WithinBudget

\* Nobody waits for more than MaxDelay while the clock goes on.
LEMMA BudgetTick ==
    ASSUME PollInv, BudgetInv, Tick PROVE BudgetInv'
<1>1. clock \in Nat /\ clock' = clock + 1 /\ MaxDelay \in Nat
  BY PollingAssumption DEF Tick, PollInv, TypeOK
<1>2. ASSUME NEW s \in Workers PROVE started[s] \in Nat
  <2>1. started \in [Workers -> 0 .. MaxClock]
    BY PollFacts
  <2>2. QED BY <2>1, PollingAssumption
<1>3. ClocksRecent' /\ WithinBudget'
  BY <1>1, <1>2 DEF Tick, ClocksRecent, BudgetInv, WithinBudget
<1>4. TokensAccounted'
  <2> SUFFICES ASSUME NEW p \in Providers PROVE bucket[p].refilled <= clock + 1
    BY <1>1 DEF Tick, BudgetInv, TokensAccounted, Allowance
  <2>1. bucket[p].refilled \in -1 .. MaxClock /\ bucket[p].refilled <= clock
    BY DEF PollInv, TypeOK, BudgetInv, TokensAccounted
  <2>2. QED BY <1>1, <2>1, PollingAssumption
<1>5. QED BY <1>3, <1>4 DEF BudgetInv

\* A worker that refills the bucket leaves every account balanced, also when it sets
\* the row back, and a new request is paid with the tokens that were there.
LEMMA BudgetAcquire ==
    ASSUME PollInv, BudgetInv, NEW s \in Workers, Acquire(s)
    PROVE  BudgetInv'
<1> DEFINE p == Provider(s)
           time == started[s]
           tokens == Refilled(p, time)
           full == Burst * TokenTicks
           left == IF Enough(tokens) THEN tokens - TokenTicks ELSE tokens
           n == Len(grants[p])
           k == IF Behind(p, time) THEN overtaken[p] + 1 ELSE overtaken[p]
<1>1. p \in Providers /\ pc[s] = "budget"
  BY ProviderType DEF Acquire, PollInv
<1>2. /\ clock \in 0 .. MaxClock /\ MaxClock \in Nat /\ TokenTicks \in Nat /\ full \in Nat
      /\ MaxDelay \in Nat /\ time \in 0 .. MaxClock /\ overtaken[p] \in Nat /\ k \in Nat
      /\ grants[p] \in Seq(Grants) /\ n \in Nat
      /\ bucket[p].tokens \in 0 .. full /\ bucket[p].refilled \in -1 .. MaxClock
  <2>1. clock \in 0 .. MaxClock /\ time \in 0 .. MaxClock
    BY PollFacts
  <2>2. MaxClock \in Nat /\ TokenTicks \in Nat /\ full \in Nat /\ MaxDelay \in Nat
    BY PollingAssumption
  <2>3. /\ overtaken \in [Providers -> Nat] /\ grants \in [Providers -> Seq(Grants)]
        /\ bucket \in [Providers -> [tokens : 0 .. full, refilled : -1 .. MaxClock]]
    BY DEF PollInv, TypeOK, Grants
  <2> HIDE DEF full, p, time
  <2>4. grants[p] \in Seq(Grants) /\ overtaken[p] \in Nat
    BY <1>1, <2>3
  <2>5. bucket[p].tokens \in 0 .. full /\ bucket[p].refilled \in -1 .. MaxClock
    BY <1>1, <2>3
  <2>6. n \in Nat /\ k \in Nat
    BY <2>4
  <2>7. QED BY <2>1, <2>2, <2>4, <2>5, <2>6
<1>3. time <= clock /\ clock <= time + MaxDelay /\ bucket[p].refilled <= clock
  BY <1>1 DEF BudgetInv, ClocksRecent, TokensAccounted
<1>4. /\ tokens \in 0 .. full
      /\ bucket[p].refilled # -1 =>
           tokens <= bucket[p].tokens
                       + (IF Behind(p, time) THEN 0 ELSE time - bucket[p].refilled)
  <2>1. tokens \in 0 .. full
    BY <1>1, <1>2, RefilledType DEF PollInv
  <2>2. QED BY <1>2, <2>1 DEF Refilled, Behind
<1>5. /\ bucket' = [bucket EXCEPT ![p] = [tokens |-> left, refilled |-> time]]
      /\ overtaken' = [overtaken EXCEPT ![p] = k]
      /\ clock' = clock /\ started' = [started EXCEPT ![s] = 0]
  BY DEF Acquire
<1>6. \A i \in 1 .. n :
        /\ grants[p][i] \in Grants
        /\ (n - i + 1) * TokenTicks + tokens
             <= full + (time - grants[p][i].at) + Allowance(grants[p][i], k)
  <2> SUFFICES ASSUME NEW i \in 1 .. n
               PROVE  /\ grants[p][i] \in Grants
                      /\ (n - i + 1) * TokenTicks + tokens
                           <= full + (time - grants[p][i].at) + Allowance(grants[p][i], k)
    OBVIOUS
  <2> DEFINE spent == (n - i + 1) * TokenTicks
             g == grants[p][i]
             old == Allowance(g, overtaken[p])
  <2>1. g \in Grants
    BY <1>2
  <2>2. spent + bucket[p].tokens <= full + (bucket[p].refilled - g.at) + old
    BY <1>1, <1>2 DEF BudgetInv, TokensAccounted
  <2>3. spent \in Int
    BY <1>2
  <2>4. old \in Int /\ Allowance(g, k) = IF Behind(p, time) THEN old + MaxDelay ELSE old
    BY <1>2, <2>1, AllowanceGrows
  <2>5. bucket[p].refilled # -1
    BY <1>1, <1>2 DEF BudgetInv, TokensAccounted
  <2>6. g.at \in Int
    BY <2>1 DEF Grants
  <2> HIDE DEF spent, tokens, full, n, p, k, g, old, time
  <2>7. spent + tokens <= full + (time - g.at) + Allowance(g, k)
    <3>1. /\ tokens \in Int /\ time \in Int /\ clock \in Int /\ full \in Int /\ MaxDelay \in Int
          /\ bucket[p].tokens \in Int /\ bucket[p].refilled \in Int
      BY <1>2, <1>4
    <3>2. CASE Behind(p, time)
      <4>1. bucket[p].refilled <= time + MaxDelay /\ tokens <= bucket[p].tokens
        BY <1>3, <1>4, <2>5, <3>1, <3>2
      <4>2. QED BY <2>2, <2>3, <2>4, <2>6, <3>1, <3>2, <4>1
    <3>3. CASE ~Behind(p, time)
      <4>1. tokens <= bucket[p].tokens + (time - bucket[p].refilled)
        BY <1>4, <2>5, <3>3
      <4>2. QED BY <2>2, <2>3, <2>4, <2>6, <3>1, <3>3, <4>1
    <3>4. QED BY <3>2, <3>3
  <2>8. QED BY <2>1, <2>7 DEF spent, g
<1>7. /\ \A q \in Providers : bucket'[q] = IF q = p THEN [tokens |-> left, refilled |-> time]
                                                    ELSE bucket[q]
      /\ \A q \in Providers : overtaken'[q] = IF q = p THEN k ELSE overtaken[q]
  BY <1>1, <1>5 DEF PollInv, TypeOK
<1> HIDE DEF tokens, k
<1>8. ASSUME NEW label, label # "budget", GoTo(s, label) PROVE ClocksRecent'
  BY <1>5, <1>8 DEF PollInv, TypeOK, BudgetInv, ClocksRecent, GoTo
<1>9. CASE ~Enough(tokens)
  <2>1. grants' = grants /\ GoTo(s, "route") /\ left = tokens
    BY <1>9 DEF Acquire, tokens
  <2>2. ClocksRecent'
    BY <1>8, <2>1
  <2>3. TokensAccounted'
    <3> SUFFICES ASSUME NEW q \in Providers
                 PROVE  /\ bucket'[q].refilled <= clock
                        /\ bucket'[q].refilled = -1 => Len(grants[q]) = 0
                        /\ \A i \in 1 .. Len(grants[q]) :
                              (Len(grants[q]) - i + 1) * TokenTicks + bucket'[q].tokens
                                <= full + (bucket'[q].refilled - grants[q][i].at)
                                     + Allowance(grants[q][i], overtaken'[q])
      BY <1>5, <2>1 DEF TokensAccounted, Allowance
    <3>1. CASE q = p
      <4>1. bucket'[q] = [tokens |-> tokens, refilled |-> time] /\ overtaken'[q] = k
        BY <1>7, <2>1, <3>1
      <4>2. bucket'[q].tokens = tokens /\ bucket'[q].refilled = time
        BY <4>1
      <4>3. time <= clock /\ time # -1
        BY <1>2, <1>3
      <4> QED
        BY <1>6, <3>1, <4>1, <4>2, <4>3
    <3>2. CASE q # p
      BY <1>7, <3>2 DEF BudgetInv, TokensAccounted
    <3>3. QED BY <3>1, <3>2
  <2>4. WithinBudget'
    BY <2>1 DEF BudgetInv, WithinBudget
  <2>5. QED BY <2>2, <2>3, <2>4 DEF BudgetInv
<1>10. CASE Enough(tokens)
  <2> DEFINE new == [at |-> clock, overtaken |-> k]
             g == Append(grants[p], new)
             m == n + 1
  <2>1. /\ grants' = [grants EXCEPT ![p] = g] /\ GoTo(s, "call")
        /\ left = tokens - TokenTicks /\ tokens >= TokenTicks
    <3>1. grants' = [grants EXCEPT ![p] =
                       Append(@, [at |-> clock, overtaken |-> overtaken'[p]])]
          /\ GoTo(s, "call") /\ left = tokens - TokenTicks /\ tokens >= TokenTicks
      BY <1>10 DEF Acquire, tokens, Enough
    <3>2. overtaken'[p] = k
      BY <1>1, <1>7
    <3>3. QED BY <3>1, <3>2
  <2>2. ClocksRecent'
    BY <1>8, <2>1
  <2>3. /\ new \in Grants /\ new.at = clock /\ new.overtaken = k
    BY <1>2 DEF Grants
  <2> HIDE DEF new
  <2>4. /\ Len(g) = m /\ g[m] = new
        /\ \A i \in 1 .. n : g[i] = grants[p][i]
    BY <1>2, <2>3
  <2>5. \A q \in Providers : grants'[q] = IF q = p THEN g ELSE grants[q]
    BY <1>1, <2>1 DEF PollInv, TypeOK
  <2>6. \A i \in 1 .. m :
          /\ g[i] \in Grants
          /\ (m - i + 1) * TokenTicks + left <= full + (time - g[i].at) + Allowance(g[i], k)
    <3> SUFFICES ASSUME NEW i \in 1 .. m
                 PROVE  /\ g[i] \in Grants
                        /\ (m - i + 1) * TokenTicks + left
                             <= full + (time - g[i].at) + Allowance(g[i], k)
      OBVIOUS
    <3> HIDE DEF g, n, full, left, time
    <3>1. CASE i = m
      <4>1. (m - i + 1) * TokenTicks = TokenTicks
        BY <1>2, <3>1
      <4>2. g[i] = new /\ Allowance(g[i], k) = MaxDelay
        BY <1>2, <2>3, <2>4, <3>1, AllowanceGrows
      <4>3. /\ tokens \in Int /\ time \in Int /\ clock \in Int /\ full \in Int
            /\ TokenTicks \in Int /\ MaxDelay \in Int /\ tokens <= full
        BY <1>2, <1>4
      <4>4. TokenTicks + left = tokens
        BY <2>1, <4>3
      <4>5. TokenTicks + left <= full + (time - clock) + MaxDelay
        BY <1>3, <4>3, <4>4
      <4>6. QED BY <2>3, <4>1, <4>2, <4>5
    <3>2. CASE i \in 1 .. n
      <4>1. (m - i + 1) * TokenTicks = (n - i + 1) * TokenTicks + TokenTicks
        <5>1. n - i + 1 \in Int /\ m - i + 1 = (n - i + 1) + 1
          BY <1>2, <3>2
        <5>2. QED BY <5>1, OneMore
      <4>2. (n - i + 1) * TokenTicks \in Int
        BY <1>2, <3>2
      <4>3. /\ g[i] = grants[p][i] /\ g[i] \in Grants
            /\ (n - i + 1) * TokenTicks + tokens <= full + (time - g[i].at) + Allowance(g[i], k)
        BY <1>6, <2>4, <3>2
      <4>4. g[i].at \in Int /\ Allowance(g[i], k) \in Int
        BY <1>2, <4>3, AllowanceGrows DEF Grants
      <4> DEFINE spent == (n - i + 1) * TokenTicks
                 allowed == Allowance(g[i], k)
                 since == time - g[i].at
      <4>5. spent \in Int /\ allowed \in Int /\ since \in Int
        BY <1>2, <4>2, <4>4
      <4>6. spent + tokens <= full + since + allowed /\ tokens \in Int /\ full \in Int
        BY <1>2, <1>4, <4>3
      <4>7. (m - i + 1) * TokenTicks = spent + TokenTicks
        BY <4>1
      <4> HIDE DEF spent, allowed, since
      <4>8. spent + TokenTicks + left <= full + since + allowed
        BY <1>2, <2>1, <4>5, <4>6
      <4>9. QED BY <4>3, <4>7, <4>8 DEF allowed, since
    <3>3. QED BY <1>2, <3>1, <3>2
  <2>7. left \in 0 .. full
    BY <1>2, <1>4, <2>1
  <2>8. TokensAccounted'
    <3> SUFFICES ASSUME NEW q \in Providers
                 PROVE  /\ bucket'[q].refilled <= clock
                        /\ bucket'[q].refilled = -1 => Len(grants'[q]) = 0
                        /\ \A i \in 1 .. Len(grants'[q]) :
                              (Len(grants'[q]) - i + 1) * TokenTicks + bucket'[q].tokens
                                <= full + (bucket'[q].refilled - grants'[q][i].at)
                                     + Allowance(grants'[q][i], overtaken'[q])
      BY <1>5 DEF TokensAccounted, Allowance
    <3> HIDE DEF g, m, full, left
    <3>1. CASE q = p
      <4>1. /\ bucket'[q].refilled = time /\ bucket'[q].tokens = left
            /\ grants'[q] = g /\ overtaken'[q] = k
        BY <1>7, <2>5, <3>1
      <4>2. time # -1 /\ time <= clock
        BY <1>2, <1>3
      <4>3. QED BY <2>4, <2>6, <4>1, <4>2
    <3>2. CASE q # p
      BY <1>7, <2>5, <3>2 DEF BudgetInv, TokensAccounted, full
    <3>3. QED BY <3>1, <3>2
  <2>9. WithinBudget'
    <3> SUFFICES ASSUME NEW q \in Providers, NEW i \in DOMAIN grants'[q],
                        NEW j \in DOMAIN grants'[q], i <= j
                 PROVE  (j - i + 1) * TokenTicks
                          <= full + (grants'[q][j].at - grants'[q][i].at)
                               + Allowance(grants'[q][i], grants'[q][j].overtaken)
      BY DEF WithinBudget, Allowance
    <3>1. CASE q # p
      BY <2>5, <3>1 DEF BudgetInv, WithinBudget, Allowance
    <3>2. CASE q = p
      <4>1. DOMAIN grants'[q] = 1 .. n + 1 /\ DOMAIN grants[p] = 1 .. n /\ grants'[q] = g
        <5>1. grants'[q] = g
          BY <2>5, <3>2
        <5>2. g \in Seq(Grants) /\ grants[p] \in Seq(Grants)
          BY <1>2, <2>3
        <5>3. QED BY <2>4, <5>1, <5>2
      <4> HIDE DEF g, n, left, time
      <4>2. i \in 1 .. n + 1 /\ j \in 1 .. n + 1
        BY <4>1
      <4>3. CASE j \in 1 .. n
        <5>1. i \in 1 .. n
          BY <1>2, <4>2, <4>3
        <5>2. g[i] = grants[p][i] /\ g[j] = grants[p][j]
          BY <2>4, <4>3, <5>1
        <5>3. (j - i + 1) * TokenTicks <= full + (grants[p][j].at - grants[p][i].at)
                                             + Allowance(grants[p][i], grants[p][j].overtaken)
          BY <1>1, <4>1, <4>3, <5>1 DEF BudgetInv, WithinBudget, Allowance
        <5>4. QED BY <4>1, <5>2, <5>3
      <4>4. CASE j = n + 1
        <5>1. /\ g[i] \in Grants /\ g[j] = new
              /\ (j - i + 1) * TokenTicks + left <= full + (time - g[i].at) + Allowance(g[i], k)
          <6>1. n + 1 - i + 1 = j - i + 1
            BY <1>2, <4>2, <4>4
          <6>2. QED BY <2>4, <2>6, <4>2, <4>4, <6>1
        <5>2. /\ (j - i + 1) * TokenTicks \in Int /\ g[i].at \in Int
              /\ Allowance(g[i], k) \in Int
          BY <1>2, <4>2, <5>1, AllowanceGrows DEF Grants
        <5> DEFINE spent == (j - i + 1) * TokenTicks
                   allowed == Allowance(g[i], k)
        <5>3. spent + left <= full + (time - g[i].at) + allowed /\ spent \in Int /\ allowed \in Int
          BY <5>1, <5>2
        <5> HIDE DEF spent, full, allowed
        <5>4. spent <= full + (clock - g[i].at) + allowed
          <6>1. /\ left \in Int /\ 0 <= left /\ time \in Int /\ clock \in Int /\ full \in Int
                /\ time <= clock
            BY <1>2, <1>3, <2>7
          <6> HIDE DEF g
          <6>2. QED BY <5>2, <5>3, <6>1
        <5>5. QED BY <2>3, <4>1, <5>1, <5>4 DEF spent, allowed
      <4>5. QED BY <1>2, <4>2, <4>3, <4>4
    <3>3. QED BY <3>1, <3>2
  <2>10. QED BY <2>2, <2>8, <2>9 DEF BudgetInv
<1>11. QED BY <1>9, <1>10

\* The other steps leave the buckets, the requests and the clock alone, and a
\* worker that turns to the bucket has just read the clock.
LEMMA BudgetNext ==
    ASSUME PollInv, BudgetInv, [Next]_vars PROVE BudgetInv'
<1>1. ASSUME UNCHANGED <<clock, bucket, grants, overtaken>>, ClocksRecent' PROVE BudgetInv'
  BY <1>1 DEF BudgetInv, TokensAccounted, WithinBudget, Allowance
<1>2. clock \in Nat /\ MaxDelay \in Nat
  BY PollingAssumption DEF PollInv, TypeOK
<1>3. ASSUME NEW s \in Workers, Connect(s) PROVE ClocksRecent'
  <2>1. clock' = clock /\ pc \in [Workers -> Labels] /\ started \in [Workers -> 0 .. MaxClock]
    BY <1>3, PollFacts DEF Connect
  <2>2. CASE GoTo(s, "budget") /\ started' = [started EXCEPT ![s] = clock]
    <3>1. \A v \in Workers \ {s} : pc'[v] = pc[v] /\ started'[v] = started[v]
      BY <2>1, <2>2 DEF GoTo
    <3>2. started'[s] = clock
      BY <2>1, <2>2
    <3>3. QED BY <1>2, <2>1, <3>1, <3>2 DEF BudgetInv, ClocksRecent
  <2>3. CASE UNCHANGED <<pc, started>>
    BY <2>1, <2>3 DEF BudgetInv, ClocksRecent
  <2>4. QED BY <1>3, <2>2, <2>3 DEF Connect
<1>4. ASSUME NEW s \in Workers, NEW label \in {"idle", "route"}, GoTo(s, label), clock' = clock,
             started' = started \/ started' = [started EXCEPT ![s] = 0]
      PROVE  ClocksRecent'
  BY <1>4 DEF GoTo, PollInv, TypeOK, BudgetInv, ClocksRecent
<1>5. ASSUME NEW s \in Workers, Begin(s) \/ CallFails(s) \/ Crash(s) PROVE ClocksRecent'
  BY <1>4, <1>5 DEF Begin, CallFails, Crash
<1>6. ASSUME NEW s \in Workers, Ingest(s) \/ Exhausted(s) PROVE ClocksRecent'
  <2>1. GoTo(s, "idle") /\ UNCHANGED <<clock, started>>
    BY <1>6 DEF Ingest, Exhausted, Save
  <2>2. QED BY <1>4, <2>1
<1>7. CASE UNCHANGED vars
  BY <1>1, <1>7 DEF vars, BudgetInv, ClocksRecent
<1>8. CASE Tick
  BY <1>8, BudgetTick
<1>9. ASSUME NEW s \in Workers, Acquire(s) PROVE BudgetInv'
  BY <1>9, BudgetAcquire
<1>10. ASSUME NEW s \in Workers,
              Connect(s) \/ Begin(s) \/ CallFails(s) \/ Crash(s) \/ Ingest(s) \/ Exhausted(s)
       PROVE  BudgetInv'
  <2>1. ClocksRecent'
    BY <1>3, <1>5, <1>6, <1>10
  <2>2. UNCHANGED <<clock, bucket, grants, overtaken>>
    BY <1>10 DEF Connect, Begin, CallFails, Crash, Ingest, Exhausted
  <2>3. QED BY <1>1, <2>1, <2>2
<1>11. QED BY <1>7, <1>8, <1>9, <1>10 DEF Next, Step

\* The requests of every interval are within the burst, what the interval refills
\* and one wait for the bucket's row, and one wait more for every worker that was
\* overtaken while it waited and set the row back: whichever workers send them,
\* however long they wait, whatever fails and whoever crashes.
THEOREM RequestsWithinBudget == Spec => []WithinBudget
<1>1. PollInv /\ BudgetInv /\ [Next]_vars => BudgetInv'
  BY BudgetNext
<1>2. BudgetInv => WithinBudget
  BY DEF BudgetInv
<1>3. QED BY <1>1, <1>2, BudgetInit, PollInvariance, PTL DEF Spec

\* A worker alone is never overtaken.
LoneWorker ==
    \A p \in Providers :
        /\ overtaken[p] = 0 /\ bucket[p].refilled <= clock
        /\ \A i \in DOMAIN grants[p] : grants[p][i].overtaken = 0
        /\ \A s \in Workers : pc[s] = "budget" => bucket[p].refilled <= started[s]

LEMMA LoneWorkerStep ==
    ASSUME NEW w, Workers = {w}, PollInv, BudgetInv, LoneWorker, [Next]_vars
    PROVE  LoneWorker'
<1>1. CASE UNCHANGED vars
  BY <1>1 DEF vars, LoneWorker
<1>2. CASE Tick
  <2>1. /\ clock' = clock + 1 /\ clock \in Nat
        /\ UNCHANGED <<bucket, grants, overtaken, pc, started>>
    BY <1>2, PollingAssumption DEF Tick, PollInv, TypeOK
  <2>2. \A p \in Providers : bucket[p].refilled \in Int /\ bucket[p].refilled <= clock
    BY DEF PollInv, TypeOK, LoneWorker
  <2>3. QED BY <2>1, <2>2 DEF LoneWorker
<1>3. CASE Connect(w)
  BY <1>3 DEF Connect, GoTo, LoneWorker, PollInv, TypeOK
<1>4. CASE Acquire(w)
  <2> DEFINE p == Provider(w)
             time == started[w]
  <2>1. p \in Providers /\ pc[w] = "budget"
    BY <1>4, ProviderType DEF Acquire, PollInv
  <2>2. time \in Int /\ time <= clock /\ clock' = clock /\ bucket[p].refilled <= time
    BY <1>4, <2>1, PollingAssumption DEF Acquire, PollInv, TypeOK, BudgetInv, ClocksRecent, LoneWorker
  <2>3. bucket[p].refilled \in Int
    BY <2>1 DEF PollInv, TypeOK
  <2>4. ~Behind(p, time)
    BY <2>2, <2>3 DEF Behind
  <2>5. overtaken' = overtaken
    BY <1>4, <2>1, <2>4 DEF Acquire, PollInv, TypeOK
  <2>6. \A q \in Providers : bucket'[q].refilled = IF q = p THEN time ELSE bucket[q].refilled
    BY <1>4, <2>1 DEF Acquire, PollInv, TypeOK
  <2>7. pc'[w] # "budget"
    BY <1>4 DEF Acquire, GoTo, PollInv, TypeOK
  <2>8. \A q \in Providers : \A i \in DOMAIN grants'[q] : grants'[q][i].overtaken = 0
    <3>1. CASE grants' = grants
      BY <3>1 DEF LoneWorker
    <3> DEFINE new == [at |-> clock, overtaken |-> overtaken'[p]]
    <3>2. CASE grants' = [grants EXCEPT ![p] = Append(@, new)]
      <4>1. new \in Grants /\ new.overtaken = 0
        BY <2>1, <2>5 DEF PollInv, TypeOK, Grants, LoneWorker
      <4> HIDE DEF new
      <4>2. grants[p] \in Seq(Grants) /\ grants'[p] = Append(grants[p], new)
        BY <2>1, <3>2 DEF PollInv, TypeOK, Grants
      <4>3. \A i \in DOMAIN grants'[p] :
              grants'[p][i] = new \/ (i \in DOMAIN grants[p] /\ grants'[p][i] = grants[p][i])
        BY <4>1, <4>2
      <4>4. \A q \in Providers \ {p} : grants'[q] = grants[q]
        BY <3>2 DEF PollInv, TypeOK
      <4>5. QED BY <2>1, <4>1, <4>3, <4>4 DEF LoneWorker
    <3>3. QED BY <1>4, <3>1, <3>2 DEF Acquire
  <2>9. QED BY <2>2, <2>5, <2>6, <2>7, <2>8 DEF LoneWorker
<1>5. CASE Begin(w) \/ CallFails(w) \/ Crash(w) \/ Ingest(w) \/ Exhausted(w)
  BY <1>5 DEF Begin, CallFails, Crash, Ingest, Exhausted, Save, GoTo, LoneWorker, PollInv, TypeOK
<1>6. QED BY <1>1, <1>2, <1>3, <1>4, <1>5 DEF Next, Step

\* A single worker, the documented baseline, keeps the configured budget itself: no
\* acquisition of its own overtakes it (ConfiguredBudget, acquire).
THEOREM OneWorkerKeepsBudget == (\E w : Workers = {w}) => (Spec => []ConfiguredBudget)
<1> SUFFICES ASSUME NEW w, Workers = {w} PROVE Spec => []ConfiguredBudget
  OBVIOUS
<1>1. Init /\ PollInv => LoneWorker
  BY PollingAssumption DEF Init, LoneWorker
<1>2. PollInv /\ BudgetInv /\ LoneWorker /\ [Next]_vars => LoneWorker'
  BY LoneWorkerStep
<1>3. PollInv /\ BudgetInv /\ [Next]_vars => BudgetInv'
  BY BudgetNext
<1>4. WithinBudget /\ LoneWorker => ConfiguredBudget
  <2> SUFFICES ASSUME WithinBudget, LoneWorker, NEW p \in Providers,
                      NEW i \in DOMAIN grants[p], NEW j \in DOMAIN grants[p], i <= j
               PROVE  (j - i + 1) * TokenTicks
                        <= Burst * TokenTicks + (grants[p][j].at - grants[p][i].at) + MaxDelay
    BY DEF ConfiguredBudget
  <2>1. grants[p][i].overtaken = 0 /\ grants[p][j].overtaken = 0
    BY DEF LoneWorker
  <2>2. (j - i + 1) * TokenTicks <= Burst * TokenTicks + (grants[p][j].at - grants[p][i].at)
                                      + MaxDelay * (1 + 0 - 0)
    BY <2>1 DEF WithinBudget
  <2>3. MaxDelay * (1 + 0 - 0) = MaxDelay
    BY PollingAssumption
  <2>4. QED BY <2>2, <2>3
<1>5. BudgetInv => WithinBudget
  BY DEF BudgetInv
<1>6. QED BY <1>1, <1>2, <1>3, <1>4, <1>5, BudgetInit, PollInvariance, PTL DEF Spec

-----------------------------------------------------------------------------
(* The schedule of a watchlist entry.                                      *)

\* The times of an entry are in order, and an active one is not due before it was
\* last changed.
Ordered(e) ==
    /\ e \in Entry
    /\ e.created <= e.updated /\ e.created <= e.next
    /\ e.last # NoTime => e.created <= e.last /\ e.last <= e.updated
    /\ e.state = "active" => e.updated <= e.next

\* The two copies of an entry agree.
Agree(r) == r = [column |-> r.document, document |-> r.document] /\ Ordered(r.document)

RowInv == row # NoEntry => Agree(row) /\ row.document.updated <= now

\* An operator that has read the entry and not yet the clock changes nothing but its
\* state; later it is about to write an entry that is new or continues the one the call
\* began with.
Chosen(c) ==
    /\ c.began # NoEntry /\ Agree(c.began) /\ c.began.document.updated <= now
    /\ c.entry.state \in {"active", "paused"}
    /\ c.entry = [c.began.document EXCEPT !.state = c.entry.state]

Continues(e, r) ==
    /\ Agree(r) /\ r.document.updated <= e.updated
    /\ \/ e.created = e.updated
       \/ e.created = r.document.created /\ e.last = r.document.last

Prepared(c) ==
    /\ Ordered(c.entry) /\ c.entry.updated <= now
    /\ c.began # NoEntry => Continues(c.entry, c.began)

OperatorInv ==
    \A o \in Operator : session[o] # NoCall =>
        IF session[o].step = "clock" THEN Chosen(session[o]) ELSE Prepared(session[o])

\* A scheduler holds the row it has read, which is due.
SchedulerInv ==
    \A s \in Scheduler : session[s] # NoCall =>
        /\ locker = s /\ row # NoEntry /\ Loaded(s) = row
        /\ row.document.state = "active"
        /\ session[s].at \in Nat /\ row.document.next <= session[s].at /\ session[s].at <= now
        /\ session[s].entry = Enqueued(row.document, session[s].at)

\* The slots of the jobs of an entry d, and when they were enqueued.
Job == [status : {"none", "queued", "watchlist_not_active", "poll_schedule_invalid", "polled"},
        at : Nat \cup {NoTime}]
Served(t, j, d) ==
    /\ j.at \in Nat /\ t <= j.at /\ j.at <= d.updated
    /\ j.at <= d.created \/ (d.last # NoTime /\ d.created <= t /\ t <= d.last)

JobsInv ==
    /\ jobs \in [Slots -> Job]
    /\ \A t \in Slots : jobs[t] # NoJob => row # NoEntry /\ Served(t, jobs[t], row.document)
    /\ RefusedForNewEntry
    /\ NoBacklog

ScheduleInv ==
    /\ now \in 0 .. MaxTime /\ overlapped \in BOOLEAN
    /\ DOMAIN session = Scheduler \cup Operator
    /\ ~overlapped => RowInv /\ OperatorInv /\ SchedulerInv /\ JobsInv

\* The quotient and one more exceeds what was divided.
LEMMA Division ==
    ASSUME NEW a \in Nat, NEW n \in Nat \ {0}
    PROVE  a \div n \in Nat /\ (a \div n + 1) * n > a
  OBVIOUS

\* The slot after one that was due is later than the clock.
LEMMA FirstAfterLater ==
    ASSUME NEW slot \in Nat, NEW at \in Nat, slot <= at
    PROVE  FirstAfter(slot, at) \in Nat /\ FirstAfter(slot, at) > at
  <1> DEFINE a == at - slot
             m == (a \div Interval + 1) * Interval
  <1>1. a \in Nat /\ Interval \in Nat \ {0}
    BY ScheduleAssumption
  <1>2. a \div Interval \in Nat /\ m > a
    BY <1>1, Division
  <1>3. m \in Nat
    BY <1>1, <1>2
  <1>4. FirstAfter(slot, at) = slot + m
    BY DEF FirstAfter
  <1> HIDE DEF m
  <1> QED
    BY <1>2, <1>3, <1>4

\* Enqueueing a slot that is due leaves an entry in order, due after the clock.
LEMMA EnqueuedOrdered ==
    ASSUME NEW d, Ordered(d), d.state = "active", NEW at \in Nat, d.next <= at
    PROVE  LET e == Enqueued(d, at)
           IN /\ Ordered(e) /\ EntryValid(e) /\ e.updated = at
              /\ e.last = d.next /\ e.created = d.created
  <1> DEFINE next == FirstAfter(d.next, at)
             e == [d EXCEPT !.next = next, !.last = d.next, !.updated = at]
  <1>1. /\ d \in Entry /\ d.next \in Nat /\ d.created \in Nat /\ d.updated \in Nat
        /\ d.created <= d.next /\ d.updated <= d.next
    BY DEF Ordered, Entry
  <1>2. next \in Nat /\ next > at
    BY <1>1, FirstAfterLater
  <1>3. Enqueued(d, at) = e
    BY DEF Enqueued
  <1> HIDE DEF next
  <1>4. /\ e \in Entry
        /\ e.state = "active" /\ e.next = next /\ e.last = d.next /\ e.updated = at
        /\ e.created = d.created
    BY <1>1, <1>2 DEF Entry
  <1> HIDE DEF e
  <1> QED
    BY <1>1, <1>2, <1>3, <1>4 DEF Ordered, EntryValid

\* A flush into the row that was loaded makes both copies the entry.
LEMMA FlushedIsEntry ==
    ASSUME NEW loaded, loaded = row, NEW entry \in Entry
    PROVE  Flushed(loaded, entry) = [column |-> entry, document |-> entry]
  <1>1. [f \in DOMAIN entry |->
           IF entry[f] = loaded.column[f] THEN row.column[f] ELSE entry[f]] = entry
    <2>1. \A f \in DOMAIN entry :
            (IF entry[f] = loaded.column[f] THEN row.column[f] ELSE entry[f]) = entry[f]
      OBVIOUS
    <2>2. entry = [f \in DOMAIN entry |-> entry[f]]
      BY DEF Entry
    <2> QED
      BY <2>1, <2>2
  <1> QED
    BY <1>1 DEF Flushed

\* The pair of two equal copies.
LEMMA PairAgrees ==
    ASSUME NEW entry, Ordered(entry), NEW r, r = [column |-> entry, document |-> entry]
    PROVE  Agree(r) /\ r.document = entry /\ r # NoEntry
  <1>1. entry \in Entry
    BY DEF Ordered
  <1>2. r.document = entry /\ r \in [column : Entry, document : Entry]
    BY <1>1
  <1> QED
    BY <1>2, ScheduleAssumption DEF Agree

\* An entry that replaces another one keeps what is said of the jobs: it is not older,
\* and continues the other one or is new.
LEMMA ReplacedKeepsJobs ==
    ASSUME JobsInv, Agree(row), Agree(row'), row' # NoEntry, jobs' = jobs,
           row.document.updated <= row'.document.updated,
           \/ row'.document.created = row'.document.updated
           \/ (/\ row'.document.created = row.document.created
               /\ row'.document.last = row.document.last)
    PROVE  JobsInv'
  <1> DEFINE d == row.document
             e == row'.document
  <1>1. /\ d.created \in Nat /\ d.updated \in Nat /\ e.created \in Nat /\ e.updated \in Nat
        /\ d.created <= d.updated
    BY DEF Agree, Ordered, Entry
  <1>2. \A t \in Slots : jobs[t] # NoJob => Served(t, jobs[t], d)
    BY DEF JobsInv
  <1>3. \A t \in Slots : jobs[t].status = "poll_schedule_invalid" =>
          /\ jobs[t].at \in Nat /\ jobs[t].at <= d.updated /\ jobs[t].at <= d.created
    BY DEF JobsInv, RefusedForNewEntry, Served, NoJob
  <1> HIDE DEF d, e
  <1>4. \A t \in Slots : jobs[t] # NoJob => Served(t, jobs[t], e)
    BY <1>1, <1>2 DEF Served, d, e
  <1>5. \A t \in Slots : jobs[t].status = "poll_schedule_invalid" => jobs[t].at <= e.created
    BY <1>1, <1>3 DEF d, e
  <1> QED
    BY <1>4, <1>5 DEF JobsInv, RefusedForNewEntry, NoBacklog, e

\* Nothing is stored and nobody is at work.
LEMMA ScheduleInvInit == ScheduleInit => ScheduleInv
  <1> SUFFICES ASSUME ScheduleInit PROVE ScheduleInv
    OBVIOUS
  <1>1. now \in 0 .. MaxTime /\ overlapped \in BOOLEAN
    <2>1. now = 0 /\ overlapped = FALSE
      BY DEF ScheduleInit
    <2>2. MaxTime \in Nat
      BY ScheduleAssumption
    <2>3. now \in 0 .. MaxTime
      BY <2>1, <2>2
    <2> QED
      BY <2>1, <2>3
  <1>2. DOMAIN session = Scheduler \cup Operator
    BY DEF ScheduleInit
  <1>3. RowInv /\ OperatorInv /\ SchedulerInv
    BY DEF ScheduleInit, RowInv, OperatorInv, SchedulerInv
  <1>4. NoJob \in Job /\ NoJob.status = "none"
    BY DEF NoJob, Job
  <1>5. JobsInv
    BY <1>4 DEF ScheduleInit, JobsInv, RefusedForNewEntry, NoBacklog
  <1> QED
    BY <1>1, <1>2, <1>3, <1>5 DEF ScheduleInv

\* The clock goes on.
LEMMA ScheduleTickKeeps == ASSUME ScheduleInv, ScheduleTick PROVE ScheduleInv'
  <1>1. now' \in 0 .. MaxTime /\ now \in Nat /\ now' = now + 1
    BY ScheduleAssumption DEF ScheduleInv, ScheduleTick
  <1>2. UNCHANGED <<row, locker, session, jobs, calls, overlapped>>
    BY DEF ScheduleTick
  <1> SUFFICES ASSUME ~overlapped
               PROVE  (RowInv /\ OperatorInv /\ SchedulerInv /\ JobsInv)'
    BY <1>1, <1>2 DEF ScheduleInv
  <1>3. RowInv'
    BY <1>1, <1>2 DEF ScheduleInv, RowInv, Agree, Ordered, Entry
  <1>4. OperatorInv'
    <2>1. ASSUME NEW c, Chosen(c) PROVE Chosen(c)'
      BY <1>1, <2>1 DEF Chosen, Agree, Ordered, Entry
    <2>2. ASSUME NEW c, Prepared(c) PROVE Prepared(c)'
      BY <1>1, <2>2 DEF Prepared, Ordered, Entry
    <2> QED
      BY <1>2, <2>1, <2>2 DEF ScheduleInv, OperatorInv
  <1>5. SchedulerInv'
    BY <1>1, <1>2 DEF ScheduleInv, SchedulerInv, Loaded
  <1>6. JobsInv'
    BY <1>2 DEF ScheduleInv, JobsInv, RefusedForNewEntry, NoBacklog
  <1> QED
    BY <1>3, <1>4, <1>5, <1>6

\* An operator's step that only changes its own session.
LEMMA ProceedKeeps ==
    ASSUME ScheduleInv, NEW o \in Operator, NEW step, NEW began, NEW loaded, NEW entry,
           Proceed(o, step, began, loaded, entry),
           ~overlapped => LET c == [step |-> step, began |-> began, loaded |-> loaded,
                                    entry |-> entry]
                          IN  IF step = "clock" THEN Chosen(c) ELSE Prepared(c)
    PROVE  ScheduleInv'
  <1> DEFINE c == [step |-> step, began |-> began, loaded |-> loaded, entry |-> entry]
  <1>1. /\ session' = [session EXCEPT ![o] = c]
        /\ UNCHANGED <<now, row, locker, jobs, overlapped>>
        /\ c.step = step
    BY DEF Proceed
  <1>2. ~overlapped => IF c.step = "clock" THEN Chosen(c) ELSE Prepared(c)
    BY <1>1
  <1> HIDE DEF c
  <1>3. /\ DOMAIN session' = Scheduler \cup Operator
        /\ session'[o] = c
        /\ \A p \in (Scheduler \cup Operator) \ {o} : session'[p] = session[p]
    BY <1>1 DEF ScheduleInv
  <1>4. o \notin Scheduler
    BY ScheduleAssumption
  <1> SUFFICES ASSUME ~overlapped
               PROVE  (RowInv /\ OperatorInv /\ SchedulerInv /\ JobsInv)'
    BY <1>1, <1>3 DEF ScheduleInv
  <1>5. RowInv' /\ JobsInv'
    BY <1>1 DEF ScheduleInv, RowInv, JobsInv, RefusedForNewEntry, NoBacklog
  <1>6. OperatorInv'
    BY <1>1, <1>2, <1>3 DEF ScheduleInv, OperatorInv, Chosen, Prepared
  <1>7. SchedulerInv'
    BY <1>1, <1>3, <1>4 DEF ScheduleInv, SchedulerInv, Loaded
  <1> QED
    BY <1>5, <1>6, <1>7

\* A new entry is made with the clock that the call begins with.
LEMMA CreateKeeps == ASSUME ScheduleInv, NEW o \in Operator, Create(o) PROVE ScheduleInv'
  <1> DEFINE e == Built(now)
             c == [step |-> "row", began |-> row, loaded |-> NoEntry, entry |-> e]
  <1>1. Proceed(o, "row", row, NoEntry, e) /\ now \in Nat
    BY ScheduleAssumption DEF Create, Call, ScheduleInv
  <1>2. Ordered(e) /\ e.updated = now /\ e.created = e.updated
    BY <1>1 DEF Built, Ordered, Entry
  <1> HIDE DEF e
  <1>3. ASSUME ~overlapped PROVE Prepared(c)
    <2>1. row # NoEntry => Agree(row) /\ row.document.updated <= now
      BY <1>3 DEF ScheduleInv, RowInv
    <2> QED
      BY <1>1, <1>2, <2>1 DEF Prepared, Continues
  <1> HIDE DEF c
  <1>4. "row" # "clock"
    OBVIOUS
  <1> QED
    BY <1>1, <1>3, <1>4, ProceedKeeps DEF c

\* Pause and resume begin with the row, and choose its state.
LEMMA SetStateKeeps ==
    ASSUME ScheduleInv, NEW o \in Operator, Pause(o) \/ Resume(o) PROVE ScheduleInv'
  <1>1. PICK state \in {"active", "paused"} :
          row # NoEntry /\ Call(o, "clock", [row.document EXCEPT !.state = state])
    BY DEF Pause, Resume
  <1> DEFINE e == [row.document EXCEPT !.state = state]
             c == [step |-> "clock", began |-> row, loaded |-> NoEntry, entry |-> e]
  <1>2. Proceed(o, "clock", row, NoEntry, e)
    BY <1>1 DEF Call
  <1>3. ASSUME ~overlapped PROVE Chosen(c)
    <2>1. Agree(row) /\ row.document.updated <= now
      BY <1>1, <1>3 DEF ScheduleInv, RowInv
    <2>2. e.state = state
      BY <2>1 DEF Agree, Ordered, Entry
    <2> QED
      BY <1>1, <2>1, <2>2 DEF Chosen
  <1> HIDE DEF c, e
  <1> QED
    BY <1>2, <1>3, ProceedKeeps DEF c

\* A paused entry keeps its times, a resumed one is due at once.
LEMMA ReadClockKeeps ==
    ASSUME ScheduleInv, NEW o \in Operator, ReadClock(o) PROVE ScheduleInv'
  <1> DEFINE b == session[o].began
             d == b.document
             state == session[o].entry.state
             e == Changed(session[o].entry)
             c == [step |-> "row", began |-> b, loaded |-> NoEntry, entry |-> e]
  <1>1. Proceed(o, "row", b, NoEntry, e) /\ now \in Nat
    BY ScheduleAssumption DEF ReadClock, ScheduleInv
  <1>2. ASSUME ~overlapped PROVE Prepared(c)
    <2>1. /\ Agree(b) /\ d.updated <= now /\ state \in {"active", "paused"}
          /\ session[o].entry = [d EXCEPT !.state = state]
      BY <1>2 DEF ReadClock, ScheduleInv, OperatorInv, Chosen
    <2> DEFINE chosen == [d EXCEPT !.state = state]
    <2>2. d \in Entry /\ Ordered(d)
      BY <2>1 DEF Agree, Ordered
    <2> HIDE DEF b, d, state
    <2>3. /\ chosen \in Entry /\ chosen.state = state /\ chosen.next = d.next
          /\ chosen.created = d.created /\ chosen.last = d.last
      BY <2>1, <2>2 DEF Entry
    <2>4. e = Changed(chosen)
      BY <2>1
    <2> HIDE DEF chosen, e
    <2>5. /\ e \in Entry /\ e.state = state /\ e.updated = now
          /\ e.next = IF state = "active" THEN now ELSE d.next
          /\ e.created = d.created /\ e.last = d.last
      BY <1>1, <2>3, <2>4 DEF Changed, Entry
    <2>6. Ordered(e)
      BY <1>1, <2>1, <2>2, <2>5 DEF Ordered, Entry
    <2>7. Continues(e, b)
      BY <2>1, <2>5 DEF Continues, d
    <2> QED
      BY <1>1, <2>5, <2>6, <2>7 DEF Prepared
  <1> HIDE DEF b, e, c
  <1>3. "row" # "clock"
    OBVIOUS
  <1> QED
    BY <1>1, <1>2, <1>3, ProceedKeeps DEF c

\* The row is read again before it is written.
LEMMA ReadRowKeeps ==
    ASSUME ScheduleInv, NEW o \in Operator, ReadRow(o) PROVE ScheduleInv'
  <1> DEFINE c == [step |-> "flush", began |-> session[o].began, loaded |-> row,
                   entry |-> session[o].entry]
  <1>1. Proceed(o, "flush", session[o].began, row, session[o].entry)
    BY DEF ReadRow
  <1>2. ASSUME ~overlapped PROVE Prepared(c)
    <2>1. session[o] # NoCall /\ session[o].step = "row" /\ "row" # "clock"
      BY DEF ReadRow
    <2>2. Prepared(session[o])
      BY <1>2, <2>1 DEF ScheduleInv, OperatorInv
    <2> QED
      BY <2>2 DEF Prepared
  <1> HIDE DEF c
  <1>3. "flush" # "clock"
    OBVIOUS
  <1> QED
    BY <1>1, <1>2, <1>3, ProceedKeeps DEF c

\* An operator's entry is written: if it is what the row has been read from, both
\* copies become it.
LEMMA SaveEntryKeeps == ASSUME ScheduleInv, NEW o \in Operator, SaveEntry(o) PROVE ScheduleInv'
  <1> DEFINE e == session[o].entry
  <1>1. /\ session[o] # NoCall /\ locker = NoCall
        /\ UNCHANGED <<now, locker, jobs, calls>>
        /\ session' = [session EXCEPT ![o] = NoCall]
    BY DEF SaveEntry
  <1>2. /\ DOMAIN session' = Scheduler \cup Operator
        /\ session'[o] = NoCall
        /\ \A p \in (Scheduler \cup Operator) \ {o} : session'[p] = session[p]
    BY <1>1 DEF ScheduleInv
  <1>3. \/ row' = row /\ overlapped' = overlapped
        \/ /\ row' = Written(o)
           /\ overlapped' = (overlapped \/ row # session[o].began \/ row # Loaded(o))
    BY DEF SaveEntry
  <1>4. overlapped' \in BOOLEAN /\ (~overlapped' => ~overlapped)
    BY <1>3 DEF ScheduleInv
  <1> SUFFICES ASSUME ~overlapped'
               PROVE  (RowInv /\ OperatorInv /\ SchedulerInv /\ JobsInv)'
    BY <1>1, <1>2, <1>4 DEF ScheduleInv
  <1>5. RowInv /\ OperatorInv /\ SchedulerInv /\ JobsInv /\ now \in Nat
    BY <1>4, ScheduleAssumption DEF ScheduleInv
  <1>6. OperatorInv'
    BY <1>1, <1>2, <1>5 DEF OperatorInv, Chosen, Prepared
  <1>7. SchedulerInv'
    BY <1>1, <1>2, <1>5, ScheduleAssumption DEF SchedulerInv
  <1>8. CASE row' = row
    <2>1. RowInv' /\ JobsInv'
      BY <1>1, <1>5, <1>8 DEF RowInv, JobsInv, RefusedForNewEntry, NoBacklog
    <2> QED
      BY <1>6, <1>7, <2>1
  <1>9. CASE row' = Written(o) /\ Loaded(o) = row /\ session[o].began = row
    <2>1. /\ Ordered(e) /\ e.updated <= now
          /\ row # NoEntry => Continues(e, row)
      <3>1. session[o].step # "clock"
        BY DEF SaveEntry
      <3>2. Prepared(session[o])
        BY <1>1, <1>5, <3>1 DEF OperatorInv
      <3> QED
        BY <1>9, <3>2 DEF Prepared
    <2>2. row' = [column |-> e, document |-> e]
      <3>1. e \in Entry
        BY <2>1 DEF Ordered
      <3>2. Flushed(Loaded(o), e) = [column |-> e, document |-> e]
        BY <1>9, <3>1, FlushedIsEntry
      <3> QED
        BY <1>9, <3>2 DEF Written
    <2>3. Agree(row)' /\ row'.document = e /\ row' # NoEntry
      BY <2>1, <2>2, PairAgrees DEF Agree
    <2>4. RowInv'
      BY <1>1, <2>1, <2>3 DEF RowInv
    <2>5. CASE row = NoEntry
      <3>1. \A t \in Slots : jobs[t] = NoJob
        BY <1>5, <2>5 DEF JobsInv
      <3>2. JobsInv'
        BY <1>1, <1>5, <3>1 DEF JobsInv, RefusedForNewEntry, NoBacklog, NoJob
      <3> QED
        BY <1>6, <1>7, <2>4, <3>2
    <2>6. CASE row # NoEntry
      <3>1. /\ Agree(row) /\ row.document.updated <= e.updated
            /\ e.created = e.updated
               \/ (e.created = row.document.created /\ e.last = row.document.last)
        BY <2>1, <2>6 DEF Continues
      <3>2. JobsInv'
        BY <1>1, <1>5, <2>3, <3>1, ReplacedKeepsJobs DEF Agree
      <3> QED
        BY <1>6, <1>7, <2>4, <3>2
    <2> QED
      BY <2>5, <2>6
  <1>10. row' = row \/ (row' = Written(o) /\ Loaded(o) = row /\ session[o].began = row)
    BY <1>3
  <1> QED
    BY <1>8, <1>9, <1>10

\* A scheduler locks the entry that is due and works out the next time.
LEMMA SelectDueKeeps == ASSUME ScheduleInv, NEW s \in Scheduler, SelectDue(s) PROVE ScheduleInv'
  <1>1. PICK at \in 0 .. now :
          /\ row.column.state = "active" /\ row.column.next <= at
          /\ session' = [session EXCEPT ![s] =
                           [at |-> at, loaded |-> row, entry |-> Enqueued(row.document, at)]]
    BY DEF SelectDue
  <1>2. /\ row # NoEntry /\ locker = NoCall /\ locker' = s
        /\ UNCHANGED <<now, row, jobs, calls, overlapped>>
    BY DEF SelectDue
  <1>3. /\ DOMAIN session' = Scheduler \cup Operator
        /\ session'[s].loaded = row /\ session'[s].at = at
        /\ session'[s].entry = Enqueued(row.document, at)
        /\ \A p \in (Scheduler \cup Operator) \ {s} : session'[p] = session[p]
    BY <1>1 DEF ScheduleInv
  <1>4. s \notin Operator /\ NoCall \notin Scheduler
    BY ScheduleAssumption
  <1> SUFFICES ASSUME ~overlapped
               PROVE  (RowInv /\ OperatorInv /\ SchedulerInv /\ JobsInv)'
    BY <1>2, <1>3 DEF ScheduleInv
  <1>5. RowInv /\ OperatorInv /\ SchedulerInv /\ JobsInv /\ now \in Nat
    BY ScheduleAssumption DEF ScheduleInv
  <1>6. RowInv' /\ JobsInv'
    BY <1>2, <1>5 DEF RowInv, JobsInv, RefusedForNewEntry, NoBacklog
  <1>7. OperatorInv'
    BY <1>2, <1>3, <1>4, <1>5 DEF OperatorInv, Chosen, Prepared
  <1>8. \A p \in Scheduler : session[p] = NoCall
    BY <1>2, <1>4, <1>5 DEF SchedulerInv
  <1>9. /\ row.document.state = "active" /\ row.document.next <= at
        /\ at \in Nat /\ at <= now
    <2>1. row.column = row.document /\ row.document \in Entry
      BY <1>2, <1>5 DEF RowInv, Agree, Ordered
    <2>2. row.document.next \in Nat
      BY <2>1 DEF Entry
    <2> QED
      BY <1>1, <1>5, <2>1, <2>2
  <1>10. SchedulerInv'
    BY <1>2, <1>3, <1>8, <1>9 DEF SchedulerInv, Loaded
  <1> QED
    BY <1>6, <1>7, <1>10

\* The job of the slot is enqueued and the entry advanced.
LEMMA EnqueueKeeps == ASSUME ScheduleInv, NEW s \in Scheduler, Enqueue(s) PROVE ScheduleInv'
  <1> DEFINE d == row.document
             e == session[s].entry
             at == session[s].at
             slot == d.next
  <1>1. /\ session[s] # NoCall
        /\ row' = Flushed(Loaded(s), e)
        /\ locker' = NoCall /\ session' = [session EXCEPT ![s] = NoCall]
        /\ UNCHANGED <<now, calls, overlapped>>
        /\ jobs' = IF jobs[e.last] # NoJob THEN jobs
                   ELSE [jobs EXCEPT ![e.last] = [status |-> "queued", at |-> at]]
    BY DEF Enqueue
  <1>2. /\ DOMAIN session' = Scheduler \cup Operator
        /\ session'[s] = NoCall
        /\ \A p \in (Scheduler \cup Operator) \ {s} : session'[p] = session[p]
    BY <1>1 DEF ScheduleInv
  <1>3. s \notin Operator
    BY ScheduleAssumption
  <1> SUFFICES ASSUME ~overlapped
               PROVE  (RowInv /\ OperatorInv /\ SchedulerInv /\ JobsInv)'
    BY <1>1, <1>2 DEF ScheduleInv
  <1>4. RowInv /\ OperatorInv /\ SchedulerInv /\ JobsInv /\ now \in Nat /\ now <= MaxTime
    BY ScheduleAssumption DEF ScheduleInv
  <1>5. OperatorInv'
    BY <1>1, <1>2, <1>3, <1>4 DEF OperatorInv, Chosen, Prepared
  <1>6. SchedulerInv'
    BY <1>1, <1>2, <1>4 DEF SchedulerInv
  <1>7. /\ locker = s /\ row # NoEntry /\ Loaded(s) = row /\ d.state = "active"
        /\ at \in Nat /\ slot <= at /\ at <= now /\ e = Enqueued(d, at)
    BY <1>1, <1>4 DEF SchedulerInv
  <1>8. Agree(row) /\ Ordered(d)
    BY <1>4, <1>7 DEF RowInv, Agree
  <1>9. /\ slot \in Nat /\ d.created \in Nat /\ d.updated \in Nat
        /\ d.updated <= slot /\ d.created <= d.updated
        /\ d.last # NoTime => d.last \in Nat /\ d.last <= d.updated
    BY <1>7, <1>8 DEF Ordered, Entry
  <1> HIDE DEF e, d, at
  <1>10. /\ Ordered(e) /\ e \in Entry /\ e.updated = at /\ e.last = slot
         /\ e.created = d.created
    BY <1>7, <1>8, EnqueuedOrdered DEF Ordered
  <1>11. row' = [column |-> e, document |-> e]
    BY <1>1, <1>7, <1>10, FlushedIsEntry
  <1>12. Agree(row)' /\ row'.document = e /\ row' # NoEntry
    BY <1>10, <1>11, PairAgrees DEF Agree
  <1>13. RowInv'
    BY <1>1, <1>7, <1>10, <1>12 DEF RowInv
  <1>14. /\ slot \in Slots /\ jobs \in [Slots -> Job]
         /\ slot # NoTime
    BY <1>4, <1>7, <1>9, ScheduleAssumption DEF Slots, JobsInv, NoTime
  <1>15. /\ jobs' \in [Slots -> Job]
         /\ \A t \in Slots \ {slot} : jobs'[t] = jobs[t]
         /\ jobs'[slot] = jobs[slot] \/ jobs'[slot] = [status |-> "queued", at |-> at]
         /\ jobs[slot] # NoJob => jobs'[slot] = jobs[slot]
    <2>1. [status |-> "queued", at |-> at] \in Job
      BY <1>7 DEF Job
    <2> QED
      BY <1>1, <1>10, <1>14, <2>1
  <1>16. \A t \in Slots : jobs[t] # NoJob =>
           /\ jobs[t].at \in Nat /\ t <= jobs[t].at /\ jobs[t].at <= d.updated
           /\ jobs[t].at <= d.created \/ (d.last # NoTime /\ d.created <= t /\ t <= d.last)
    BY <1>4 DEF JobsInv, Served, d
  <1>17. \A t \in Slots : t \in Nat
    BY ScheduleAssumption DEF Slots
  <1> HIDE DEF slot
  <1>18. \A t \in Slots : jobs'[t] # NoJob => Served(t, jobs'[t], e)
    <2>1. \A t \in Slots : jobs[t] # NoJob => Served(t, jobs[t], e)
      BY <1>7, <1>9, <1>10, <1>14, <1>16, <1>17 DEF Served
    <2>2. Served(slot, [status |-> "queued", at |-> at], e)
      BY <1>7, <1>9, <1>10, <1>14 DEF Served
    <2>3. ASSUME NEW t \in Slots, jobs'[t] # NoJob
          PROVE  Served(t, jobs'[t], e)
      BY <1>15, <2>1, <2>2, <2>3
    <2> QED
      BY <2>3
  <1>19. \A t \in Slots : jobs'[t].status = "poll_schedule_invalid" => jobs'[t].at <= e.created
    BY <1>4, <1>10, <1>15 DEF JobsInv, RefusedForNewEntry, d
  <1>20. ASSUME NEW t \in Slots, NEW u \in Slots, t < u, jobs'[t] # NoJob, jobs'[u] # NoJob
         PROVE  u >= jobs'[t].at
    <2>1. CASE jobs'[t] = jobs[t] /\ jobs'[u] = jobs[u]
      BY <1>4, <1>20, <2>1 DEF JobsInv, NoBacklog
    <2>2. CASE u = slot /\ t # slot
      BY <1>9, <1>15, <1>16, <1>17, <1>20, <2>2
    <2>3. CASE t = slot
      <3>1. u # slot /\ jobs'[u] = jobs[u]
        BY <1>15, <1>17, <1>20, <2>3
      <3>2. u <= d.updated
        BY <1>9, <1>16, <1>17, <1>20, <3>1
      <3>3. d.updated <= t /\ d.updated \in Nat
        BY <1>9, <2>3
      <3>4. t \in Nat /\ u \in Nat /\ t < u
        BY <1>17, <1>20
      <3> QED
        BY <3>2, <3>3, <3>4
    <2> QED
      BY <1>15, <2>1, <2>2, <2>3
  <1>21. JobsInv'
    BY <1>12, <1>15, <1>18, <1>19, <1>20 DEF JobsInv, RefusedForNewEntry, NoBacklog
  <1> QED
    BY <1>5, <1>6, <1>13, <1>21

\* A scheduler that fails leaves row and jobs as they were.
LEMMA AbortEnqueueKeeps ==
    ASSUME ScheduleInv, NEW s \in Scheduler, AbortEnqueue(s) PROVE ScheduleInv'
  <1>1. /\ session[s] # NoCall
        /\ locker' = NoCall /\ session' = [session EXCEPT ![s] = NoCall]
        /\ UNCHANGED <<now, row, jobs, calls, overlapped>>
    BY DEF AbortEnqueue
  <1>2. /\ DOMAIN session' = Scheduler \cup Operator
        /\ session'[s] = NoCall
        /\ \A p \in (Scheduler \cup Operator) \ {s} : session'[p] = session[p]
    BY <1>1 DEF ScheduleInv
  <1>3. s \notin Operator
    BY ScheduleAssumption
  <1> SUFFICES ASSUME ~overlapped
               PROVE  (RowInv /\ OperatorInv /\ SchedulerInv /\ JobsInv)'
    BY <1>1, <1>2 DEF ScheduleInv
  <1>4. RowInv /\ OperatorInv /\ SchedulerInv /\ JobsInv
    BY DEF ScheduleInv
  <1>5. RowInv' /\ JobsInv'
    BY <1>1, <1>4 DEF RowInv, JobsInv, RefusedForNewEntry, NoBacklog
  <1>6. OperatorInv'
    BY <1>1, <1>2, <1>3, <1>4 DEF OperatorInv, Chosen, Prepared
  <1>7. SchedulerInv'
    BY <1>1, <1>2, <1>4 DEF SchedulerInv
  <1> QED
    BY <1>5, <1>6, <1>7

\* A poll of a slot that the entry still covers is not refused for it.
LEMMA PollKeeps == ASSUME ScheduleInv, NEW slot \in Slots, Poll(slot) PROVE ScheduleInv'
  <1> DEFINE verdict == Verdict(slot)
             d == row.document
  <1>1. /\ jobs[slot].status = "queued"
        /\ jobs' = [jobs EXCEPT ![slot].status = verdict]
        /\ UNCHANGED <<now, row, locker, session, calls, overlapped>>
    BY DEF Poll
  <1>2. /\ verdict \in {"watchlist_not_active", "poll_schedule_invalid", "polled"}
        /\ verdict = "poll_schedule_invalid" =>
             d.last = NoTime \/ slot < d.created \/ slot > d.last
    BY DEF Verdict
  <1> HIDE DEF verdict
  <1> SUFFICES ASSUME ~overlapped
               PROVE  (RowInv /\ OperatorInv /\ SchedulerInv /\ JobsInv)'
    BY <1>1 DEF ScheduleInv
  <1>3. RowInv /\ OperatorInv /\ SchedulerInv /\ JobsInv
    BY DEF ScheduleInv
  <1>4. RowInv' /\ OperatorInv' /\ SchedulerInv'
    BY <1>1, <1>3 DEF RowInv, OperatorInv, Chosen, Prepared, SchedulerInv, Loaded
  <1>5. jobs \in [Slots -> Job] /\ jobs[slot] # NoJob
    BY <1>1, <1>3 DEF JobsInv, NoJob
  <1>6. row # NoEntry /\ Served(slot, jobs[slot], d)
    BY <1>3, <1>5 DEF JobsInv
  <1> DEFINE new == [jobs[slot] EXCEPT !.status = verdict]
  <1>7. /\ new \in Job /\ new.at = jobs[slot].at /\ new.status = verdict
    BY <1>2, <1>5 DEF Job
  <1>8. /\ jobs' \in [Slots -> Job]
        /\ jobs'[slot] = new
        /\ \A t \in Slots \ {slot} : jobs'[t] = jobs[t]
    BY <1>1, <1>5, <1>7
  <1> HIDE DEF new
  <1>9. Served(slot, new, d)
    BY <1>6, <1>7 DEF Served
  <1>10. /\ \A t \in Slots : jobs'[t] # NoJob => jobs[t] # NoJob
         /\ \A t \in Slots : jobs'[t].at = jobs[t].at
    BY <1>5, <1>7, <1>8
  <1>11. \A t \in Slots : jobs'[t] # NoJob => row # NoEntry /\ Served(t, jobs'[t], d)
    BY <1>3, <1>6, <1>8, <1>9 DEF JobsInv
  <1>12. d.created \in Nat /\ d.last \in Nat \cup {NoTime} /\ slot \in Nat
    BY <1>3, <1>6, ScheduleAssumption DEF RowInv, Agree, Ordered, Entry, Slots
  <1>13. verdict = "poll_schedule_invalid" => new.at <= d.created
    BY <1>2, <1>9, <1>12 DEF Served, NoTime
  <1>14. RefusedForNewEntry'
    BY <1>1, <1>3, <1>7, <1>8, <1>13 DEF JobsInv, RefusedForNewEntry
  <1>15. NoBacklog'
    BY <1>3, <1>10 DEF JobsInv, NoBacklog
  <1>16. JobsInv'
    BY <1>1, <1>8, <1>11, <1>14, <1>15 DEF JobsInv
  <1> QED
    BY <1>4, <1>16

\* Every step keeps the invariant.
LEMMA ScheduleInvStep ==
    ASSUME ScheduleInv, [ScheduleNext]_scheduleVars PROVE ScheduleInv'
  <1>1. CASE UNCHANGED scheduleVars
    BY <1>1 DEF scheduleVars, ScheduleInv, RowInv, OperatorInv, SchedulerInv, JobsInv, Loaded, Chosen, Prepared,
                RefusedForNewEntry, NoBacklog
  <1>2. CASE ScheduleNext
    BY <1>2, ScheduleTickKeeps, CreateKeeps, SetStateKeeps, ReadClockKeeps, ReadRowKeeps,
       SaveEntryKeeps, SelectDueKeeps, EnqueueKeeps, AbortEnqueueKeeps, PollKeeps DEF ScheduleNext
  <1> QED
    BY <1>1, <1>2

\* Unless an operator wrote over a commit that fell into its call, no scheduler raises, the
\* columns it selects by are those of the document, no job is refused for a slot that
\* the entry covers, and a scheduler that was down leaves no backlog of slots: for any
\* number of schedulers and operators, any interval and any clock.
THEOREM ScheduleIsKept == ScheduleSpec => []ScheduleKept
  <1>1. ScheduleInit => ScheduleInv
    BY ScheduleInvInit
  <1>2. ScheduleInv /\ [ScheduleNext]_scheduleVars => ScheduleInv'
    BY ScheduleInvStep
  <1>3. ScheduleInv => ScheduleKept
    <2> SUFFICES ASSUME ScheduleInv, ~overlapped
                 PROVE  /\ SchedulerNeverRaises
                        /\ row # NoEntry => row.column = row.document
                        /\ RefusedForNewEntry /\ NoBacklog
      BY DEF ScheduleKept
    <2>1. RowInv /\ SchedulerInv /\ JobsInv
      BY DEF ScheduleInv
    <2>2. SchedulerNeverRaises
      BY <2>1, EnqueuedOrdered DEF SchedulerNeverRaises, SchedulerInv, RowInv, Agree
    <2> QED
      BY <2>1, <2>2 DEF RowInv, Agree, JobsInv
  <1> QED
    BY <1>1, <1>2, <1>3, PTL DEF ScheduleSpec

-----------------------------------------------------------------------------
(* The purge and the holds.                                                *)

\* The inductive invariant: a hold and a purge under way exclude each other.
Serialized ==
    /\ store = [t \in Tables |-> store[t]]
    /\ holds > 0 => running = "none"

\* Every row of a table has a row with its key in another state of it.
Keeps(old, new) ==
    \A t \in Tables : \A r \in old[t] : \E q \in new[t] : Key(t, q) = Key(t, r)

\* What a job adds to a table leaves the rows of all tables in place.
LEMMA PutKeeps ==
    ASSUME NEW old, NEW new,
           \A t \in Tables : old[t] \subseteq new[t]
    PROVE  Keeps(old, new)
  BY DEF Keeps

\* Initially there is neither a hold nor a purge.
LEMMA SerializedInit == RetentionInit => Serialized
  BY DEF RetentionInit, Serialized

\* Each transaction keeps holds and purges apart.
LEMMA SerializedStep == Serialized /\ [RetentionNext]_retentionVars => Serialized'
  <1> SUFFICES ASSUME Serialized, [RetentionNext]_retentionVars
               PROVE  Serialized'
    OBVIOUS
  <1>1. CASE UNCHANGED retentionVars
    BY <1>1 DEF Serialized, retentionVars
  <1>2. CASE NextDay
    BY <1>2 DEF NextDay, Serialized
  <1>3. CASE Jobs
    <2>1. UNCHANGED <<holds, running>>
      BY <1>3 DEF Jobs, AdvanceWatermark, Finalize, IngestNew, IngestAgain, Deliver,
                  RequestReplay, ReplayEnds, RetryJob, purge
    <2>2. store' = [t \in Tables |-> store'[t]]
      BY <1>3 DEF Serialized, Jobs, AdvanceWatermark, Finalize, IngestNew, IngestAgain, Deliver,
                  RequestReplay, ReplayEnds, RetryJob, Put
    <2> QED
      BY <2>1, <2>2 DEF Serialized
  <1>4. CASE PlaceHold \/ ReleaseHold \/ PurgeBlocked
    BY <1>4 DEF PlaceHold, ReleaseHold, PurgeBlocked, Serialized
  <1>5. ASSUME NEW mode \in {"execute", "dry_run"}, PurgeSelect(mode)
        PROVE  Serialized'
    BY <1>5 DEF PurgeSelect, Serialized
  <1>6. CASE PurgeCommit \/ PurgeFail
    BY <1>6 DEF PurgeCommit, PurgeFail, Serialized
  <1> QED
    BY <1>1, <1>2, <1>3, <1>4, <1>5, <1>6 DEF RetentionNext

\* The jobs that write the tables delete nothing: rows are added, and a receipt
\* or an outbox message is replaced under its key.
LEMMA JobsKeep == Serialized /\ Jobs => Keeps(store, store')
  <1> SUFFICES ASSUME Serialized, Jobs
               PROVE  Keeps(store, store')
    OBVIOUS
  <1> USE DEF Serialized
  <1>1. CASE AdvanceWatermark \/ Finalize
    <2>1. \A t \in Tables : store[t] \subseteq store'[t]
      BY <1>1 DEF AdvanceWatermark, Finalize, Put, Tables
    <2> QED
      BY <2>1, PutKeeps
  <1>2. ASSUME NEW e \in Events, IngestNew(e) \/ RequestReplay(e) \/ ReplayEnds(e) \/ RetryJob(e)
        PROVE  Keeps(store, store')
    <2>1. CASE IngestNew(e)
      <3>1. \A t \in Tables : store[t] \subseteq store'[t]
        BY <2>1 DEF IngestNew, Tables
      <3> QED
        BY <3>1, PutKeeps
    <2>2. CASE RequestReplay(e) \/ RetryJob(e)
      <3>1. \A t \in Tables : store[t] \subseteq store'[t]
        BY <2>2 DEF RequestReplay, RetryJob, Put, Tables
      <3> QED
        BY <3>1, PutKeeps
    <2>3. CASE ReplayEnds(e)
      <3>1. \A t \in Tables : store[t] \subseteq store'[t]
        BY <2>3 DEF ReplayEnds, Tables
      <3> QED
        BY <3>1, PutKeeps
    <2> QED
      BY <1>2, <2>1, <2>2, <2>3
  <1>3. ASSUME NEW e \in Events, IngestAgain(e)
        PROVE  Keeps(store, store')
    <2>1. PICK r \in store["receipt"] :
            /\ store'["receipt"] = (store["receipt"] \ {r}) \cup {[r EXCEPT !.seen = day]}
            /\ r.event = e
            /\ \A t \in Tables \ {"receipt"} : store[t] \subseteq store'[t]
      BY <1>3 DEF IngestAgain, Tables
    <2>2. [r EXCEPT !.seen = day].event = r.event
      OBVIOUS
    <2>3. ASSUME NEW q \in store["receipt"]
          PROVE  \E p \in store'["receipt"] : Key("receipt", p) = Key("receipt", q)
      BY <2>1, <2>2 DEF Key
    <2> QED
      BY <2>1, <2>3 DEF Keeps, Tables
  <1>4. ASSUME NEW e \in Events, Deliver(e)
        PROVE  Keeps(store, store')
    <2>1. PICK r \in store["outbox"], status \in {"delivered", "failed"} :
            /\ store'["outbox"] = (store["outbox"] \ {r})
                                    \cup {[r EXCEPT !.status = status, !.at = day]}
            /\ \A t \in Tables \ {"outbox"} : store'[t] = store[t]
      BY <1>4 DEF Deliver, Tables
    <2>2. [r EXCEPT !.status = status, !.at = day].event = r.event
      OBVIOUS
    <2>3. ASSUME NEW q \in store["outbox"]
          PROVE  \E p \in store'["outbox"] : Key("outbox", p) = Key("outbox", q)
      BY <2>1, <2>2 DEF Key
    <2> QED
      BY <2>1, <2>3 DEF Keeps, Tables
  <1> QED
    BY <1>1, <1>2, <1>3, <1>4 DEF Jobs

\* While a hold is active no row disappears: the purge that could delete is not
\* under way, and nothing else deletes.
THEOREM HoldStopsPurge == RetentionSpec => HoldFreezes
  <1>1. Serialized /\ [RetentionNext]_retentionVars /\ holds > 0 => Keeps(store, store')
    <2> SUFFICES ASSUME Serialized, [RetentionNext]_retentionVars, holds > 0
                 PROVE  Keeps(store, store')
      OBVIOUS
    <2>1. CASE Jobs
      BY <2>1, JobsKeep
    <2>2. CASE UNCHANGED store
      BY <2>2, PutKeeps
    <2>3. ~PurgeCommit
      BY DEF Serialized, PurgeCommit
    <2>4. Jobs \/ UNCHANGED store \/ PurgeCommit
      BY DEF RetentionNext, retentionVars, NextDay, PlaceHold, ReleaseHold, PurgeSelect, PurgeBlocked, PurgeFail
    <2> QED
      BY <2>1, <2>2, <2>3, <2>4
  <1>2. Serialized /\ [RetentionNext]_retentionVars =>
          [holds > 0 => \A t \in Tables : \A r \in store[t] :
                          \E q \in store'[t] : Key(t, q) = Key(t, r)]_retentionVars
    BY <1>1 DEF Keeps
  <1> QED
    BY <1>2, SerializedInit, SerializedStep, PTL DEF RetentionSpec, HoldFreezes
-----------------------------------------------------------------------------
(* The replay lineage.  A batch takes a decision that needs a replay only   *)
(* with the request of a job that has ended, and an event only when no      *)
(* decision refers to it; neither can change until the batch is deleted.    *)

\* States a replay job does not leave for its first run again.
Ended == {"succeeded", "failed", "requeued"}

Lineage ==
    /\ store = [t \in Tables |-> store[t]]
    /\ job \in [Events -> {"none", "queued"} \cup Ended]
    /\ \A d \in store["decision"] : d.event \in Events
    /\ \A r \in store["request"] : r.event \in Events
    /\ running = "none" => plan = {}
    /\ \A c \in plan :
         /\ c[1] = "decision" =>
              /\ c[2] \in store["decision"]
              /\ c[2].replay => job[c[2].event] \in Ended
         /\ c[1] = "request" => c[2] \in store["request"] /\ job[c[2].event] \in Ended
         /\ c[1] = "event" => /\ c[2] \in store["event"]
                              /\ \A d \in Refer(c[2].event) : ~d.replay
    /\ ReplayLineageKept

\* A batch consists of candidates of the scopes; its decisions that need a replay
\* belong to requests that may be purged.
LEMMA Selected ==
    ASSUME NEW batch \in Batches, NEW c \in batch
    PROVE  /\ c[1] = "request" => c \in RequestCandidates
           /\ c[1] = "window" => c \in WindowCandidates
           /\ c[1] = "decision" => c \in DecisionCandidates(RequestCandidates)
           /\ c[1] = "event" => c \in EventCandidates
  <1>1. PICK requests \in SUBSET RequestCandidates :
          \E i \in Scopes : c \in Candidates(requests)[i]
    <2>1. PICK requests \in SUBSET RequestCandidates :
            LET scopes == Candidates(requests)
                all == UNION {scopes[i] : i \in Scopes}
            IN  batch \in IF Cardinality(all) <= Limit THEN {all} ELSE kSubset(Limit, all)
      BY DEF Batches
    <2>2. batch \subseteq UNION {Candidates(requests)[i] : i \in Scopes}
      BY <2>1 DEF kSubset
    <2> QED
      BY <2>2
  <1>2. \/ c \in Outbox("delivered", DeliveredDays) \/ c \in Outbox("failed", FailedDays)
        \/ c \in RevisionCandidates \/ c \in RequestCandidates \/ c \in WindowCandidates
        \/ c \in DecisionCandidates(requests) \/ c \in EventCandidates \/ c \in RawCandidates
        \/ c \in ReceiptCandidates \/ c \in WatermarkCandidates
    BY <1>1 DEF Candidates, Scopes
  <1>3. DecisionCandidates(requests) \subseteq DecisionCandidates(RequestCandidates)
    BY DEF DecisionCandidates, Rows
  <1>4. /\ \A d \in Outbox("delivered", DeliveredDays) : d[1] = "outbox"
        /\ \A d \in Outbox("failed", FailedDays) : d[1] = "outbox"
        /\ \A d \in RevisionCandidates : d[1] = "revision"
        /\ \A d \in RequestCandidates : d[1] = "request"
        /\ \A d \in WindowCandidates : d[1] = "window"
        /\ \A d \in DecisionCandidates(requests) : d[1] = "decision"
        /\ \A d \in EventCandidates : d[1] = "event"
        /\ \A d \in RawCandidates : d[1] = "raw"
        /\ \A d \in ReceiptCandidates : d[1] = "receipt"
        /\ \A d \in WatermarkCandidates : d[1] = "watermark"
    BY DEF Outbox, RevisionCandidates, RequestCandidates, WindowCandidates,
           DecisionCandidates, EventCandidates, RawCandidates, ReceiptCandidates,
           WatermarkCandidates, Rows
  <1> QED
    BY <1>2, <1>3, <1>4

\* Nothing is stored or planned yet.
LEMMA LineageInit == RetentionInit => Lineage
  BY DEF RetentionInit, Lineage, ReplayLineageKept, Refer, Tables

\* What keeps the lineage from one state to the next: no row of the four tables
\* it consists of changes, a job only leaves its first run, and the batch stays.
LEMMA LineageStays ==
    ASSUME Lineage,
           store' = [t \in Tables |-> store'[t]],
           store'["decision"] = store["decision"],
           store'["event"] = store["event"],
           store["request"] = store'["request"],
           job' \in [Events -> {"none", "queued"} \cup Ended],
           \A e \in Events : job'[e] # job[e] => job[e] # "none" /\ job'[e] \in Ended,
           plan' = plan, running' = running
    PROVE  Lineage'
  <1>1. \A e : Refer(e)' = Refer(e)
    BY DEF Refer
  <1>2. ReplayLineageKept'
    BY <1>1 DEF Lineage, ReplayLineageKept, Ended
  <1>3. \A f \in Events : job[f] \in Ended => job'[f] \in Ended
    BY DEF Lineage, Ended
  <1> QED
    BY <1>1, <1>2, <1>3 DEF Lineage

\* Each transaction keeps the lineage.
LEMMA LineageStep == Lineage /\ [RetentionNext]_retentionVars => Lineage'
  <1> SUFFICES ASSUME Lineage, [RetentionNext]_retentionVars
               PROVE  Lineage'
    OBVIOUS
  <1>1. CASE UNCHANGED retentionVars
    BY <1>1, LineageStays DEF retentionVars, Lineage
  <1>2. CASE NextDay \/ PlaceHold \/ ReleaseHold \/ PurgeBlocked
    BY <1>2, LineageStays DEF NextDay, PlaceHold, ReleaseHold, PurgeBlocked, Lineage
  <1>3. CASE AdvanceWatermark \/ Finalize
    BY <1>3, LineageStays DEF AdvanceWatermark, Finalize, Put, Tables, Lineage, purge
  <1>4. ASSUME NEW e \in Events, Deliver(e) \/ ReplayEnds(e) \/ RetryJob(e)
        PROVE  Lineage'
    <2>1. CASE Deliver(e)
      BY <2>1, LineageStays DEF Deliver, Tables, Lineage, purge
    <2>2. CASE ReplayEnds(e)
      <3>1. /\ store'["decision"] = store["decision"]
            /\ store'["event"] = store["event"]
            /\ store'["request"] = store["request"]
            /\ store' = [t \in Tables |-> store'[t]]
        BY <2>2 DEF ReplayEnds, Tables, Lineage
      <3>2. /\ job[e] \in {"queued", "requeued"}
            /\ job' = [job EXCEPT ![e] = "succeeded"] \/ job' = [job EXCEPT ![e] = "failed"]
            /\ plan' = plan /\ running' = running
        BY <2>2 DEF ReplayEnds, purge
      <3>3. /\ job' \in [Events -> {"none", "queued"} \cup Ended]
            /\ \A f \in Events : job'[f] # job[f] => job[f] # "none" /\ job'[f] \in Ended
        BY <3>2 DEF Lineage, Ended
      <3> QED
        BY <3>1, <3>2, <3>3, LineageStays
    <2>3. CASE RetryJob(e)
      <3>1. /\ job' \in [Events -> {"none", "queued"} \cup Ended]
            /\ \A f \in Events : job'[f] # job[f] => job[f] # "none" /\ job'[f] \in Ended
        BY <2>3 DEF RetryJob, Lineage, Ended
      <3>2. UNCHANGED <<store, plan, running>>
        BY <2>3 DEF RetryJob, purge
      <3> QED
        BY <3>1, <3>2, LineageStays DEF Lineage
    <2> QED
      BY <1>4, <2>1, <2>2, <2>3
  <1>5. ASSUME NEW e \in Events, IngestNew(e)
        PROVE  Lineage'
    <2> DEFINE d == [event |-> e, again |-> FALSE,
                     replay |-> Passed(Watermark.version) \/ WindowFinal,
                     version |-> WindowVersion, watermark |-> Watermark.version, at |-> day]
               r == [event |-> e, at |-> day]
    <2>1. store'["decision"] = store["decision"] \cup {d}
      BY <1>5 DEF IngestNew, Lineage, Tables
    <2>2. store'["event"] = store["event"] \cup {r}
      BY <1>5 DEF IngestNew, Lineage, Tables
    <2>3. /\ store' = [t \in Tables |-> store'[t]]
          /\ store'["request"] = store["request"]
          /\ UNCHANGED <<job, plan, running>>
          /\ Refer(e) = {} /\ job[e] = "none"
          /\ \A q \in store["event"] : q.event # e
      BY <1>5 DEF IngestNew, Lineage, Tables, purge
    <2>4. d.event = e /\ r.event = e
      OBVIOUS
    <2> HIDE DEF d, r
    <2>5. \A f : f # e => Refer(f)' = Refer(f)
      BY <2>1, <2>4 DEF Refer
    <2>6. ReplayLineageKept'
      <3>1. \A q \in store'["decision"] : q.replay => \E p \in store'["event"] : p.event = q.event
        BY <2>1, <2>2, <2>4 DEF ReplayLineageKept, Lineage
      <3>2. ASSUME NEW f \in Events, job'[f] = "queued"
            PROVE  /\ \E q \in Refer(f)' : q.replay
                   /\ \E q \in store'["request"] : q.event = f
        <4>1. f # e /\ job[f] = "queued"
          BY <2>3, <3>2
        <4> QED
          BY <2>3, <2>5, <4>1 DEF ReplayLineageKept, Lineage
      <3> QED
        BY <3>1, <3>2 DEF ReplayLineageKept
    <2>7. \A c \in plan' : c[1] = "event" => /\ c[2] \in store'["event"]
                                             /\ \A q \in Refer(c[2].event)' : ~q.replay
      BY <2>2, <2>3, <2>5 DEF Lineage
    <2> QED
      BY <2>1, <2>3, <2>4, <2>6, <2>7 DEF Lineage
  <1>6. ASSUME NEW e \in Events, IngestAgain(e)
        PROVE  Lineage'
    <2> DEFINE d == [event |-> e, again |-> TRUE, replay |-> FALSE, version |-> WindowVersion,
                     watermark |-> Watermark.version, at |-> day]
    <2>1. store'["decision"] = store["decision"] \cup {d}
      BY <1>6 DEF IngestAgain, Lineage, Tables
    <2>2. /\ store' = [t \in Tables |-> store'[t]]
          /\ store'["request"] = store["request"]
          /\ store'["event"] = store["event"]
          /\ UNCHANGED <<job, plan, running>>
      BY <1>6 DEF IngestAgain, Lineage, Tables, purge
    <2>3. d.event = e /\ d.replay = FALSE
      OBVIOUS
    <2> HIDE DEF d
    <2>4. \A f : /\ Refer(f) \subseteq Refer(f)'
                 /\ \A q \in Refer(f)' : q \in Refer(f) \/ ~q.replay
      BY <2>1, <2>3 DEF Refer
    <2>5. ReplayLineageKept'
      BY <2>1, <2>2, <2>3, <2>4 DEF ReplayLineageKept, Lineage
    <2> QED
      BY <2>1, <2>2, <2>3, <2>4, <2>5 DEF Lineage
  <1>7. ASSUME NEW e \in Events, RequestReplay(e)
        PROVE  Lineage'
    <2>1. PICK r \in [event : {e}, at : {day}] :
            store'["request"] = store["request"] \cup {r}
      BY <1>7 DEF RequestReplay, Put, Lineage, Tables
    <2>2. /\ store' = [t \in Tables |-> store'[t]]
          /\ store'["decision"] = store["decision"]
          /\ store'["event"] = store["event"]
          /\ UNCHANGED <<plan, running>>
          /\ job' = [job EXCEPT ![e] = "queued"]
          /\ job[e] = "none"
          /\ \E q \in Refer(e) : q.replay
      BY <1>7 DEF RequestReplay, Put, Lineage, Tables, purge
    <2>3. \A f : Refer(f)' = Refer(f)
      BY <2>2 DEF Refer
    <2>4. /\ job' \in [Events -> {"none", "queued"} \cup Ended]
          /\ \A f \in Events : f # e => job'[f] = job[f]
          /\ job'[e] = "queued"
      BY <2>2 DEF Lineage
    <2>5. ReplayLineageKept'
      <3>1. \A d \in store'["decision"] :
              d.replay => \E q \in store'["event"] : q.event = d.event
        BY <2>2 DEF ReplayLineageKept, Lineage
      <3>2. ASSUME NEW f \in Events, job'[f] = "queued"
            PROVE  /\ \E d \in Refer(f)' : d.replay
                   /\ \E q \in store'["request"] : q.event = f
        <4>1. CASE f = e
          BY <2>1, <2>2, <2>3, <4>1
        <4>2. CASE f # e
          <5>1. /\ \E d \in Refer(f) : d.replay
                /\ \E q \in store["request"] : q.event = f
            BY <2>4, <3>2, <4>2 DEF ReplayLineageKept, Lineage
          <5> QED
            BY <2>1, <2>3, <5>1
        <4> QED
          BY <4>1, <4>2
      <3> QED
        BY <3>1, <3>2 DEF ReplayLineageKept
    <2>6. \A c \in plan : job[c[2].event] \in Ended => job'[c[2].event] \in Ended
      BY <2>2, <2>4 DEF Lineage, Ended
    <2>7. /\ store' = [t \in Tables |-> store'[t]]
          /\ \A d \in store'["decision"] : d.event \in Events
          /\ \A q \in store'["request"] : q.event \in Events
          /\ running' = "none" => plan' = {}
      BY <2>1, <2>2 DEF Lineage
    <2>8. \A c \in plan' :
            /\ c[1] = "decision" => /\ c[2] \in store'["decision"]
                                    /\ c[2].replay => job'[c[2].event] \in Ended
            /\ c[1] = "request" => c[2] \in store'["request"] /\ job'[c[2].event] \in Ended
            /\ c[1] = "event" => /\ c[2] \in store'["event"]
                                 /\ \A d \in Refer(c[2].event)' : ~d.replay
      BY <2>1, <2>2, <2>3, <2>6 DEF Lineage
    <2> QED
      BY <2>4, <2>5, <2>7, <2>8 DEF Lineage
  <1>8. ASSUME NEW mode \in {"execute", "dry_run"}, PurgeSelect(mode)
        PROVE  Lineage'
    <2>1. /\ UNCHANGED <<store, job>>
          /\ running' = mode /\ plan' \in Batches
      BY <1>8 DEF PurgeSelect
    <2>2. ASSUME NEW c \in plan'
          PROVE  /\ c[1] = "decision" =>
                      /\ c[2] \in store["decision"]
                      /\ c[2].replay => job[c[2].event] \in Ended
                 /\ c[1] = "request" =>
                      c[2] \in store["request"] /\ job[c[2].event] \in Ended
                 /\ c[1] = "event" => /\ c[2] \in store["event"]
                                      /\ \A d \in Refer(c[2].event) : ~d.replay
      <3>1. \A q \in RequestCandidates :
              q[2] \in store["request"] /\ job[q[2].event] \in Ended
        BY DEF RequestCandidates, Rows, Ended
      <3>2. c[1] = "decision" =>
              /\ c[2] \in store["decision"]
              /\ c[2].replay => \E q \in RequestCandidates : q[2].event = c[2].event
        BY <2>1, <2>2, Selected DEF DecisionCandidates, Rows
      <3>3. c[1] = "event" => c[2] \in store["event"] /\ Refer(c[2].event) = {}
        BY <2>1, <2>2, Selected DEF EventCandidates, Rows
      <3> QED
        BY <2>1, <2>2, <3>1, <3>2, <3>3, Selected
    <2>3. \A f : Refer(f)' = Refer(f)
      BY <2>1 DEF Refer
    <2> QED
      BY <2>1, <2>2, <2>3 DEF Lineage, ReplayLineageKept
  <1>9. CASE PurgeCommit \/ PurgeFail
    <2>1. /\ store' = [t \in Tables |-> store'[t]]
          /\ \A t \in Tables : store'[t] \subseteq store[t]
          /\ \A t \in Tables : \A r \in store[t] : r \in store'[t] \/ Deleted(t, r)
          /\ job' = job /\ plan' = {} /\ running' = "none"
      BY <1>9 DEF PurgeCommit, PurgeFail, Lineage
    <2>2. \A t \in {"decision", "event", "request"} : \A r :
            Deleted(t, r) => \E c \in plan : c[1] = t /\ c[2] = r
      BY DEF Deleted, Key
    <2>3. \A d \in store["decision"] : d.replay /\ job[d.event] \notin Ended =>
            d \in store'["decision"]
      BY <2>1, <2>2 DEF Lineage, Tables
    <2>4. \A r \in store["request"] : job[r.event] \notin Ended => r \in store'["request"]
      BY <2>1, <2>2 DEF Lineage, Tables
    <2>5. \A r \in store["event"] : (\E d \in Refer(r.event) : d.replay) => r \in store'["event"]
      BY <2>1, <2>2 DEF Lineage, Tables
    <2>6. \A d \in store'["decision"] : d.replay => \E r \in store'["event"] : r.event = d.event
      BY <2>1, <2>5 DEF Lineage, ReplayLineageKept, Refer, Tables
    <2>7. ASSUME NEW f \in Events, job[f] = "queued"
          PROVE  /\ \E d \in Refer(f)' : d.replay
                 /\ \E r \in store'["request"] : r.event = f
      BY <2>3, <2>4, <2>7 DEF Lineage, ReplayLineageKept, Refer, Ended
    <2>8. ReplayLineageKept'
      BY <2>1, <2>6, <2>7 DEF ReplayLineageKept
    <2> QED
      BY <2>1, <2>8 DEF Lineage, Tables
  <1> QED
    BY <1>1, <1>2, <1>3, <1>4, <1>5, <1>6, <1>7, <1>8, <1>9 DEF RetentionNext, Jobs

\* While the replay of a decision is still to come, the purge leaves the decision,
\* its event and its request: the first run is never refused for lost lineage.
THEOREM ReplayLineageIsKept == RetentionSpec => []ReplayLineageKept
  <1>1. Lineage => ReplayLineageKept
    BY DEF Lineage
  <1> QED
    BY <1>1, LineageInit, LineageStep, PTL DEF RetentionSpec

-----------------------------------------------------------------------------
(* The newest window.  Provisional versions may go once the window has been *)
(* finalized, and from then on the newest version is a final one.           *)

NewestFinal ==
    /\ store = [t \in Tables |-> store[t]]
    /\ \A r \in store["window"] : /\ r.version \in Nat
                                  /\ r.state \in {"provisional", "finalized"}
    /\ \A r, q \in store["window"] : r.version = q.version => r = q
    /\ store["window"] # {} =>
         \E r \in store["window"] : \A q \in store["window"] : q.version <= r.version
    /\ finals # {} => WindowFinal
    /\ running = "none" => plan = {}
    /\ \A c \in plan : c[1] = "window" => c[2].state = "provisional" /\ finals # {}
\* Two states are compared by the newest row of each: it is the one that no other
\* row exceeds.
LEMMA NewestRow ==
    ASSUME NEW rows, NEW r \in rows, \A q \in rows : q.version \in Nat,
           \A q \in rows : q.version <= r.version,
           \A p, q \in rows : p.version = q.version => p = q
    PROVE  Newest(rows) = r
  <1>1. /\ Newest(rows) \in rows
        /\ \A q \in rows : q.version <= Newest(rows).version
    BY DEF Newest
  <1>2. Newest(rows).version = r.version
    BY <1>1
  <1> QED
    BY <1>1, <1>2

\* No window and no final exists yet.
LEMMA NewestFinalInit == RetentionInit => NewestFinal
  BY DEF RetentionInit, NewestFinal, Tables

\* What keeps the window rows from one state to the next.
LEMMA WindowStays ==
    ASSUME NewestFinal,
           store' = [t \in Tables |-> store'[t]],
           store'["window"] = store["window"], finals' = finals,
           plan' = plan, running' = running
    PROVE  /\ NewestFinal'
           /\ WindowVersion' = WindowVersion
           /\ WindowFinal' = WindowFinal
  <1>1. WindowVersion' = WindowVersion /\ WindowFinal' = WindowFinal
    BY DEF WindowVersion, WindowFinal, Window
  <1> QED
    BY <1>1 DEF NewestFinal

\* A further version of the window becomes the newest one.
LEMMA WindowGrows ==
    ASSUME NewestFinal,
           store' = [t \in Tables |-> store'[t]],
           NEW r, r.version = WindowVersion + 1, r.state \in {"provisional", "finalized"},
           WindowFinal => r.state = "finalized",
           store'["window"] = store["window"] \cup {r},
           finals' = finals \/ r.state = "finalized",
           plan' = plan, running' = running, finals \subseteq finals'
    PROVE  /\ NewestFinal'
           /\ WindowVersion' >= WindowVersion
           /\ WindowFinal => WindowFinal'
  <1>1. /\ WindowVersion \in Nat
        /\ \A q \in store["window"] : q.version <= WindowVersion
    <2>1. CASE store["window"] = {}
      BY <2>1 DEF WindowVersion
    <2>2. CASE store["window"] # {}
      <3>1. PICK q \in store["window"] : \A p \in store["window"] : p.version <= q.version
        BY <2>2 DEF NewestFinal
      <3>2. Window = q
        BY <3>1, NewestRow DEF NewestFinal, Window
      <3> QED
        BY <2>2, <3>1, <3>2 DEF NewestFinal, WindowVersion
    <2> QED
      BY <2>1, <2>2
  <1>2. /\ \A q \in store'["window"] : q.version \in Nat /\ q.version <= r.version
        /\ \A p, q \in store'["window"] : p.version = q.version => p = q
        /\ \A q \in store'["window"] : q.state \in {"provisional", "finalized"}
    BY <1>1 DEF NewestFinal
  <1>3. Window' = r
    BY <1>2, NewestRow DEF Window
  <1>4. /\ WindowVersion' = r.version
        /\ WindowFinal' <=> r.state = "finalized"
    BY <1>3 DEF WindowVersion, WindowFinal
  <1> QED
    BY <1>1, <1>2, <1>4 DEF NewestFinal

\* The deletes leave the newest window: the ones they take are provisional, and a
\* final one is newer.
LEMMA WindowPurged ==
    ASSUME NewestFinal, PurgeCommit \/ PurgeFail
    PROVE  /\ NewestFinal'
           /\ store["window"] # {} => /\ WindowVersion' = WindowVersion
                                      /\ WindowFinal' = WindowFinal
  <1>1. /\ store' = [t \in Tables |-> store'[t]]
        /\ store'["window"] \subseteq store["window"]
        /\ \A r \in store["window"] : r \in store'["window"] \/ Deleted("window", r)
        /\ finals' = finals /\ plan' = {} /\ running' = "none"
    BY DEF PurgeCommit, PurgeFail, NewestFinal, Tables
  <1>2. \A r : Deleted("window", r) => r.state = "provisional" /\ finals # {}
    BY DEF Deleted, Key, NewestFinal
  <1>3. CASE store["window"] = {}
    <2>1. store'["window"] = store["window"]
      BY <1>1, <1>3
    <2>2. WindowFinal' = WindowFinal
      BY <2>1 DEF WindowFinal, Window
    <2> QED
      BY <1>1, <1>3, <2>1, <2>2 DEF NewestFinal
  <1>4. CASE store["window"] # {}
    <2>1. PICK r \in store["window"] : \A q \in store["window"] : q.version <= r.version
      BY <1>4 DEF NewestFinal
    <2>2. Window = r
      BY <2>1, NewestRow DEF NewestFinal, Window
    <2>3. r \in store'["window"]
      BY <1>1, <1>2, <2>1, <2>2 DEF NewestFinal, WindowFinal
    <2>4. Window' = r
      BY <1>1, <2>1, <2>3, NewestRow DEF NewestFinal, Window
    <2>5. WindowVersion' = WindowVersion /\ WindowFinal' = WindowFinal
      BY <1>4, <2>2, <2>3, <2>4 DEF WindowVersion, WindowFinal
    <2> QED
      BY <1>1, <2>1, <2>3, <2>5 DEF NewestFinal
  <1> QED
    BY <1>3, <1>4

\* Each transaction keeps the newest window.
LEMMA NewestFinalStep ==
    NewestFinal /\ [RetentionNext]_retentionVars =>
      /\ NewestFinal'
      /\ store["window"] # {} => /\ WindowVersion' >= WindowVersion
                                 /\ WindowFinal => WindowFinal'
  <1> SUFFICES ASSUME NewestFinal, [RetentionNext]_retentionVars
               PROVE  /\ NewestFinal'
                      /\ store["window"] # {} => /\ WindowVersion' >= WindowVersion
                                                 /\ WindowFinal => WindowFinal'
    OBVIOUS
  <1>0. store["window"] # {} => WindowVersion \in Nat
    BY NewestRow DEF NewestFinal, WindowVersion, Window
  <1>1. CASE UNCHANGED retentionVars \/ NextDay \/ PlaceHold \/ ReleaseHold \/ PurgeBlocked
    <2>1. UNCHANGED <<store, finals, plan, running>>
      BY <1>1 DEF retentionVars, NextDay, PlaceHold, ReleaseHold, PurgeBlocked
    <2>2. store' = [t \in Tables |-> store'[t]] /\ store'["window"] = store["window"]
      BY <2>1 DEF NewestFinal
    <2> QED
      BY <1>0, <2>1, <2>2, WindowStays
  <1>2. CASE AdvanceWatermark
    <2>1. /\ store' = [t \in Tables |-> store'[t]]
          /\ store'["window"] = store["window"]
          /\ UNCHANGED <<finals, plan, running>>
      BY <1>2 DEF AdvanceWatermark, Put, Tables, NewestFinal, purge
    <2> QED
      BY <1>0, <2>1, WindowStays
  <1>3. CASE Finalize
    <2> DEFINE r == [version |-> WindowVersion + 1, state |-> "finalized", at |-> Window.at]
    <2>1. /\ store' = [t \in Tables |-> store'[t]]
          /\ store'["window"] = store["window"] \cup {r}
          /\ finals \subseteq finals' /\ UNCHANGED <<plan, running>>
      BY <1>3 DEF Finalize, Put, Tables, NewestFinal, purge
    <2>2. r.version = WindowVersion + 1 /\ r.state = "finalized"
      OBVIOUS
    <2> HIDE DEF r
    <2> QED
      BY <2>1, <2>2, WindowGrows
  <1>4. ASSUME NEW e \in Events, IngestNew(e)
        PROVE  /\ NewestFinal'
               /\ store["window"] # {} => /\ WindowVersion' >= WindowVersion
                                          /\ WindowFinal => WindowFinal'
    <2> DEFINE late == Passed(Watermark.version) \/ WindowFinal
               r == [version |-> WindowVersion + 1, state |-> "provisional", at |-> day]
    <2>1. /\ store' = [t \in Tables |-> store'[t]]
          /\ store'["window"] = IF late THEN store["window"] ELSE store["window"] \cup {r}
          /\ UNCHANGED <<finals, plan, running>>
      BY <1>4 DEF IngestNew, Tables, NewestFinal, purge
    <2>2. r.version = WindowVersion + 1 /\ r.state = "provisional"
      OBVIOUS
    <2>3. WindowFinal => late
      OBVIOUS
    <2> HIDE DEF r, late
    <2>4. CASE late
      BY <1>0, <2>1, <2>4, WindowStays
    <2>5. CASE ~late
      BY <2>1, <2>2, <2>3, <2>5, WindowGrows
    <2> QED
      BY <2>4, <2>5
  <1>5. ASSUME NEW e \in Events, IngestAgain(e) \/ Deliver(e) \/ RequestReplay(e) \/ RetryJob(e)
        PROVE  /\ NewestFinal'
               /\ store["window"] # {} => /\ WindowVersion' >= WindowVersion
                                          /\ WindowFinal => WindowFinal'
    <2>1. /\ store' = [t \in Tables |-> store'[t]]
          /\ store'["window"] = store["window"]
          /\ UNCHANGED <<finals, plan, running>>
      BY <1>5 DEF IngestAgain, Deliver, RequestReplay, RetryJob, Put, Tables, NewestFinal, purge
    <2> QED
      BY <1>0, <2>1, WindowStays
  <1>6. ASSUME NEW e \in Events, ReplayEnds(e)
        PROVE  /\ NewestFinal'
               /\ store["window"] # {} => /\ WindowVersion' >= WindowVersion
                                          /\ WindowFinal => WindowFinal'
    <2> DEFINE r == [version |-> WindowVersion + 1, state |-> "finalized",
                     at |-> IF store["window"] = {} THEN day ELSE Window.at]
    <2>1. /\ store' = [t \in Tables |-> store'[t]]
          /\ \/ store'["window"] = store["window"] \cup {r}
             \/ store'["window"] = store["window"]
          /\ UNCHANGED <<finals, plan, running>>
      BY <1>6 DEF ReplayEnds, Tables, NewestFinal, purge
    <2>2. r.version = WindowVersion + 1 /\ r.state = "finalized"
      OBVIOUS
    <2> HIDE DEF r
    <2>3. CASE store'["window"] = store["window"] \cup {r}
      BY <2>1, <2>2, <2>3, WindowGrows
    <2>4. CASE store'["window"] = store["window"]
      BY <1>0, <2>1, <2>4, WindowStays
    <2> QED
      BY <2>1, <2>3, <2>4
  <1>7. ASSUME NEW mode \in {"execute", "dry_run"}, PurgeSelect(mode)
        PROVE  /\ NewestFinal'
               /\ store["window"] # {} => /\ WindowVersion' >= WindowVersion
                                          /\ WindowFinal => WindowFinal'
    <2>1. /\ UNCHANGED <<store, finals>>
          /\ running' = mode /\ plan' \in Batches
      BY <1>7 DEF PurgeSelect
    <2>2. \A c \in plan' : c[1] = "window" => c[2].state = "provisional" /\ finals # {}
      BY <2>1, Selected DEF WindowCandidates, Rows
    <2>3. WindowVersion' = WindowVersion /\ WindowFinal' = WindowFinal
      BY <2>1 DEF WindowVersion, WindowFinal, Window
    <2>4. NewestFinal'
      <3>1. finals' # {} => WindowFinal'
        BY <2>1, <2>3 DEF NewestFinal
      <3> QED
        BY <2>1, <2>2, <3>1 DEF NewestFinal
    <2> QED
      BY <1>0, <2>3, <2>4
  <1>8. CASE PurgeCommit \/ PurgeFail
    BY <1>0, <1>8, WindowPurged
  <1> QED
    BY <1>1, <1>2, <1>3, <1>4, <1>5, <1>6, <1>7, <1>8 DEF RetentionNext, Jobs

\* No purge takes the newest version of the window, and a final window stays final.
THEOREM NewestWindowIsKept == RetentionSpec => NewestWindowKept
  <1>1. NewestFinal /\ [RetentionNext]_retentionVars =>
          [store["window"] # {} => /\ WindowVersion' >= WindowVersion
                                   /\ WindowFinal => WindowFinal']_retentionVars
    BY NewestFinalStep
  <1> QED
    BY <1>1, NewestFinalInit, NewestFinalStep, PTL DEF RetentionSpec, NewestWindowKept
=============================================================================
