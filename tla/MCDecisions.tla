----------------------------- MODULE MCDecisions -----------------------------
(***************************************************************************)
(* Small instances of market-context evaluation and of decision evaluation *)
(* for TLC.  The decisions consume the product view of an assessment, which *)
(* both take from MarketContext; a behaviour is one of the context jobs of  *)
(* one stream, of the jobs of two streams and the reader that monitors     *)
(* them, of the decision jobs while portfolios and strategies change, or of *)
(* these jobs and a reader, chosen with the initial state.                 *)
(***************************************************************************)
EXTENDS Integers, Sequences, FiniteSets, FiniteSetsExt, Functions, TLC

CONSTANTS Worker, Idle, Part

VARIABLES
    part,
    now, windows, jobs, attempt, manifests, snapshots, assessments, monitor,
    clock, policies, registry, portfolios, moves, intents, evaluations, attempts, evidence, reader

contextVars == <<now, windows, jobs, attempt, manifests, snapshots, assessments, monitor>>
decisionVars == <<clock, policies, registry, portfolios, moves, intents, evaluations, attempts,
                  evidence, reader>>

Symmetry == Permutations(Worker)

-----------------------------------------------------------------------------
(* The market-context policy, shared by both *)

Timeframes == <<"h", "d">>
Duration == [h |-> 1, d |-> 2]
Feature(key, frame, lookback, formula) ==
    [key |-> key, timeframe |-> frame, lookback |-> lookback, formula |-> formula]
Requirements == {Feature("sh", "h", 3, "slope"), Feature("sd", "d", 2, "slope"),
                 Feature("vh", "h", 3, "volatility"), Feature("vd", "d", 2, "volatility")}
Slope == [t \in {"h", "d"} |-> [threshold |-> 5, weight |-> 500]]
Volatility == [t \in {"h", "d"} |-> [low |-> 3, high |-> 12, weight |-> 500]]
Scale == 1000
Lifetime == 2

Final(stream, frame, start, close) ==
    [stream |-> stream, timeframe |-> frame, start |-> start, close |-> close,
     version |-> 2, finalized |-> start + Duration[frame]]
Pending(frame, start, close) == [timeframe |-> frame, start |-> start, close |-> close]

\* An identity is a digest: here a correction comes before what it corrects.
AssessmentDigest(a) ==
    (IF a.stream = "s" THEN 1 ELSE 2)
    - 10 * MapThenSumSet(LAMBDA w : w.version, UNION {Range(e.references) : e \in a.evidence})
JobDigest(id) == IF id[1] = "s" THEN 2 ELSE 1

Context == INSTANCE MarketContextJobs WITH
    Streams <- <<"s">>, StartTime <- 4, MaxTime <- 5, MaxVersion <- 4, MaxJobs <- 1,
    MaxRecords <- 1, MaxStreams <- 1, Overload <- 3, MaxAttempts <- 2,
    History <- {Final("s", "h", 1, 100), Final("s", "h", 2, 101), Final("s", "d", 0, 100)},
    Window <- {Pending("h", 3, 100), Pending("h", 3, 104), Pending("d", 2, 102)}

\* The windows of one boundary, of both streams, and one window of the next
Complete(streams) ==
    UNION {{Final(s, "h", 1, 100), Final(s, "h", 2, 101), Final(s, "h", 3, 104),
            Final(s, "d", 0, 100), Final(s, "d", 2, 102)} : s \in streams}

Monitoring == INSTANCE MarketContextJobs WITH
    Streams <- <<"s", "r">>, StartTime <- 4, MaxTime <- 5, MaxVersion <- 2, MaxJobs <- 2,
    MaxRecords <- 1, MaxStreams <- 1, Overload <- 3, MaxAttempts <- 2,
    History <- Complete({"s", "r"}), Window <- {}

-----------------------------------------------------------------------------
(* Two assessments, one policy of the decisions, and strategies whose       *)
(* signals are accepted, neutral, without a plan, and beyond the risk cap   *)

Assessed(trend, confidence) ==
    [stream |-> "s", asOf |-> 3, assessed |-> 3, expires |-> 5, status |-> "ready",
     trend |-> trend, volatility |-> "normal", confidence |-> confidence]
Candle(close, low, high, price) == [close |-> close, low |-> low, high |-> high, price |-> price]
Signal(index, direction) == [index |-> index, direction |-> direction, strength |-> 700]
Reference(behavior, lifecycle) ==
    [name |-> "ema-crossover", behavior |-> behavior, lifecycle |-> lifecycle]
Held(equity, positions) ==
    [status |-> "active", starting |-> 10000, equity |-> equity, positions |-> positions]
Row(id) == [id |-> id, mode |-> "paper", dataset |-> "d", updated |-> 2, status |-> "active",
            starting |-> 10000, equity |-> 10000, positions |-> {}]

Decisions == INSTANCE DecisionPipeline WITH
    now <- clock, jobs <- evaluations, attempt <- attempts,
    Rules <- [n \in {"ema-crossover", "rsi-threshold"} |->
        [trends |-> IF n = "rsi-threshold" THEN {"ranging"} ELSE {"trending_up", "trending_down"},
         volatilities |-> {"low", "normal"}, minimum |-> 600]],
    Generates <- (<<"accepted", "d">> :> {Signal(1, "long"), Signal(2, "long")})
              @@ (<<"neutral", "d">> :> {}) @@ (<<"flat", "d">> :> {Signal(2, "long")})
              @@ (<<"dear", "d">> :> {Signal(3, "short")}),
    ConfidenceWeight <- 600, RewardRisk <- 2, Validity <- 4,
    Equity <- 10000, MaxRisk <- 10, MaxNotional <- 100, MinScore <- 300, MinRewardRisk <- 1500,
    MaxGross <- 250, MaxConcentration <- 200, MaxCorrelation <- 850, MaxLoss <- 20,
    ExitDrawdown <- 150, Shocks <- {-100, -50, 50, 100},
    Mode <- {"research", "paper"},
    Datasets <- {[id |-> "d", stream |-> "s", asset |-> "btc", start |-> 0, end |-> 3,
                  candles |-> <<Candle(1, 90, 120, 100), Candle(2, 100, 110, 100),
                                Candle(3, 1900, 2100, 2000)>>]},
    Assessments <- {Assessed("trending_up", 800), Assessed("ranging", 500)},
    PolicyModes <- {[state |-> "enabled", modes |-> {"research", "paper"}],
                    [state |-> "disabled", modes |-> {"paper"}]},
    Strategies <- {Reference(b, "active") : b \in {"accepted", "neutral", "flat", "dear"}}
                  \cup {Reference("accepted", "deprecated")},
    Portfolio <- {[id |-> "p", mode |-> "paper", dataset |-> "d"],
                  [id |-> "r", mode |-> "shadow", dataset |-> "d"]},
    StartPortfolios <- {{}, {Row("p"), Row("q")}},
    Holdings <- {Held(3000, {}),
                 Held(8000, {[stream |-> "s", asset |-> "btc", side |-> "long", notional |-> 900]})},
    MaxAttempts <- 2, StartTime <- 3, MaxTime <- 4, MaxPolicies <- 1, MaxIntents <- 1, MaxMoves <- 1

-----------------------------------------------------------------------------
\* The initial choices of the decisions are made in behaviours of theirs only.
Init ==
    /\ part \in Part /\ Decisions!Init
    /\ IF part = "monitoring" THEN Monitoring!Init ELSE Context!Init
    /\ part \in {"context", "monitoring"} =>
         portfolios = {} /\ registry = {Reference("neutral", "active")}

\* Bound: while the streams are monitored no job is cancelled, each is requested
\* at its boundary, and only the jobs of one stream have a second boundary and
\* a second attempt.
Punctual ==
    \A id \in DOMAIN jobs :
        /\ ~jobs[id].cancel /\ jobs[id].requested = id[2]
        /\ id[1] = "r" => id[2] = 4 /\ ~(jobs[id].status = "queued" /\ jobs[id].attempts > 0)

Next ==
    \/ part = "context" /\ UNCHANGED <<part, monitor, decisionVars>> /\ Context!Next
    \/ part = "monitoring" /\ UNCHANGED <<part, decisionVars>> /\ Monitoring!Next /\ Punctual'
    \/ part = "decisions" /\ UNCHANGED <<part, contextVars, reader>> /\ Decisions!Next
    \/ part = "reading" /\ UNCHANGED <<part, contextVars, moves>> /\ Decisions!Next

Spec == Init /\ [][Next]_<<part, contextVars, decisionVars>>

-----------------------------------------------------------------------------
\* MarketContextJobs: committed rows pass their validators and have their
\* inputs, and the monitoring reader agrees with the product view.
ContextRowsSound ==
    /\ part = "context" => Context!ContextRowsSound
    /\ part = "monitoring" => Monitoring!ContextRowsSound

\* MarketContextJobs: an evaluation that found its inputs missing succeeds only
\* with windows stamped no later than its request.
RetryTakesNoLaterWindow == part = "context" => Context!RetryTakesNoLaterWindow

\* DecisionPipeline: the committed stages form one valid chain.
EvidenceSound == part \in {"decisions", "reading"} => Decisions!EvidenceSound

\* DecisionPipeline: an accepted evaluation respected every cap.
AcceptedIsAdmissible == part \in {"decisions", "reading"} => Decisions!AcceptedIsAdmissible
=============================================================================
