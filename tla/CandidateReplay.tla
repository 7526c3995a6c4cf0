-------------------------- MODULE CandidateReplay ---------------------------
(***************************************************************************)
(* What follows a successful experiment: its signals become trade          *)
(* candidates, the candidates are ranked, tried in rank order against the  *)
(* candles that follow them until one opens a simulated position, and the  *)
(* position is watched candle by candle to its exit                        *)
(* (research/candidate_application.py and what it calls).                  *)
(*                                                                         *)
(* Candle i of the dataset opens at time i - 1 and closes at time i, and   *)
(* closes with at most one signal, so that a signal, and the candidate made *)
(* of it, are named by the number of their candle.  Budgets are rounded to *)
(* money and quantities are cut to their unit where the code quantizes     *)
(* them; a division that Decimal ends at 28 digits is taken as exact.      *)
(***************************************************************************)
EXTENDS PaperPortfolio, FiniteSets

CONSTANTS
    CandleCount,    \* candles of the dataset
    Shapes,         \* what a candle may be: [low, high, close]
    Strengths,      \* absolute signal scores, in tenths
    Horizons,       \* horizons of an experiment, in candles
    Issues,         \* opening times of candles with a data issue, -1 for none
    MaxRank         \* rank limit of the risk policy

ASSUME DatasetAssumption ==
    /\ CandleCount \in Nat
    /\ Shapes \subseteq [low : Nat, high : Nat, close : Nat]
    /\ \A s \in Shapes : s.low > 0 /\ s.low <= s.close /\ s.close <= s.high
    /\ Strengths \subseteq 1..10 /\ Horizons \subseteq Nat \ {0} /\ Issues \subseteq Int

\* The fee rate is less than one.
ASSUME FeeRateAssumption ==
    \A product \in 0..(Quantum * Starting) : Fee(product) \in 0..HalfEven(product, Quantum)

VARIABLES
    data,       \* the experiment: candles, signals, horizon and data issue
    stage,      \* how far the application has come
    ranked,     \* ranked candidates not tried yet, best first
    trial,      \* the candidate that opened, with its risk assessment
    next,       \* the next entry to try, then the next candle to look at
    result      \* exit reason, or why the lifecycle raised

replayVars == <<portfolio, data, stage, ranked, trial, next, result>>

CandleNumber == 1..CandleCount

Lowest(S) == CHOOSE x \in S : \A y \in S : x <= y
Highest(S) == CHOOSE x \in S : \A y \in S : x >= y

Opposite(side) == IF side = "long" THEN "short" ELSE "long"

-----------------------------------------------------------------------------
(* Candidates *)

UnitRisk(side, candle) ==
    IF side = "long" THEN candle.close - candle.low ELSE candle.high - candle.close

\* A signal whose candle leaves no room for a stop, or whose target would not be
\* a price, has no trade plan and makes no candidate; it stays a signal.
Planned(side, candle) ==
    /\ UnitRisk(side, candle) > 0
    /\ side = "short" => candle.close - 2 * UnitRisk(side, candle) > 0

\* The entry zone is the closing price, and the target is at twice the risk.
Candidate(i) ==
    LET candle == data.candles[i]
        signal == data.signals[i]
        risk == UnitRisk(signal.side, candle)
        sign == IF signal.side = "long" THEN 1 ELSE -1
    IN  [number |-> i, side |-> signal.side, strength |-> signal.strength,
         created |-> i, until |-> i + data.horizon,
         entry |-> candle.close, invalidation |-> candle.close - sign * risk,
         target |-> candle.close + 2 * sign * risk]

Directional(i) == data.signals[i].side # "neutral"

GeneratedCandidates ==
    {Candidate(i) : i \in {j \in CandleNumber :
                            Directional(j) /\ Planned(data.signals[j].side, data.candles[j])}}

Selectable(c, at) == c.created <= at /\ at < c.until

\* Mutant of EvaluatedAt: the evaluation stands at the first candidate.
EvaluatedAtFirst(candidates) == Lowest({c.created : c \in candidates})

EvaluatedAt(candidates) == Highest({c.created : c \in candidates})

-----------------------------------------------------------------------------
(* Ranking: 45 % confidence (always one half), 35 % strength, 20 % freshness *)

Freshness(c, at) == c.until - at    \* of data.horizon

\* The score, in units of 1 / (1000 * horizon).
Score(c, at) == 225 * data.horizon + 35 * c.strength * data.horizon + 200 * Freshness(c, at)

\* Best score first; ties go by the candidates' digests, which may be in any order.
Rankings(candidates, at) ==
    LET n == Cardinality(candidates)
    IN  {order \in [1..n -> candidates] :
            /\ \A i, j \in 1..n : i # j => order[i] # order[j]
            /\ \A i \in 1..(n - 1) : Score(order[i], at) >= Score(order[i + 1], at)}

-----------------------------------------------------------------------------
(* Risk policy *)

RiskBudget(f) == HalfEven(f.equity, 100)

NotionalBudget(f) == Lowest({HalfEven(f.equity, 4), HalfEven(f.cash * 95, 100)})

MaxQuantity(c, f) ==
    LET risk == UnitRisk(c.side, data.candles[c.number])
    IN  IF RiskBudget(f) <= 0 \/ NotionalBudget(f) <= 0 THEN 0
        ELSE Lowest({(Quantum * RiskBudget(f)) \div risk,
                     (Quantum * NotionalBudget(f)) \div c.entry})

RewardRisk(c) ==
    LET distance(price) == IF price > c.entry THEN price - c.entry ELSE c.entry - price
    IN  (100 * distance(c.target)) \div distance(c.invalidation)

RiskChecks(c, rank, f, at) ==
    [selectable |-> Selectable(c, at), active |-> f.status = "active", capacity |-> ~IsOpen(f),
     rank |-> rank <= MaxRank, score |-> Score(c, at) >= 500 * data.horizon,
     reward |-> RewardRisk(c) >= 150, budget |-> MaxQuantity(c, f) > 0]

Approved(c, rank, f, at) ==
    LET checks == RiskChecks(c, rank, f, at) IN \A name \in DOMAIN checks : checks[name]

-----------------------------------------------------------------------------
(* Fill and simulation *)

\* The first candle after the evaluation that trades at the entry price while
\* the candidate is selectable; 0 when there is none.
FillCandle(c, at) ==
    LET fills == {i \in CandleNumber : /\ i - 1 >= at /\ Selectable(c, i)
                                       /\ data.candles[i].low <= c.entry
                                       /\ c.entry <= data.candles[i].high}
    IN  IF fills = {} THEN 0 ELSE Lowest(fills)

\* What the cash pays for, the fee included.
Affordable(f, price) ==
    Highest({q \in 0..((Quantum * f.cash) \div price) :
                price * q + Quantum * Fee(price * q) <= Quantum * f.cash})

SimulationQuantity(c, f) == Lowest({MaxQuantity(c, f), Affordable(f, c.entry)})

\* The outcome of one attempt, always judged by the portfolio as first given.
ReplayStatus(c, rank, f, at) ==
    IF ~Approved(c, rank, f, at) THEN "risk_rejected"
    ELSE IF FillCandle(c, at) = 0 THEN "no_fill" ELSE "opened"

-----------------------------------------------------------------------------
(* Exit directives, made before the watch begins from all candles after the fill *)

Watched == {i \in CandleNumber : i - 1 >= trial.opened}

FirstOf(S) == IF S = {} THEN 0 ELSE Lowest(S)

\* The first watched candle at or after a data-quality issue (issue -1 is none).
UnreliableAt == FirstOf({i \in Watched : data.issue >= 0 /\ i - 1 >= data.issue})

ReversalAt == FirstOf({i \in Watched : data.signals[i].side = Opposite(trial.candidate.side)})

\* The first candle at whose close the equity has lost the whole risk budget.
RiskBreachAt ==
    FirstOf({i \in Watched : -GrossPnl(portfolio.open, data.candles[i].close) >= trial.budget})

\* Two reasons of one priority at one time; a data issue outranks both.
DirectivesConflict ==
    ReversalAt # 0 /\ ReversalAt = RiskBreachAt /\ ReversalAt # UnreliableAt

DirectiveAt(i) ==
    IF i = UnreliableAt THEN "data_unreliable"
    ELSE IF i = ReversalAt THEN "trend_reversal"
    ELSE IF i = RiskBreachAt THEN "portfolio_risk" ELSE "none"

-----------------------------------------------------------------------------
(* Monitoring *)

InvalidationHit(c, candle) ==
    IF c.side = "long" THEN candle.low <= c.invalidation ELSE candle.high >= c.invalidation

TargetHit(c, candle) ==
    IF c.side = "long" THEN candle.high >= c.target ELSE candle.low <= c.target

Trigger(reason, price) == [reason |-> reason, price |-> price]

NoTrigger == Trigger("none", 0)

PriceTrigger(c, candle) ==
    IF InvalidationHit(c, candle) THEN Trigger("invalidation", c.invalidation)
    ELSE IF TargetHit(c, candle) THEN Trigger("target", c.target)
    ELSE NoTrigger

\* Mutant of ExitTrigger: a directive comes before the thresholds of the plan.
ExitTriggerAtClose(i) ==
    LET candle == data.candles[i]
    IN  IF DirectiveAt(i) # "none" THEN Trigger(DirectiveAt(i), candle.close)
        ELSE IF PriceTrigger(trial.candidate, candle) # NoTrigger
        THEN PriceTrigger(trial.candidate, candle)
        ELSE IF i = CandleCount THEN Trigger("end_of_data", candle.close)
        ELSE NoTrigger

\* Unreliable data first, at the last mark; then the thresholds of the plan;
\* then a directive, the validity and the end of the data, all at the close.
ExitTrigger(i) ==
    LET candle == data.candles[i]
        directive == DirectiveAt(i)
        atPrice == PriceTrigger(trial.candidate, candle)
    IN  IF directive = "data_unreliable" THEN Trigger(directive, portfolio.open.current)
        ELSE IF atPrice # NoTrigger THEN atPrice
        ELSE IF directive # "none" THEN Trigger(directive, candle.close)
        ELSE IF i >= trial.candidate.until THEN Trigger("time_expiry", candle.close)
        ELSE IF i = CandleCount THEN Trigger("end_of_data", candle.close)
        ELSE NoTrigger

-----------------------------------------------------------------------------
(* The application *)

NoTrial == [opened |-> 0, budget |-> 0, rank |-> 0]

Signals == {[side |-> "neutral", strength |-> 0]}
           \cup [side : Side, strength : Strengths]

\* The experiment has run.  The application passes the lifecycle no monitoring
\* observations (issue -1); the runner also takes those of another caller.
ReplayInit ==
    /\ data \in [candles : [CandleNumber -> Shapes], signals : [CandleNumber -> Signals],
                 horizon : Horizons, issue : Issues]
    /\ stage = "generate"
    /\ portfolio = Created(0)
    /\ ranked = << >> /\ trial = NoTrial /\ next = 0 /\ result = "none"

\* Generate and rank the candidates, and give them a portfolio dated by the
\* youngest; without a candidate nothing is recorded.
GenerateCandidates ==
    /\ stage = "generate"
    /\ IF GeneratedCandidates = {}
       THEN stage' = "no_candidates" /\ UNCHANGED <<portfolio, ranked, next>>
       ELSE LET at == EvaluatedAt(GeneratedCandidates)
            IN  /\ stage' = "replay"
                /\ portfolio' = Created(at)
                /\ ranked' \in Rankings({c \in GeneratedCandidates : Selectable(c, at)}, at)
                /\ next' = 1
    /\ UNCHANGED <<data, trial, result>>

\* One attempt of the batch: the assessment, the search for a fill, and the open.
AttemptCandidate ==
    /\ stage = "replay" /\ next <= Len(ranked)
    /\ LET c == ranked[next]
           at == portfolio.created
           fill == FillCandle(c, at)
       IN  IF ReplayStatus(c, next, portfolio, at) = "opened"
           THEN /\ portfolio' = Opened(portfolio, c.side, c.entry,
                                       SimulationQuantity(c, portfolio), fill)
                /\ trial' = [opened |-> fill, budget |-> RiskBudget(portfolio), rank |-> next,
                             candidate |-> c]
                /\ stage' = "opened"
                /\ next' = fill + 1
           ELSE next' = next + 1 /\ UNCHANGED <<portfolio, trial, stage>>
    /\ UNCHANGED <<data, ranked, result>>

\* Every attempt has been refused or has found no fill.
NoPositionOpened ==
    /\ stage = "replay" /\ next > Len(ranked)
    /\ stage' = "no_position"
    /\ UNCHANGED <<portfolio, data, ranked, trial, next, result>>

Aborted(why) == stage' = "aborted" /\ result' = why

\* The directives are merged, and the monitor needs a candle to watch.
PrepareWatch ==
    /\ stage = "opened"
    /\ IF DirectivesConflict THEN Aborted("directive_conflict")
       ELSE IF Watched = {} THEN Aborted("no_candle_after_entry")
       ELSE stage' = "watching" /\ UNCHANGED result
    /\ UNCHANGED <<portfolio, data, ranked, trial, next>>

CloseTrade ==
    /\ stage = "watching" /\ ExitTrigger(next) # NoTrigger
    /\ LET exit == ExitTrigger(next)
       IN  IF CanClose(portfolio, exit.price, next)
           THEN /\ portfolio' = Closed(portfolio, exit.price, next)
                /\ stage' = "closed" /\ result' = exit.reason
           ELSE Aborted("negative_cash") /\ UNCHANGED portfolio
    /\ UNCHANGED <<data, ranked, trial, next>>

MarkTrade ==
    /\ stage = "watching" /\ ExitTrigger(next) = NoTrigger
    /\ portfolio' = Marked(portfolio, data.candles[next].close, next)
    /\ next' = next + 1
    /\ UNCHANGED <<data, stage, ranked, trial, result>>

ReplayNext ==
    GenerateCandidates \/ AttemptCandidate \/ NoPositionOpened \/ PrepareWatch
    \/ CloseTrade \/ MarkTrade

ReplaySpec == ReplayInit /\ [][ReplayNext]_replayVars

-----------------------------------------------------------------------------
\* A closed trade has lost at most the risk budget it was approved with, fees
\* aside, although the budget is only watched at closing prices: the invalidation
\* price is checked first, and the quantity puts the whole budget's loss there.
\* So the portfolio-risk directive decides an exit by rounding alone: at a close
\* short of the invalidation price the loss is less than the budget, and reaches it
\* only as a whole amount of money.
LossBounded ==
    stage = "closed" =>
        LET p == portfolio.closed[1]
        IN  /\ -p.gross <= trial.budget
            /\ result = "portfolio_risk" =>
                -p.gross = trial.budget /\ -Gain(p, p.exit) < Quantum * trial.budget
=============================================================================
