--------------------------- MODULE DecisionContracts ---------------------------
(***************************************************************************)
(* The decision-intelligence contracts (decision_intelligence/*.py): an     *)
(* intent pins a policy, a dataset, a strategy and a market context, and    *)
(* four stages turn it into evidence: strategy evaluation, candidate        *)
(* ranking, risk gate and portfolio simulation.                            *)
(*                                                                         *)
(* A checksum or an identifier is the content it is computed from.  Prices  *)
(* and amounts are integers, fractions and scores are in units of 1/Scale.  *)
(***************************************************************************)
EXTENDS MarketContext

CONSTANTS
    Rules,          \* the compatibility policy: trends, volatilities, minimum per strategy
    Generates,      \* signals of each strategy behaviour on each dataset
    ConfidenceWeight, RewardRisk, Validity,                        \* candidate policy
    Equity, MaxRisk, MaxNotional, MinScore, MinRewardRisk,         \* risk policy
    MaxGross, MaxConcentration, MaxCorrelation, MaxLoss, ExitDrawdown, Shocks   \* portfolio policy

Stages == <<"strategy_evaluation", "candidate_ranking", "risk_gate", "portfolio_simulation">>

-----------------------------------------------------------------------------
(* Policies, references and intents *)

DecisionPolicyValid(p) == p.version >= 1 /\ p.supersedes = p.version - 1 /\ p.modes # {}

\* DecisionDatasetReference and MarketContextDecisionReference
DatasetReferenceValid(d) == d.end > d.start
ContextReference(a, at) == View(a, at)
ContextReferenceValid(c) ==
    /\ c.reasons = ViewReasons(c.assessment, c.at)
    /\ c.consumable = (c.reasons = {})

Intent(mode, dataset, context, policy, strategy) ==
    [mode |-> mode, dataset |-> dataset, context |-> context, policy |-> policy,
     strategy |-> strategy, at |-> context.at]

IntentValid(i) ==
    /\ i.at = i.context.at
    /\ i.mode \in i.policy.modes
    /\ i.dataset.stream = i.context.assessment.stream
    /\ i.dataset.end <= i.context.assessment.asOf
    /\ DatasetReferenceValid(i.dataset) /\ ContextReferenceValid(i.context)

\* build_decision_evaluation_id: the pinned references; the time is the context's
EvaluationId(i) == <<i.mode, i.dataset, i.context, i.policy, i.strategy>>

Outcome(i, stage, disposition, reasons) ==
    [evaluation |-> EvaluationId(i), stage |-> stage, disposition |-> disposition,
     reasons |-> reasons, at |-> i.at]
OutcomeValid(o) == (o.disposition = "accepted") = (o.reasons = {})

-----------------------------------------------------------------------------
(* Strategy evaluation *)

ContextReason(r) ==
    CASE r = "assessment_expired" -> "market_context_expired"
      [] r = "assessment_not_ready" -> "market_context_not_ready"
      [] r = "boundary_mismatch" -> "market_context_boundary_mismatch"

UnavailableReasons(i) ==
    (IF i.policy.state = "disabled" THEN {"policy_disabled"} ELSE {})
    \cup (IF i.strategy.lifecycle # "active" THEN {"strategy_not_active"} ELSE {})
    \cup (IF i.context.consumable THEN {}
          ELSE {"market_context_not_consumable"} \cup {ContextReason(r) : r \in i.context.reasons})

RejectedReasons(i) ==
    LET a == i.context.assessment
    IN IF i.strategy.name \notin DOMAIN Rules THEN {"strategy_context_incompatible"}
       ELSE LET rule == Rules[i.strategy.name]
            IN (IF a.trend \notin rule.trends \/ a.volatility \notin rule.volatilities
                THEN {"strategy_context_incompatible"} ELSE {})
               \cup (IF a.confidence < rule.minimum THEN {"uncertainty_above_limit"} ELSE {})

\* The signals of the executable strategy: [index of a candle, direction, strength]
Signals(i) == Generates[<<i.strategy.behavior, i.dataset.id>>]
CandleOf(i, s) == i.dataset.candles[s.index]
SignalsValid(i) ==
    \A s \in Signals(i) :
        /\ i.dataset.start < CandleOf(i, s).close /\ CandleOf(i, s).close <= i.dataset.end
        /\ CandleOf(i, s).close <= i.context.assessment.asOf
        /\ s.direction # "neutral"

\* evaluate_strategy_intent raises: the registry no longer deploys what was pinned
EvaluationRefused(i, registry) ==
    /\ UnavailableReasons(i) = {} /\ RejectedReasons(i) = {}
    /\ i.strategy \notin registry \/ ~SignalsValid(i)

StrategyEvaluation(i) ==
    LET result(disposition, reasons, signals) ==
            [outcome |-> Outcome(i, Stages[1], disposition, reasons), signals |-> signals]
    IN CASE UnavailableReasons(i) # {} -> result("unavailable", UnavailableReasons(i), {})
         [] UnavailableReasons(i) = {} /\ RejectedReasons(i) # {}
              -> result("rejected", RejectedReasons(i), {})
         [] OTHER -> IF Signals(i) = {} THEN result("deferred", {"signal_neutral"}, {})
                     ELSE result("accepted", {}, Signals(i))

StrategyEvaluationValid(r) ==
    /\ OutcomeValid(r.outcome)
    /\ (r.outcome.disposition = "accepted") = (r.signals # {})

-----------------------------------------------------------------------------
(* Candidates *)

\* _candidate_from_signal: entry at the close, invalidation at the candle's extreme
Candidate(i, s) ==
    LET candle == CandleOf(i, s)
        unit == IF s.direction = "long" THEN candle.price - candle.low ELSE candle.high - candle.price
        side == IF s.direction = "long" THEN 1 ELSE -1
    IN [signal |-> s, action |-> s.direction, entry |-> candle.price,
        invalidation |-> candle.price - side * unit,
        target |-> candle.price + side * unit * RewardRisk,
        confidence |-> i.context.assessment.confidence,
        observed |-> candle.close, constructed |-> i.at, until |-> i.at + Validity]

Constructible(c) == c.entry # c.invalidation /\ c.target > 0

\* _score_candidate: confidence of the context and strength of the signal
Score(c) ==
    (c.confidence * ConfidenceWeight + c.signal.strength * (Scale - ConfidenceWeight)) \div Scale

CandidateValid(c) ==
    /\ c.observed <= c.constructed /\ c.constructed < c.until
    /\ c.action = "long" => c.invalidation < c.entry /\ c.entry < c.target
    /\ c.action = "short" => c.target < c.entry /\ c.entry < c.invalidation

\* By score; candidates of the same score by their identifiers, here their candles
Better(c, d) == Score(c) > Score(d) \/ (Score(c) = Score(d) /\ c.signal.index < d.signal.index)

Ranking(i, evaluation) ==
    LET entries == SetToSortSeq({c \in {Candidate(i, s) : s \in evaluation.signals} :
                                   Constructible(c)}, Better)
    IN [outcome |-> IF entries = <<>>
                    THEN Outcome(i, Stages[2], "deferred", {"candidate_not_selectable"})
                    ELSE Outcome(i, Stages[2], "accepted", {}),
        entries |-> entries, source |-> Cardinality(evaluation.signals),
        excluded |-> Cardinality(evaluation.signals) - Len(entries)]

RankingValid(r) ==
    /\ OutcomeValid(r.outcome)
    /\ Len(r.entries) + r.excluded = r.source
    /\ (r.outcome.disposition = "accepted") = (r.entries # <<>>)
    /\ \A n \in DOMAIN r.entries : CandidateValid(r.entries[n])
    /\ \A n \in 1..(Len(r.entries) - 1) : ~Better(r.entries[n + 1], r.entries[n])

-----------------------------------------------------------------------------
(* The risk gate *)

UnitRisk(c) == Abs(c.entry - c.invalidation)

\* DecisionPositionSizing.build; no sizing is {}
Sizing(c) ==
    LET budget == (Equity * MaxRisk) \div Scale
        cap == (Equity * MaxNotional) \div Scale
        quantity == Min({budget \div UnitRisk(c), cap \div c.entry})
    IN IF quantity <= 0 THEN {}
       ELSE {[candidate |-> c, budget |-> budget, cap |-> cap, quantity |-> quantity,
              ratio |-> (Abs(c.target - c.entry) * Scale) \div UnitRisk(c),
              notional |-> quantity * c.entry, loss |-> quantity * UnitRisk(c)]}

SizingValid(z) == z.notional <= z.cap /\ z.loss <= z.budget

FailedRiskChecks(c, at) ==
    {k \in {"candidate_fresh", "ranking_score", "reward_risk", "risk_budget", "notional_cap"} :
        CASE k = "candidate_fresh" -> ~(c.constructed <= at /\ at < c.until)
          [] k = "ranking_score" -> Score(c) < MinScore
          [] k = "reward_risk" -> \A z \in Sizing(c) : z.ratio < MinRewardRisk
          [] k = "risk_budget" -> \A z \in Sizing(c) : z.loss > z.budget
          [] k = "notional_cap" -> \A z \in Sizing(c) : z.notional > z.cap}

\* evaluate_decision_risk: the candidate of rank one
RiskGate(i, ranking) ==
    LET top == Head(ranking.entries)
        approved == FailedRiskChecks(top, i.at) = {}
    IN [outcome |-> IF approved THEN Outcome(i, Stages[3], "accepted", {})
                    ELSE Outcome(i, Stages[3], "rejected", {"risk_policy_rejected"}),
        ranking |-> ranking, candidate |-> top, failed |-> FailedRiskChecks(top, i.at),
        sizing |-> IF approved THEN Sizing(top) ELSE {}]

RiskAssessmentValid(r) ==
    /\ (r.sizing # {}) = (r.failed = {})
    /\ \A z \in r.sizing : SizingValid(z) /\ z.candidate = r.candidate
RiskGateValid(r) ==
    /\ OutcomeValid(r.outcome)
    /\ (r.outcome.disposition = "accepted") = (r.failed = {})

-----------------------------------------------------------------------------
(* Portfolio intelligence *)

Side(direction) == IF direction = "long" THEN 1 ELSE -1
Aligned(action, trend) ==
    \/ action = "long" /\ trend = "trending_up"
    \/ action = "short" /\ trend = "trending_down"

EmptyBaseline(i) ==
    [source |-> "empty_baseline", portfolio |-> {}, mode |-> i.mode, dataset |-> i.dataset.id,
     asOf |-> i.at, starting |-> Equity, equity |-> Equity, positions |-> {}]
FromPortfolio(p) ==
    [source |-> "persisted_simulation", portfolio |-> {p.id}, mode |-> p.mode,
     dataset |-> p.dataset, asOf |-> p.updated, starting |-> p.starting, equity |-> p.equity,
     positions |-> p.positions]
PortfolioSnapshotValid(s) == (s.portfolio = {}) = (s.source = "empty_baseline")

Gross(s) == MapThenSumSet(LAMBDA q : q.notional, s.positions)
Fraction(amount, s) == (amount * Scale) \div s.equity

\* _build_analysis: the loss of the positions and the candidate under a shock
ShockLoss(s, z, shock) ==
    Max({0, -((MapThenSumSet(LAMBDA q : q.notional * shock * Side(q.side), s.positions)
              + z.notional * shock * Side(z.candidate.action)) \div Scale)})

\* The correlation of positions in the dataset's own pair is one, of another unknown
Correlation(i, s) ==
    CASE s.positions = {} -> "not_applicable"
      [] s.positions # {} /\ (\A q \in s.positions : q.stream = i.dataset.stream) -> "available"
      [] OTHER -> "unavailable"

FailedPortfolioChecks(i, s, z) ==
    {k \in {"capacity", "exposure", "concentration", "correlation", "scenario_loss",
            "regime_alignment"} :
        CASE k = "capacity" -> s.positions # {}
          [] k = "exposure" -> Fraction(Gross(s) + z.notional, s) > MaxGross
          [] k = "concentration" ->
               Fraction(z.notional + MapThenSumSet(LAMBDA q : q.notional,
                   {q \in s.positions : q.asset = i.dataset.asset}), s) > MaxConcentration
          [] k = "correlation" -> /\ Correlation(i, s) # "not_applicable"
                                  /\ ~(Correlation(i, s) = "available" /\ Scale <= MaxCorrelation)
          [] k = "scenario_loss" -> \E shock \in Shocks :
                                       Fraction(ShockLoss(s, z, shock), s) > MaxLoss
          [] k = "regime_alignment" -> ~Aligned(z.candidate.action, i.context.assessment.trend)}

ExitAdvice(i, s, q) ==
    LET drawdown == (Max({0, s.starting - s.equity}) * Scale) \div s.starting
    IN CASE drawdown >= ExitDrawdown \/ Fraction(Gross(s), s) > MaxGross -> "exit_risk"
         [] drawdown < ExitDrawdown /\ Fraction(Gross(s), s) <= MaxGross
              /\ ~Aligned(q.side, i.context.assessment.trend) -> "exit_regime"
         [] OTHER -> "hold"

\* evaluate_portfolio_intelligence: research mode, or no snapshot ({}), is unavailable
PortfolioIntelligence(i, gate, snapshot) ==
    IF i.mode = "research" \/ snapshot = {}
    THEN [outcome |-> Outcome(i, Stages[4], "unavailable", {"portfolio_unavailable"}),
          gate |-> gate, snapshot |-> {}, failed |-> {}, exits |-> {}, recommendation |-> "unavailable"]
    ELSE LET s == CHOOSE x \in snapshot : TRUE
             z == CHOOSE x \in gate.sizing : TRUE
             failed == FailedPortfolioChecks(i, s, z)
         IN [outcome |-> IF failed = {} THEN Outcome(i, Stages[4], "accepted", {})
                         ELSE Outcome(i, Stages[4], "rejected", {"portfolio_policy_rejected"}),
             gate |-> gate, snapshot |-> snapshot, failed |-> failed,
             exits |-> {[position |-> q, action |-> ExitAdvice(i, s, q)] : q \in s.positions},
             recommendation |-> IF failed = {} THEN "accept" ELSE "reject"]

\* The snapshot is of another mode or dataset, or of the future
PortfolioRefused(i, snapshot) ==
    /\ i.mode # "research"
    /\ \E s \in snapshot : s.mode # i.mode \/ s.dataset # i.dataset.id \/ s.asOf > i.at

AnalysisValid(r) ==
    \A s \in r.snapshot : /\ PortfolioSnapshotValid(s)
                          /\ (r.recommendation = "accept") = (r.failed = {})
PortfolioIntelligenceValid(r) ==
    /\ OutcomeValid(r.outcome)
    /\ (r.snapshot = {}) = (r.recommendation = "unavailable")
    /\ (r.outcome.disposition = "accepted") = (r.recommendation = "accept")
=============================================================================
