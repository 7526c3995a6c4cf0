-------------------------- MODULE CandidateRecords --------------------------
(***************************************************************************)
(* What the candidate application hands on when it ends - the replay batch, *)
(* the monitoring result, the journal entry and the decision evidence of    *)
(* each candidate - with the validators that would make it raise instead.   *)
(*                                                                         *)
(* The records repeat one another: each validator compares a copy with its *)
(* origin.  A copy is modelled by what it is copied from, and a validator   *)
(* by the facts about the run that make the copies agree.                   *)
(***************************************************************************)
EXTENDS CandidateReplay

Ended == stage \in {"closed", "no_position"}

\* The portfolio the batch was given, and the time it was evaluated at.
Given == Created(portfolio.created)

Tried == IF stage = "closed" THEN trial.rank ELSE Len(ranked)

Status(k) == ReplayStatus(ranked[k], k, Given, Given.created)

-----------------------------------------------------------------------------
(* Candidates and their ranking *)

CandidateValid(c) ==
    /\ c.until > c.created /\ c.strength > 0
    /\ IF c.side = "long" THEN c.invalidation < c.entry /\ c.entry < c.target
       ELSE c.target < c.entry /\ c.entry < c.invalidation

RankingValid ==
    /\ \A j, k \in 1..Len(ranked) :
        j < k => Score(ranked[j], Given.created) >= Score(ranked[k], Given.created)
    /\ \A k \in 1..Len(ranked) : Score(ranked[k], Given.created) \in 0..(1000 * data.horizon)

-----------------------------------------------------------------------------
(* The batch *)

\* A rejected or unfilled attempt has no fill, an opened one has its position
\* opened at the entry price when the fill candle closed.
AttemptValid(k) ==
    Status(k) = "opened" =>
        /\ Approved(ranked[k], k, Given, Given.created)
        /\ FillCandle(ranked[k], Given.created) = trial.opened

\* What the ledger, and the validator of the position it opens, ask of a fill.
Openable(c) ==
    CanOpen(Given, c.entry, SimulationQuantity(c, Given), FillCandle(c, Given.created))

SimulationValid ==
    LET p == portfolio.closed[1]
    IN  /\ p.opened = trial.opened /\ p.entry = trial.candidate.entry
        /\ p.side = trial.candidate.side
        /\ p.quantity = SimulationQuantity(trial.candidate, Given)

\* Candidates appear once; only the last attempt may open, and without an open
\* there is nothing to skip and the portfolio is as it was.
BatchValid ==
    /\ \A j, k \in 1..Len(ranked) : j # k => ranked[j] # ranked[k]
    /\ \A k \in 1..Tried : (Status(k) = "opened") = (stage = "closed" /\ k = Tried)
    /\ stage = "no_position" => portfolio = Given

-----------------------------------------------------------------------------
(* Monitoring, lifecycle, journal entry *)

MonitoringValid ==
    LET p == portfolio.closed[1]
        marks == {i \in 1..Len(portfolio.timeline) : portfolio.timeline[i].type = "marked"}
    IN  /\ Len(portfolio.closed) = 1 /\ ~IsOpen(portfolio)
        /\ p.closed > p.opened /\ p.closed = next /\ portfolio.updated = p.closed
        /\ p.exit > 0
        /\ Cardinality(marks) < Cardinality({i \in Watched : i <= next})

LifecycleValid ==
    /\ (stage = "closed") = (trial # NoTrial)
    /\ stage = "closed" => ranked[trial.rank] = trial.candidate

RecordedAt == IF stage = "closed" THEN portfolio.closed[1].closed ELSE Given.created

JournalEntry ==
    [status |-> stage, evaluated |-> Given.created, recorded |-> RecordedAt,
     attempted |-> SubSeq(ranked, 1, Tried), skipped |-> SubSeq(ranked, Tried + 1, Len(ranked)),
     exit |-> result]

JournalValid(entry) ==
    /\ entry.attempted \o entry.skipped = ranked
    /\ entry.recorded >= entry.evaluated
    /\ entry.status = "no_position" =>
        entry.exit = "none" /\ entry.recorded = entry.evaluated /\ entry.skipped = << >>
    /\ entry.status = "closed" => entry.exit # "none" /\ entry.recorded > entry.evaluated

-----------------------------------------------------------------------------
(* The evidence of each candidate's decision *)

Tied(k) ==
    {j \in 1..Len(ranked) : Score(ranked[j], Given.created) = Score(ranked[k], Given.created)}

Failed(k) ==
    LET checks == RiskChecks(ranked[k], k, Given, Given.created)
    IN  {name \in DOMAIN checks : ~checks[name]}

\* A skipped candidate was never judged: its evidence has no failed checks.
Evidence(k) ==
    [rank |-> k, tied |-> Cardinality(Tied(k)),
     position |-> Cardinality({j \in Tied(k) : j <= k}),
     evaluated |-> k <= Tried, failed |-> IF k <= Tried THEN Failed(k) ELSE {}]

EvidenceValid(evidence) ==
    /\ evidence.position \in 1..evidence.tied
    /\ ~evidence.evaluated => evidence.failed = {}

\* One occurrence per candidate of the journal entry.
OccurrenceValid(k) ==
    /\ EvidenceValid(Evidence(k))
    /\ Evidence(k).rank = k
    /\ IF k > Tried THEN stage = "closed"
       ELSE (Evidence(k).failed # {}) = (Status(k) = "risk_rejected")

-----------------------------------------------------------------------------
\* The candidates are judged at the time of the youngest, so that every later
\* signal is one without a trade plan: only such a signal reverses a trade, or
\* makes the lifecycle raise by falling on the candle that breaches the budget.
\* Nothing else makes the application raise, except a fill on the last candle:
\* the ledger opens what the risk policy has approved, although both round it, and
\* what the run ends with passes every validator on the way into the journal.
OnlyUnplannedReversals ==
    /\ result \in {"trend_reversal", "directive_conflict"} =>
            ~Planned(data.signals[ReversalAt].side, data.candles[ReversalAt])
    /\ stage = "aborted" =>
            \/ result = "directive_conflict"
            \/ result = "no_candle_after_entry" /\ trial.opened = CandleCount
    /\ stage = "replay" =>
        /\ RankingValid
        /\ \A k \in 1..Len(ranked) :
            CandidateValid(ranked[k]) /\ (Status(k) = "opened" => Openable(ranked[k]))
    /\ Ended =>
        /\ BatchValid /\ LifecycleValid /\ JournalValid(JournalEntry)
        /\ \A k \in 1..Tried : AttemptValid(k)
        /\ \A k \in 1..Len(ranked) : OccurrenceValid(k)
    /\ stage = "closed" => SimulationValid /\ MonitoringValid
=============================================================================
