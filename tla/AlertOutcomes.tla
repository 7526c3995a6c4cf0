---------------------------- MODULE AlertOutcomes ----------------------------
(***************************************************************************)
(* Offline observation of published alerts and the outcome learning review *)
(* (db/alert_simulations.py, db/alert_outcomes.py, outcome_learning.py,    *)
(* db/outcome_learning.py): an alert is enrolled while it is alive, judged *)
(* once its horizon has passed, and a summary and a review count what was  *)
(* judged; the review also counts the candidate journals and the decision  *)
(* evaluations, which other processes record meanwhile.                    *)
(*                                                                         *)
(* Both readers go from one statement to the next at the database's        *)
(* default isolation, where each statement sees what has been committed    *)
(* until then: a reader is the sequence of what its statements returned,   *)
(* each with the rows that were stored ("stored" only serves properties).  *)
(***************************************************************************)
EXTENDS AlertContracts

CONSTANTS
    Alert,          \* published alerts: their drafts
    PricePath,      \* price paths an outcome may be recorded with
    Horizon,        \* of the simulations
    Mode, Trend,    \* observation modes, and trends an outcome may report
    Journal, JournalEnd,        \* candidate journals, and how their lifecycles end
    Evaluation, StageRecord,    \* decision evaluations, and the dispositions of their stages
    Learning,       \* thresholds of the review policy
    ClosedPositions       \* closed positions: [closed, losing, net]

Areas == {"alert_outcomes", "candidate_journals", "decision_evaluations", "closed_positions"}
Stages == 1..4
ExitReasons == {"invalidation", "target", "trend_reversal", "portfolio_risk",
                "data_unreliable", "time_expiry", "end_of_data"}

\* A horizon of a quarter of an hour at least; a minimum of one sample at least;
\* the checked statuses and exit reasons of a journal, and at most four stages.
ASSUME AlertOutcomesAssumption ==
    /\ Horizon \in Nat \ {0}
    /\ \A p \in PricePath : /\ p.reference \in Int /\ p.end \in Int
                           /\ p.high \in Int /\ p.low \in Int
    /\ \A a \in Areas : Learning.minimum[a] \in Nat \ {0}
    /\ JournalEnd \subseteq ExitReasons \cup {"no_position"}
    /\ \A r \in StageRecord : r \in Seq(STRING) /\ Len(r) \in Stages

VARIABLES
    simulations, outcomes,  \* alert_simulations and alert_outcomes by identity
    journaled,      \* candidate_journals: how each lifecycle ended
    decided,        \* decision_evaluation_intents: the dispositions of their stages so far
    summary,        \* what a running summary request has read
    review          \* what a running review has read and what it concludes

tables == <<simulations, outcomes, journaled, decided>>
observationVars == <<now, tables, summary, review>>

ObservationInit ==
    /\ now = 0 /\ simulations = Empty /\ outcomes = Empty /\ journaled = Empty /\ decided = Empty
    /\ summary = <<>> /\ review = <<>>

ObservationTick == now < MaxHour /\ now' = now + 1 /\ UNCHANGED <<tables, summary, review>>

\* start: the enrolment of an alert in a mode is created once; a concurrent
\* one is returned instead.
StartSimulation(d, mode) ==
    /\ <<d.id, mode>> \notin DOMAIN simulations
    /\ SimulationBuildable(d, now)
    /\ simulations' = Put(simulations, <<d.id, mode>>, Simulation(d, mode, Horizon, now))
    /\ UNCHANGED <<now, outcomes, journaled, decided, summary, review>>

\* record: one outcome for each simulation, observed and recorded now
RecordOutcome(s, price, trend) ==
    /\ s \notin DOMAIN outcomes
    /\ OutcomeBuildable(simulations[s], price, now)
    /\ outcomes' = Put(outcomes, s, Outcome(simulations[s], price, trend, now, now))
    /\ UNCHANGED <<now, simulations, journaled, decided, summary, review>>

\* Journals of ended lifecycles are stored once and stay as they are.
RecordJournal(j, end) ==
    /\ j \notin DOMAIN journaled
    /\ journaled' = Put(journaled, j, end)
    /\ UNCHANGED <<now, simulations, outcomes, decided, summary, review>>

\* An evaluation is requested without stages; its job stores them all at once.
RequestEvaluation(e) ==
    /\ e \notin DOMAIN decided
    /\ decided' = Put(decided, e, <<>>)
    /\ UNCHANGED <<now, simulations, outcomes, journaled, summary, review>>

RecordStages(e, record) ==
    /\ decided[e] = <<>>
    /\ decided' = [decided EXCEPT ![e] = record]
    /\ UNCHANGED <<now, simulations, outcomes, journaled, summary, review>>

-----------------------------------------------------------------------------
(* The summaries *)

OfClass(class) == {s \in DOMAIN outcomes : outcomes[s].class = class}
Drifted == {s \in DOMAIN outcomes : outcomes[s].drifted}
Due(at) == {s \in DOMAIN simulations : simulations[s].ends <= at}

\* AlertSimulationSummary, from one read of its rows
SimulationSummary(at) ==
    [total |-> Cardinality(DOMAIN simulations),
     observing |-> Cardinality({s \in DOMAIN simulations :
                                  SimulationStatus(simulations[s], at) = "observing"}),
     awaiting |-> Cardinality({s \in DOMAIN simulations :
                                 SimulationStatus(simulations[s], at) = "awaiting_outcome"})]

\* AlertOutcomeSummary: the route reads the clock, the first statement all
\* outcomes, and the second counts the overdue simulations without one.
JudgedOutcomes ==
    [completed |-> Cardinality(DOMAIN outcomes),
     confirmed |-> Cardinality(OfClass("confirmed")),
     neutral |-> Cardinality(OfClass("neutral")),
     falsePositive |-> Cardinality(OfClass("false_positive")),
     stored |-> DOMAIN outcomes]
Awaiting(at) ==
    [awaiting |-> Cardinality(Due(at) \ DOMAIN outcomes), stored |-> DOMAIN outcomes]

SummaryReads(n, result) ==
    /\ Len(summary) = n - 1
    /\ summary' = Append(summary, result)
    /\ UNCHANGED <<now, tables, review>>

\* Mutant of ReadSummary: the overdue simulations are counted before the
\* outcomes are read.
ReadSummarySwapped ==
    \/ SummaryReads(1, [at |-> now])
    \/ SummaryReads(2, Awaiting(summary[1].at))
    \/ /\ Len(summary) = 2
       /\ summary' = <<summary[1], JudgedOutcomes, summary[2]>>
       /\ UNCHANGED <<now, tables, review>>

ReadSummary ==
    \/ SummaryReads(1, [at |-> now])
    \/ SummaryReads(2, JudgedOutcomes)
    \/ SummaryReads(3, Awaiting(summary[1].at))

EndSummary == Len(summary) = 3 /\ summary' = <<>> /\ UNCHANGED <<now, tables, review>>

-----------------------------------------------------------------------------
(* The outcome learning review *)

\* _rate in units of the metric
Rate(n, total) == IF total <= 0 THEN 0 ELSE HalfEven(n * Scale, total)

Samples(snapshot) ==
    [a \in Areas |-> CASE a = "alert_outcomes" -> snapshot.completed
                       [] a = "candidate_journals" -> snapshot.noPosition + snapshot.closed
                       [] a = "decision_evaluations" -> snapshot.evaluations
                       [] OTHER -> ClosedPositions.closed]

Gaps(policy, snapshot) == {a \in Areas : Samples(snapshot)[a] < policy.minimum[a]}

\* The rates that are judged: [area, code, samples, rate]
Judged(snapshot) ==
    {[area |-> "alert_outcomes", code |-> "false_positive", samples |-> snapshot.completed,
      rate |-> Rate(snapshot.falsePositive, snapshot.completed)],
     [area |-> "alert_outcomes", code |-> "drift", samples |-> snapshot.completed,
      rate |-> Rate(snapshot.drifted, snapshot.completed)],
     [area |-> "candidate_journals", code |-> "no_position",
      samples |-> snapshot.noPosition + snapshot.closed,
      rate |-> Rate(snapshot.noPosition, snapshot.noPosition + snapshot.closed)],
     [area |-> "closed_positions", code |-> "loss", samples |-> ClosedPositions.closed,
      rate |-> Rate(ClosedPositions.losing, ClosedPositions.closed)]}
    \cup {[area |-> "stage_outcomes", code |-> "non_acceptance",
           samples |-> snapshot.stages[n].total,
           rate |-> Rate(snapshot.stages[n].refused, snapshot.stages[n].total)] : n \in Stages}

\* The warnings: of an area with enough samples, a rate at or over its threshold
\* or a net loss.
Warnings(policy, snapshot) ==
    {w \in Judged(snapshot) :
        w.samples >= policy.minimum[w.area] /\ w.rate >= policy.warning[w.code]}
    \cup {[area |-> "closed_positions", code |-> "net", samples |-> p.closed, rate |-> p.net] :
            p \in {q \in {ClosedPositions} :
                     q.closed >= policy.minimum["closed_positions"] /\ q.net < 0}}

\* derive_outcome_learning_review
Derived(policy, snapshot) ==
    [readiness |-> IF Gaps(policy, snapshot) = {} THEN "review_ready"
                   ELSE IF \E a \in Areas : Samples(snapshot)[a] > 0 THEN "observational"
                   ELSE "insufficient_data",
     gaps |-> Gaps(policy, snapshot),
     warnings |-> Warnings(policy, snapshot),
     human |-> Warnings(policy, snapshot) # {}]

\* validate_aggregate_consistency, as far as the counts come from different
\* statements: the areas that contradict themselves.
Contradictions(snapshot) ==
    {a \in Areas :
        \/ a = "alert_outcomes" /\ snapshot.drifted > snapshot.completed
        \/ a = "candidate_journals" /\ snapshot.exits # snapshot.closed
        \/ /\ a = "decision_evaluations"
           /\ \E n \in Stages : snapshot.stages[n].total > snapshot.evaluations}

\* Mutant of OutcomesByClass: the total leaves the neutral outcomes out.
OutcomesDecided ==
    [completed |-> Cardinality(DOMAIN outcomes \ OfClass("neutral")),
     falsePositive |-> Cardinality(OfClass("false_positive")), stored |-> DOMAIN outcomes]

\* The statements of read; those of the overdue simulations, the average return
\* and the portfolios, which no check compares, are left out.
OutcomesByClass ==
    [completed |-> Cardinality(DOMAIN outcomes),
     falsePositive |-> Cardinality(OfClass("false_positive")), stored |-> DOMAIN outcomes]
OutcomesDrifted == [drifted |-> Cardinality(Drifted), stored |-> DOMAIN outcomes]
JournalsByStatus ==
    [noPosition |-> Cardinality({j \in DOMAIN journaled : journaled[j] = "no_position"}),
     closed |-> Cardinality({j \in DOMAIN journaled : journaled[j] # "no_position"}),
     stored |-> DOMAIN journaled]
ClosedByReason ==
    [exits |-> Cardinality({j \in DOMAIN journaled : journaled[j] \in ExitReasons}),
     stored |-> DOMAIN journaled]
EvaluationCount == [evaluations |-> Cardinality(DOMAIN decided), stored |-> DOMAIN decided]
OutcomesByStage ==
    [stages |-> [n \in Stages |->
        LET reached == {e \in DOMAIN decided : Len(decided[e]) >= n}
        IN [total |-> Cardinality(reached),
            refused |-> Cardinality({e \in reached : decided[e][n] # "accepted"})]],
     stored |-> DOMAIN decided]

Snapshot(reads) ==
    [completed |-> reads[1].completed, falsePositive |-> reads[1].falsePositive,
     drifted |-> reads[2].drifted,
     noPosition |-> reads[3].noPosition, closed |-> reads[3].closed, exits |-> reads[4].exits,
     evaluations |-> reads[5].evaluations, stages |-> reads[6].stages]

ReviewReads(n, result) ==
    /\ Len(review) = n - 1
    /\ review' = Append(review, result)
    /\ UNCHANGED <<now, tables, summary>>

ReadReview ==
    \/ ReviewReads(1, OutcomesByClass)
    \/ ReviewReads(2, OutcomesDrifted)
    \/ ReviewReads(3, JournalsByStatus)
    \/ ReviewReads(4, ClosedByReason)
    \/ ReviewReads(5, EvaluationCount)
    \/ ReviewReads(6, OutcomesByStage)

\* The review is built, or refused for its own counts.
Conclusion(snapshot) ==
    IF Contradictions(snapshot) # {} THEN [refused |-> TRUE, derived |-> {}]
    ELSE [refused |-> FALSE, derived |-> {Derived(Learning, snapshot)}]

Conclude == ReviewReads(7, Conclusion(Snapshot(review)))

EndReview == Len(review) = 7 /\ review' = <<>> /\ UNCHANGED <<now, tables, summary>>

ObservationNext ==
    \/ ObservationTick
    \/ \E d \in Alert, mode \in Mode : StartSimulation(d, mode)
    \/ \E s \in DOMAIN simulations, p \in PricePath, t \in Trend : RecordOutcome(s, p, t)
    \/ \E j \in Journal, end \in JournalEnd : RecordJournal(j, end)
    \/ \E e \in Evaluation : RequestEvaluation(e)
    \/ \E e \in DOMAIN decided, r \in StageRecord : RecordStages(e, r)
    \/ ReadSummary \/ EndSummary
    \/ ReadReview \/ Conclude \/ EndReview

ObservationSpec == ObservationInit /\ [][ObservationNext]_observationVars

-----------------------------------------------------------------------------
\* An outcome is judged no earlier than its horizon by prices that bracket the
\* return it reports, and the summaries partition what they count.  The outcome
\* summary counts every simulation that was due or judged once, except one judged
\* between its two statements, which it leaves out; it counts none twice.
OutcomesSound ==
    /\ \A s \in DOMAIN simulations : AlertSimulationValid(simulations[s])
    /\ \A s \in DOMAIN outcomes :
        /\ OutcomeValid(outcomes[s])
        /\ outcomes[s].observedAt >= simulations[s].ends
        /\ outcomes[s].excursions.adverse <= outcomes[s].directional
        /\ outcomes[s].directional <= Max({0, outcomes[s].excursions.favorable})
    /\ LET sum == SimulationSummary(now) IN sum.total = sum.observing + sum.awaiting
    /\ Len(summary) = 3 =>
        LET due == Due(summary[1].at)
            first == summary[2].stored
            later == summary[3].stored \ first
        IN /\ summary[2].completed
                = summary[2].confirmed + summary[2].neutral + summary[2].falsePositive
           /\ summary[2].completed + summary[3].awaiting
                = Cardinality(due \cup first) - Cardinality(due \cap later)

\* A review refuses its own counts only in areas whose rows were recorded between
\* the two statements that count them, and one that is ready has the minimum of
\* samples stored in every area it counted.
ReviewFailsByRaceOnly ==
    LET first == [alert_outcomes |-> 1, candidate_journals |-> 3, decision_evaluations |-> 5]
    IN Len(review) = 7 =>
        /\ review[7].refused => Contradictions(Snapshot(review)) # {}
        /\ \A a \in Contradictions(Snapshot(review)) :
             review[first[a]].stored # review[first[a] + 1].stored
        /\ \A d \in review[7].derived : d.readiness = "review_ready" =>
             /\ Cardinality(DOMAIN outcomes) >= Learning.minimum["alert_outcomes"]
             /\ Cardinality(DOMAIN journaled) >= Learning.minimum["candidate_journals"]
             /\ Cardinality(DOMAIN decided) >= Learning.minimum["decision_evaluations"]
=============================================================================
