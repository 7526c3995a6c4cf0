---------------------------- MODULE DecisionPipeline ----------------------------
(***************************************************************************)
(* Evaluation of decision intents by background jobs                       *)
(* (decision_intelligence/jobs.py, db/decision_*.py) while policies are     *)
(* superseded, strategies are deployed, portfolios trade and readers look.  *)
(*                                                                         *)
(* The runner is one transaction: it reads the intent and computes three    *)
(* stages from immutable rows (Claim), reads the portfolios (Analyze), and  *)
(* commits every row together (Commit).  A worker whose lease expired goes  *)
(* on, beside the attempt that replaced it; the tables' keys stop one.      *)
(***************************************************************************)
EXTENDS DecisionContracts

CONSTANTS
    Worker, Idle,
    Mode, Datasets, Assessments,
    PolicyModes,            \* of each definition a caller may stage: [state, modes]
    Strategies,             \* strategy references that may be deployed
    Portfolio,              \* identity of each simulated portfolio: [id, mode, dataset]
    StartPortfolios,        \* sets of rows the behaviour may start with
    Holdings,               \* what a portfolio may hold: [status, starting, equity, positions]
    MaxAttempts,
    StartTime, MaxTime, MaxPolicies, MaxIntents, MaxMoves   \* bounds of the instance

VARIABLES
    now,
    policies,       \* versions of the policy
    registry,       \* strategy references the running code deploys
    portfolios,     \* rows of simulated_portfolios
    moves,          \* number of deployments and portfolio updates so far
    intents,        \* decision_evaluation_intents
    jobs,           \* evaluation jobs by intent
    attempt,        \* of each worker
    evidence,       \* committed records of each evaluated intent
    reader          \* a request for the detail of an evaluation

vars == <<now, policies, registry, portfolios, moves, intents, jobs, attempt, evidence, reader>>
world == <<now, policies, registry, portfolios, moves>>

Init ==
    /\ now = StartTime /\ policies = {} /\ moves = 0 /\ portfolios \in StartPortfolios
    /\ \E r \in Strategies : registry = {r}
    /\ intents = {} /\ jobs = [i \in {} |-> Idle] /\ evidence = [i \in {} |-> Idle]
    /\ attempt = [w \in Worker |-> Idle] /\ reader = Idle

Tick ==
    /\ now < MaxTime
    /\ now' = now + 1
    /\ UNCHANGED <<policies, registry, portfolios, moves, intents, jobs, attempt, evidence, reader>>

\* External: a release deploys other strategies.
Deploy(r) ==
    /\ moves < MaxMoves /\ r \notin registry
    /\ moves' = moves + 1
    /\ registry' = {r}
    /\ UNCHANGED <<now, policies, portfolios, intents, jobs, attempt, evidence, reader>>

\* External: a lifecycle that opened, marked or closed the positions of a
\* portfolio is recorded; its row is dated by the candle of the last event, not
\* by the clock.
Trade(id, h, candle) ==
    /\ moves < MaxMoves
    /\ moves' = moves + 1
    /\ portfolios' = {p \in portfolios : p.id # id.id} \cup
         {[id |-> id.id, mode |-> id.mode, dataset |-> id.dataset, status |-> h.status,
           starting |-> h.starting, equity |-> h.equity, positions |-> h.positions,
           updated |-> candle]}
    /\ UNCHANGED <<now, policies, registry, intents, jobs, attempt, evidence, reader>>

\* stage_policy_definition: extends the latest version
StagePolicy(d) ==
    LET version == Cardinality(policies) + 1
    IN /\ version <= MaxPolicies
       /\ policies' = policies \cup {[version |-> version, supersedes |-> version - 1,
                                      state |-> d.state, modes |-> d.modes]}
       /\ UNCHANGED <<now, registry, portfolios, moves, intents, jobs, attempt, evidence, reader>>

\* stage_evaluation_intent: the pinned policy need only exist; an equal intent
\* is returned unchanged.
StageIntent(mode, d, a, p, r) ==
    LET i == Intent(mode, d, ContextReference(a, now), p, r)
    IN /\ a.assessed <= now /\ IntentValid(i)
       /\ i \notin intents /\ Cardinality(intents) < MaxIntents
       /\ intents' = intents \cup {i}
       /\ UNCHANGED <<world, jobs, attempt, evidence, reader>>

NewJob(at) == [status |-> "queued", attempts |-> 0, cancel |-> FALSE, error |-> "none",
               requested |-> at]
PayloadValid(i, job) == job.requested >= i.at

\* enqueue: the intent's key is the job's, so a second request returns the first
Enqueue(i) ==
    /\ i \notin DOMAIN jobs /\ PayloadValid(i, NewJob(now))
    /\ jobs' = [k \in DOMAIN jobs \cup {i} |-> IF k = i THEN NewJob(now) ELSE jobs[k]]
    /\ UNCHANGED <<world, intents, attempt, evidence, reader>>

Cancel(i) ==
    /\ jobs[i].status \in {"queued", "running"} /\ ~jobs[i].cancel
    /\ jobs' = [jobs EXCEPT ![i].cancel = TRUE]
    /\ UNCHANGED <<world, intents, attempt, evidence, reader>>

-----------------------------------------------------------------------------
(* Attempts *)

Holder(w) == attempt[w] # Idle /\ jobs[attempt[w].intent].attempts = attempt[w].number
             /\ jobs[attempt[w].intent].status = "running"

\* The services of the stages: each stages its record after an accepted one.
Accepted(records) == Last(records).outcome.disposition = "accepted"
EvaluateStrategy(i) == <<StrategyEvaluation(i)>>
Rank(i, records) ==
    IF Accepted(records) THEN Append(records, Ranking(i, records[1])) ELSE records
EvaluateRisk(i, records) ==
    IF Accepted(records) THEN Append(records, RiskGate(i, records[2])) ELSE records
Computed(i) == EvaluateRisk(i, Rank(i, EvaluateStrategy(i)))

NeedsPortfolio(records) == Len(records) = 3 /\ Accepted(records)

\* validate_decision_evaluation_result
ResultValid(i, records) ==
    /\ records[1].outcome.evaluation = EvaluationId(i) /\ records[1].outcome.at = i.at

\* A worker takes the job; records that exist already are returned as they are.
Claim(w, i) ==
    /\ attempt[w] = Idle /\ jobs[i].status = "queued"
    /\ IF jobs[i].cancel
       THEN jobs' = [jobs EXCEPT ![i].status = "cancelled"] /\ attempt' = attempt
       ELSE /\ jobs' = [jobs EXCEPT ![i].status = "running", ![i].attempts = @ + 1]
            /\ attempt' = [attempt EXCEPT ![w] =
                 LET existing == i \in DOMAIN evidence
                     refused == ~existing /\ EvaluationRefused(i, registry)
                 IN [intent |-> i, number |-> jobs[i].attempts + 1, existing |-> existing,
                     refused |-> refused, analyzed |-> FALSE,
                     records |-> CASE existing -> evidence[i]
                                   [] refused -> <<>>
                                   [] OTHER -> Computed(i)]]
    /\ UNCHANGED <<world, intents, evidence, reader>>

ActivePortfolios(i) ==
    {p \in portfolios : /\ p.status = "active" /\ p.mode = i.mode
                        /\ p.dataset = i.dataset.id /\ p.updated <= i.at}

\* Mutant of PortfolioSnapshot: several portfolios are judged as none.
PortfolioSnapshotOrBaseline(i) ==
    CASE i.mode = "research" -> {}
      [] i.mode # "research" /\ Cardinality(ActivePortfolios(i)) = 1
           -> {FromPortfolio(p) : p \in ActivePortfolios(i)}
      [] OTHER -> {EmptyBaseline(i)}

\* The active portfolio of the mode and dataset whose row is not of the future:
\* none is judged as an empty one, and more than one as no snapshot at all.
PortfolioSnapshot(i) ==
    CASE i.mode = "research" \/ Cardinality(ActivePortfolios(i)) > 1 -> {}
      [] i.mode # "research" /\ ActivePortfolios(i) = {} -> {EmptyBaseline(i)}
      [] OTHER -> {FromPortfolio(p) : p \in ActivePortfolios(i)}

\* The record also carries, for the properties, the rows stored at the analysis.
Analyze(w) ==
    LET a == attempt[w]
    IN /\ a # Idle /\ ~a.existing /\ ~a.refused /\ ~a.analyzed /\ NeedsPortfolio(a.records)
       /\ attempt' = [attempt EXCEPT ![w] =
            [a EXCEPT !.analyzed = TRUE,
                      !.refused = PortfolioRefused(a.intent, PortfolioSnapshot(a.intent)),
                      !.records = Append(@, [stored |-> portfolios] @@
                          PortfolioIntelligence(a.intent, a.records[3],
                                                PortfolioSnapshot(a.intent)))]]
       /\ UNCHANGED <<world, intents, jobs, evidence, reader>>

\* The job after an end of an attempt that still holds it
Settle(w, status, error) ==
    jobs' = IF Holder(w) THEN [jobs EXCEPT ![attempt[w].intent].status = status,
                                           ![attempt[w].intent].error = error]
            ELSE jobs
Requeued(i) == IF jobs[i].attempts < MaxAttempts THEN "queued" ELSE "failed"

\* An integrity error fails the job for good.
EndRefused(w) ==
    /\ attempt[w] # Idle /\ attempt[w].refused
    /\ Settle(w, "failed", "decision_evaluation_integrity_error")
    /\ attempt' = [attempt EXCEPT ![w] = Idle]
    /\ UNCHANGED <<world, intents, evidence, reader>>

\* A cancellation seen between two stages rolls everything back.
EndCancelled(w) ==
    /\ attempt[w] # Idle /\ jobs[attempt[w].intent].cancel
    /\ Settle(w, "cancelled", "none")
    /\ attempt' = [attempt EXCEPT ![w] = Idle]
    /\ UNCHANGED <<world, intents, evidence, reader>>

Complete(a) == ~a.refused /\ (a.existing \/ a.analyzed \/ ~NeedsPortfolio(a.records))
Conflict(a) == ~a.existing /\ a.intent \in DOMAIN evidence

\* The keys of the tables refuse rows another attempt has inserted meanwhile.
EndConflict(w) ==
    /\ attempt[w] # Idle /\ Conflict(attempt[w])
    /\ Settle(w, Requeued(attempt[w].intent), "job_handler_error")
    /\ attempt' = [attempt EXCEPT ![w] = Idle]
    /\ UNCHANGED <<world, intents, evidence, reader>>

\* Mutant of Commit: each stage is committed when it is staged.
CommitStage(w) ==
    LET a == attempt[w]
        part == IF Len(a.records) = 4 THEN SubSeq(a.records, 1, 3) ELSE a.records
    IN /\ a # Idle /\ Complete(a) /\ ~Conflict(a)
       /\ evidence' = [k \in DOMAIN evidence \cup {a.intent} |->
                         IF k = a.intent THEN part ELSE evidence[k]]
       /\ Settle(w, "succeeded", "none")
       /\ attempt' = [attempt EXCEPT ![w] = Idle]
       /\ UNCHANGED <<world, intents, reader>>

Commit(w) ==
    LET a == attempt[w]
    IN /\ a # Idle /\ Complete(a) /\ ~Conflict(a)
       /\ evidence' = [k \in DOMAIN evidence \cup {a.intent} |->
                         IF k = a.intent THEN a.records ELSE evidence[k]]
       /\ Settle(w, "succeeded", "none")
       /\ attempt' = [attempt EXCEPT ![w] = Idle]
       /\ UNCHANGED <<world, intents, reader>>

\* The lease of a job runs out; its worker is alive and goes on.
Expire(i) ==
    /\ jobs[i].status = "running"
    /\ jobs' = [jobs EXCEPT ![i].status = Requeued(i)]
    /\ UNCHANGED <<world, intents, attempt, evidence, reader>>

\* A worker stops: before its commit everything is rolled back.
Crash(w) ==
    /\ attempt[w] # Idle
    /\ attempt' = [attempt EXCEPT ![w] = Idle]
    /\ UNCHANGED <<world, intents, jobs, evidence, reader>>

-----------------------------------------------------------------------------
(* Readers: _build_detail finds the intent and asks for the record of each   *)
(* stage and then for the outcomes, with a statement each.                  *)

StagesOf(i) == IF i \in DOMAIN evidence THEN Len(evidence[i]) ELSE 0

StartRead(i) ==
    /\ reader = Idle
    /\ reader' = [intent |-> i, found |-> <<>>]
    /\ UNCHANGED <<world, intents, jobs, attempt, evidence>>

\* get_strategy_evaluation, get_candidate_ranking, get_risk_gate and
\* get_portfolio_intelligence, and list_stage_outcomes
Read ==
    /\ reader # Idle /\ Len(reader.found) < 5
    /\ LET n == Len(reader.found) + 1
           stages == StagesOf(reader.intent)
       IN reader' = [reader EXCEPT !.found = Append(@, IF n <= 4 THEN n <= stages ELSE stages)]
    /\ UNCHANGED <<world, intents, jobs, attempt, evidence>>

EndRead ==
    /\ reader # Idle /\ Len(reader.found) = 5
    /\ reader' = Idle
    /\ UNCHANGED <<world, intents, jobs, attempt, evidence>>

Next ==
    \/ Tick \/ Read \/ EndRead
    \/ \E r \in Strategies : Deploy(r)
    \/ \E id \in Portfolio, h \in Holdings, candle \in (StartTime - 1)..now : Trade(id, h, candle)
    \/ \E d \in PolicyModes : StagePolicy(d)
    \/ \E mode \in Mode, d \in Datasets, a \in Assessments, p \in policies, r \in registry :
         StageIntent(mode, d, a, p, r)
    \/ \E i \in intents : Enqueue(i) \/ StartRead(i)
    \/ \E i \in DOMAIN jobs : Cancel(i) \/ Expire(i) \/ \E w \in Worker : Claim(w, i)
    \/ \E w \in Worker :
        Analyze(w) \/ EndRefused(w) \/ EndCancelled(w) \/ EndConflict(w) \/ Commit(w) \/ Crash(w)

Spec == Init /\ [][Next]_vars

-----------------------------------------------------------------------------
(* Readers' projections *)

\* DecisionEvaluationSummary of an intent and its committed records
Summary(i) ==
    LET records == IF i \in DOMAIN evidence THEN evidence[i] ELSE <<>>
        latest == IF records = <<>> THEN {} ELSE {Last(records).outcome}
    IN [intent |-> i, stages |-> Len(records), latest |-> latest,
        signals |-> IF records = <<>> THEN 0 ELSE Cardinality(records[1].signals),
        candidates |-> IF Len(records) < 2 THEN {} ELSE Range(records[2].entries),
        portfolio |-> IF Len(records) < 4 THEN {}
                      ELSE UNION {s.portfolio : s \in records[4].snapshot}]

\* _matches: the filters of the list, each absent as {}
Matches(i, stage, candidate, portfolio) ==
    /\ \A s \in stage : Summary(i).stages >= s
    /\ candidate \subseteq Summary(i).candidates
    /\ portfolio \subseteq Summary(i).portfolio

-----------------------------------------------------------------------------
\* What is stored passes its validators and forms one chain per evaluation:
\* each stage but the last is accepted, the last is where a stage was not or the
\* fourth, and every outcome is dated by the intent, however attempts overlap,
\* stop or are cancelled.  A reader whose statements meet the commit finds the
\* outcome of each record it found; of the records of the outcomes it reports it
\* misses only the first ones, those it asked for before the commit.
EvidenceSound ==
    /\ \A p \in policies : DecisionPolicyValid(p)
    /\ \A i \in DOMAIN evidence :
        LET r == evidence[i]
        IN /\ i \in intents /\ IntentValid(i)
           /\ \A n \in DOMAIN r :
                /\ r[n].outcome.stage = Stages[n] /\ r[n].outcome.at = i.at
                /\ (n < Len(r) \/ r[n].outcome.disposition # "accepted" \/ n = 4)
                /\ n < Len(r) => r[n].outcome.disposition = "accepted"
           /\ StrategyEvaluationValid(r[1]) /\ ResultValid(i, r)
           /\ Len(r) >= 2 => RankingValid(r[2])
           /\ Len(r) >= 3 => RiskAssessmentValid(r[3]) /\ RiskGateValid(r[3]) /\ r[3].ranking = r[2]
           /\ Len(r) = 4 => AnalysisValid(r[4]) /\ PortfolioIntelligenceValid(r[4])
                            /\ r[4].gate = r[3]
           /\ Summary(i).portfolio # {} => Matches(i, {4}, {r[3].candidate}, Summary(i).portfolio)
    /\ (reader # Idle /\ Len(reader.found) = 5) =>
        LET found == reader.found
        IN /\ found[5] \in {0, StagesOf(reader.intent)}
           /\ \A n \in 1..4 : found[n] => n <= found[5] /\ \A m \in n..found[5] : found[m]

\* An evaluation ends accepted only for an enabled policy and a consumable,
\* aligned context, with a position inside the caps of an equity that holds no
\* other; and it was judged against an empty portfolio only when none was stored
\* at the analysis that was active, in its mode, and dated no later than the
\* request: one that is there now came in since, though it may bear an earlier date.
AcceptedIsAdmissible ==
    \A i \in DOMAIN evidence : Len(evidence[i]) = 4 =>
        LET r == evidence[i][4]
            z == CHOOSE x \in r.gate.sizing : TRUE
        IN r.recommendation = "accept" =>
             /\ i.policy.state = "enabled" /\ i.context.consumable
             /\ Aligned(z.candidate.action, i.context.assessment.trend)
             /\ z.loss * Scale <= Equity * MaxRisk
             /\ \A s \in r.snapshot :
                  /\ s.positions = {} /\ s.mode = i.mode /\ s.asOf <= i.at
                  /\ z.notional * Scale <= s.equity * MaxConcentration
                  /\ s.source = "empty_baseline" => \A p \in portfolios :
                       (/\ p.status = "active" /\ p.mode = i.mode
                        /\ p.dataset = i.dataset.id /\ p.updated <= i.at) => p \notin r.stored
=============================================================================
