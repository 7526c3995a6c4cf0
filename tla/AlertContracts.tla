--------------------------- MODULE AlertContracts ---------------------------
(***************************************************************************)
(* The immutable records of the alert center, how each is built and what   *)
(* its validator demands (alerts/contracts.py, evaluations.py,             *)
(* publication.py, inbox.py, simulations.py, outcomes.py).                 *)
(*                                                                         *)
(* A record is read back through the validator it was built under, so a    *)
(* builder and a validator that disagree leave a row nobody can read.      *)
(* Checksums and IDs are functions of the fields they cover and of the     *)
(* rule version and source event: they are represented by those fields.    *)
(***************************************************************************)
EXTENDS Integers, FiniteSets, FiniteSetsExt, Sequences, Rounding

CONSTANTS
    Step,           \* length of a market-context boundary (an hour)
    Day,            \* length of a day, for the quiet hours
    Scale,          \* a return of 1 in units of the smallest metric
    Threshold,      \* ALERT_OUTCOME_THRESHOLD in those units
    MaxHour         \* bound of the instance: the clock stops there

VARIABLE
    now             \* the clock the parts of the alert center share

ASSUME AlertContractsAssumption ==
    /\ Step \in Nat \ {0} /\ Day \in Nat \ {0}
    /\ Scale \in Nat \ {0} /\ Threshold \in 1..Scale
    /\ MaxHour \in Nat

NoTime == -1

\* A table without rows, and one with a row inserted or replaced.
Empty == [i \in {} |-> NoTime]
Put(table, key, row) == [k \in DOMAIN table \cup {key} |-> IF k = key THEN row ELSE table[k]]

-----------------------------------------------------------------------------
(* Source references and rules *)

\* The hour an assessment must be of to be used at a time.
Boundary(t) == t - (t % Step)

UnavailableReasons(assessment, at) ==
    {r \in {"assessment_not_ready", "assessment_expired", "boundary_mismatch"} :
        CASE r = "assessment_not_ready" -> assessment.status # "ready"
          [] r = "assessment_expired"   -> assessment.expires <= at
          [] r = "boundary_mismatch"    -> assessment.asOf # Boundary(at)}

\* from_market_context_view: the assessment as it is seen at a time
SourceReference(event, assessment, at) ==
    [event |-> event, asOf |-> assessment.asOf, expires |-> assessment.expires,
     at |-> at, expected |-> Boundary(at), status |-> assessment.status,
     trend |-> assessment.trend, confidence |-> assessment.confidence,
     consumable |-> UnavailableReasons(assessment, at) = {},
     unavailable |-> UnavailableReasons(assessment, at)]

SourceValid(s) ==
    /\ s.unavailable = {r \in {"assessment_not_ready", "assessment_expired", "boundary_mismatch"} :
                          \/ r = "assessment_not_ready" /\ s.status # "ready"
                          \/ r = "assessment_expired" /\ s.expires <= s.at
                          \/ r = "boundary_mismatch" /\ s.asOf # s.expected}
    /\ s.consumable = (s.unavailable = {})

ConditionValid(c) == c.trends # {} /\ "undetermined" \notin c.trends /\ c.confidence > 0

Matches(c, s) ==
    /\ s.consumable
    /\ s.trend \in c.trends
    /\ s.confidence >= c.confidence

RuleValid(r) ==
    /\ r.version >= 1
    /\ r.supersedes = (IF r.version = 1 THEN 0 ELSE r.version - 1)
    /\ ConditionValid(r.condition)

\* build: a rule version supersedes its immediate predecessor
RuleDefinition(content, version) ==
    [version |-> version, supersedes |-> version - 1, state |-> content.state,
     severity |-> content.severity, condition |-> content.condition,
     lifetime |-> content.lifetime, window |-> content.window,
     cooldown |-> content.cooldown]

\* The identity of an evaluation, of its alert and of the deduplication key.
Identity(rule, source) == <<rule.version, source.event>>

-----------------------------------------------------------------------------
(* Drafts and evaluations *)

Expiry(rule, source, created) == Min({source.expires, created + rule.lifetime})

DraftBuildable(rule, source, created) ==
    /\ rule.state = "enabled"
    /\ source.consumable
    /\ source.expires > created
    /\ Matches(rule.condition, source)

Draft(rule, source, created) ==
    [id |-> Identity(rule, source), rule |-> rule, source |-> source,
     severity |-> rule.severity, created |-> created,
     expires |-> Expiry(rule, source, created)]

DraftValid(d) ==
    /\ d.rule.state = "enabled"
    /\ d.source.consumable /\ d.source.unavailable = {}
    /\ d.source.at <= d.created /\ d.created < d.source.expires
    /\ d.expires = Expiry(d.rule, d.source, d.created)
    /\ d.severity = d.rule.severity
    /\ d.id = Identity(d.rule, d.source)

Published(draft) ==
    [id |-> draft.id, rule |-> draft.rule, source |-> draft.source,
     disposition |-> "published", reasons |-> {}, alert |-> TRUE, at |-> draft.created]

Suppressed(rule, source, reasons) ==
    [id |-> Identity(rule, source), rule |-> rule, source |-> source,
     disposition |-> "suppressed", reasons |-> reasons, alert |-> FALSE, at |-> source.at]

EvaluationValid(e) ==
    /\ e.id = Identity(e.rule, e.source)
    /\ e.source.at = e.at
    /\ e.disposition = "published" =>
        /\ e.reasons = {} /\ e.alert
        /\ e.rule.state = "enabled"
        /\ e.source.consumable /\ e.source.expires > e.at
    /\ e.disposition = "suppressed" =>
        /\ e.reasons # {} /\ ~e.alert
        /\ e.rule.state = "disabled" => "rule_disabled" \in e.reasons
        /\ ~e.source.consumable => "source_not_consumable" \in e.reasons
        /\ e.source.expires <= e.at => "source_expired" \in e.reasons

\* evaluate_alert: the first group of reasons that is not empty decides
Evaluate(rule, source, policyReasons) ==
    LET basic == {r \in {"rule_disabled", "source_not_consumable", "source_expired"} :
                    \/ r = "rule_disabled" /\ rule.state = "disabled"
                    \/ r = "source_not_consumable" /\ ~source.consumable
                    \/ r = "source_expired" /\ source.expires <= source.at}
        reasons == IF basic # {} THEN basic
                   ELSE IF ~Matches(rule.condition, source) THEN {"condition_not_matched"}
                   ELSE policyReasons
    IN IF reasons # {} THEN Suppressed(rule, source, reasons)
       ELSE Published(Draft(rule, source, source.at))

-----------------------------------------------------------------------------
(* Publication policy and decision *)

Policy(version, content) ==
    [version |-> version, quiet |-> content.quiet, from |-> content.from,
     until |-> content.until, bypass |-> content.bypass]

DefaultPolicy == [version |-> 0, quiet |-> FALSE, from |-> 0, until |-> 0, bypass |-> TRUE]

PolicyValid(p) == p.quiet => p.from # p.until

\* quiet_hours_end: the hours may run over midnight; the end is the next time
\* the clock shows it
QuietHoursEnd(p, t) ==
    LET minute == t % Day
        midnight == t - minute
        active == IF p.from < p.until THEN p.from <= minute /\ minute < p.until
                  ELSE minute >= p.from \/ minute < p.until
    IN IF ~p.quiet \/ ~active THEN NoTime
       ELSE midnight + p.until + (IF p.from > p.until /\ minute >= p.from THEN Day ELSE 0)

Suppresses(p, severity, t) ==
    /\ ~(severity = "critical" /\ p.bypass)
    /\ QuietHoursEnd(p, t) # NoTime

Decision(id, policy, reasons, previous, blockers, at) ==
    [id |-> id, policy |-> policy.version, allowed |-> reasons = {}, reasons |-> reasons,
     previous |-> IF reasons = {} THEN {} ELSE previous,
     until |-> IF reasons = {} \/ blockers = {} THEN NoTime ELSE Max(blockers),
     at |-> at]

DecisionValid(d) ==
    /\ d.reasons \subseteq {"duplicate", "cooldown_active", "quiet_hours", "snoozed",
                            "source_expired"}
    /\ d.allowed = (d.reasons = {})
    /\ d.allowed => d.previous = {} /\ d.until = NoTime

\* An expiry record is not written before the alert has expired.
ExpiryValid(x, d) == x.recorded >= x.expired /\ x.expired = d.expires

ExpirySummary(alerts, recorded, at) ==
    LET expired == {d \in alerts : d.expires <= at}
    IN [total |-> Cardinality(expired),
        materialized |-> Cardinality({d \in expired : d.id \in recorded}),
        pending |-> Cardinality({d \in expired : d.id \notin recorded})]

-----------------------------------------------------------------------------
(* The operator's inbox *)

InitialState(created) == [acked |-> NoTime, snoozed |-> NoTime, updated |-> created]

InboxValid(s) == s.acked # NoTime => s.snoozed = NoTime /\ s.updated >= s.acked

Acknowledged(s, at) == [acked |-> at, snoozed |-> NoTime, updated |-> at]

Snoozed(s, at, duration) == [s EXCEPT !.snoozed = at + duration, !.updated = at]

ActionRecord(id, kind, at, until) == [id |-> id, kind |-> kind, at |-> at, until |-> until]

ActionValid(a) ==
    /\ (a.kind = "snoozed") = (a.until # NoTime)
    /\ a.until # NoTime => a.until > a.at

\* AlertInboxItem.build: the status shown for one alert
ItemStatus(d, s, at) ==
    CASE s.acked # NoTime -> "acknowledged"
      [] s.acked = NoTime /\ d.expires <= at -> "expired"
      [] s.acked = NoTime /\ d.expires > at /\ s.snoozed # NoTime /\ s.snoozed > at -> "snoozed"
      [] OTHER -> "active"

\* _status_condition: the WHERE clause that lists and counts a status
StatusCondition(status, d, s, at) ==
    \/ status = "acknowledged" /\ s.acked # NoTime
    \/ status = "expired" /\ s.acked = NoTime /\ d.expires <= at
    \/ status = "snoozed" /\ s.acked = NoTime /\ d.expires > at /\ s.snoozed > at
    \/ /\ status = "active" /\ s.acked = NoTime /\ d.expires > at
       /\ s.snoozed = NoTime \/ s.snoozed <= at

-----------------------------------------------------------------------------
(* Offline simulations and their outcomes *)

Simulation(d, mode, horizon, at) ==
    [id |-> <<d.id, mode>>, alert |-> d.id, mode |-> mode, trend |-> d.source.trend,
     horizon |-> horizon, started |-> at, ends |-> at + horizon]

SimulationBuildable(d, at) == d.created <= at /\ at < d.expires

AlertSimulationValid(s) == s.id = <<s.alert, s.mode>> /\ s.ends = s.started + s.horizon

SimulationStatus(s, at) == IF s.ends - at > 0 THEN "observing" ELSE "awaiting_outcome"

Abs(x) == IF x < 0 THEN -x ELSE x

\* (price / reference) - 1 in units of the metric
Return(price, reference) == HalfEven((price - reference) * Scale, reference)

PricesConsistent(p) ==
    /\ \A x \in {p.reference, p.end, p.high, p.low} : x > 0
    /\ p.high >= Max({p.reference, p.end})
    /\ p.low <= Min({p.reference, p.end})

DirectionalReturn(trend, p) ==
    LET raw == Return(p.end, p.reference)
    IN CASE trend = "trending_up" -> raw
         [] trend = "trending_down" -> -raw
         [] OTHER -> -Abs(raw)

Excursions(trend, p) ==
    LET up == Return(p.high, p.reference)
        down == Return(p.low, p.reference)
    IN CASE trend = "trending_up" -> [favorable |-> Max({0, up}), adverse |-> Min({0, down})]
         [] trend = "trending_down" -> [favorable |-> Max({0, -down}), adverse |-> Min({0, -up})]
         [] OTHER -> [favorable |-> 0, adverse |-> DirectionalReturn(trend, p)]

Classification(trend, p) ==
    LET directional == DirectionalReturn(trend, p)
    IN CASE trend = "ranging" /\ Abs(directional) <= Threshold -> "confirmed"
         [] trend = "ranging" /\ Abs(directional) > Threshold -> "false_positive"
         [] trend = "undetermined" -> "neutral"
         [] trend \notin {"ranging", "undetermined"} /\ directional >= Threshold -> "confirmed"
         [] trend \notin {"ranging", "undetermined"} /\ directional <= -Threshold -> "false_positive"
         [] OTHER -> "neutral"

\* build: an outcome is observed when the horizon has passed
OutcomeBuildable(s, p, observed) == observed >= s.ends /\ PricesConsistent(p)

Outcome(s, p, trend, observed, recorded) ==
    [simulation |-> s.id, alert |-> s.alert, mode |-> s.mode, expected |-> s.trend,
     observed |-> trend, prices |-> p, directional |-> DirectionalReturn(s.trend, p),
     excursions |-> Excursions(s.trend, p), class |-> Classification(s.trend, p),
     falsePositive |-> Classification(s.trend, p) = "false_positive",
     drifted |-> trend # s.trend, observedAt |-> observed, recordedAt |-> recorded]

OutcomeValid(o) ==
    /\ o.prices.high >= Max({o.prices.reference, o.prices.end})
    /\ o.prices.low <= Min({o.prices.reference, o.prices.end})
    /\ o.recordedAt >= o.observedAt
    /\ o.falsePositive = (o.class = "false_positive")
    /\ o.drifted = (o.observed # o.expected)
=============================================================================
