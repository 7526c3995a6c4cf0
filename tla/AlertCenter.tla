----------------------------- MODULE AlertCenter -----------------------------
(***************************************************************************)
(* The alert center: rule versions are staged, assessments of one market   *)
(* stream ask for evaluations, workers evaluate them and publish or        *)
(* suppress, operators acknowledge, snooze and set quiet hours, expired    *)
(* alerts are swept (db/alert_*.py, alerts/jobs.py).                       *)
(*                                                                         *)
(* A worker's transaction reads the newest alert and the policy and writes *)
(* its evaluation later: nothing is locked in between, so the two are two  *)
(* steps here.                                                             *)
(***************************************************************************)
EXTENDS AlertContracts

CONSTANTS
    Worker,
    SourceEvent,    \* assessments of one source, pair and market type
    Assessment,     \* what each of them says, and when it is stored
    RuleContent,    \* what an operator may make a rule version of
    PolicyContent,  \* what an operator may set as publication policy
    Duration,       \* of a snooze
    SweepLimit,     \* rows of one expiry sweep
    NoWork,
    MaxVersions, MaxPolicies, MaxActions, MaxJobs   \* bounds of the instance

\* Assessments are stored no earlier than time starts; the contracts demand a
\* lifetime and a window of a minute at least, a cooldown that may be empty, and
\* a snooze of five minutes at least.
ASSUME AlertCenterAssumption ==
    /\ \A e \in SourceEvent : /\ Assessment[e].asOf \in Int
                             /\ Assessment[e].expires \in Int
                             /\ Assessment[e].stored \in Int
    /\ \A c \in RuleContent : /\ c.state \in {"enabled", "disabled"}
                             /\ c.lifetime \in Nat \ {0}
                             /\ c.window \in Nat \ {0} /\ c.cooldown \in Nat
    /\ Duration \subseteq Nat \ {0}
    /\ MaxVersions \in Nat

VARIABLES
    rules,          \* alert_rule_definitions: the versions of one rule
    jobs,           \* evaluation jobs by identity: status and request time
    work,           \* what each worker has read and will write
    evaluations, alerts, decisions,     \* rows by identity
    inbox,          \* alert_inbox_states
    actions,        \* alert_actions
    policies,       \* alert_publication_policies
    expiries,       \* alert_expiry_records by identity
    concurrent      \* two evaluations have been open at the same time

publicationVars == <<rules, jobs, evaluations, alerts, decisions, policies, concurrent>>
centerVars == <<now, work, inbox, actions, expiries, publicationVars>>

Id == (1..MaxVersions) \X SourceEvent

CenterInit ==
    /\ now = 0
    /\ rules = <<>> /\ jobs = Empty
    /\ work = [w \in Worker |-> NoWork]
    /\ evaluations = Empty /\ alerts = Empty /\ decisions = Empty
    /\ inbox = Empty /\ actions = {} /\ policies = <<>> /\ expiries = Empty
    /\ concurrent = FALSE

Latest(s) == s[Len(s)]
CurrentPolicy == IF policies = <<>> THEN DefaultPolicy ELSE Latest(policies)

\* Time passes.
CenterTick ==
    /\ now < MaxHour
    /\ now' = now + 1
    /\ UNCHANGED <<work, inbox, actions, expiries, publicationVars>>

-----------------------------------------------------------------------------
(* Rules, policies and evaluation requests *)

\* stage_rule_definition: only the successor of the latest version is stored.
StageRule(content) ==
    LET rule == RuleDefinition(content, Len(rules) + 1) IN
    /\ Len(rules) < MaxVersions
    /\ RuleValid(rule)
    /\ rules' = Append(rules, rule)
    /\ UNCHANGED <<now, work, inbox, actions, expiries, jobs, evaluations, alerts, decisions,
                   policies, concurrent>>

\* update_policy
UpdatePolicy(content) ==
    LET policy == Policy(Len(policies) + 1, content) IN
    /\ Len(policies) < MaxPolicies
    /\ PolicyValid(policy)
    /\ policies' = Append(policies, policy)
    /\ UNCHANGED <<now, work, inbox, actions, expiries, rules, jobs, evaluations, alerts,
                   decisions, concurrent>>

\* _enqueue_loaded: the job of a rule version and an event is created once and
\* keeps the time it was first requested at.
Enqueue(version, e) ==
    LET id == <<version, e>> IN
    /\ Assessment[e].stored <= now
    /\ id \notin DOMAIN jobs /\ Cardinality(DOMAIN jobs) < MaxJobs
    /\ jobs' = Put(jobs, id, [status |-> "queued", requested |-> now])
    /\ UNCHANGED <<now, work, inbox, actions, expiries, rules, evaluations, alerts, decisions,
                   policies, concurrent>>

\* enqueue_enabled_for_source at the end of a market-context job: the latest
\* version, if it is enabled.
EnqueueForSource(e) ==
    /\ rules # <<>>
    /\ Latest(rules).state = "enabled"
    /\ Enqueue(Len(rules), e)

-----------------------------------------------------------------------------
(* Evaluation *)

\* Mutant of LatestStreamAlert: only alerts of the same rule version count.
LatestStreamAlertOfVersion(rule, at) ==
    {a \in DOMAIN alerts : /\ alerts[a].created <= at /\ a[1] = rule.version
                           /\ \A b \in DOMAIN alerts : alerts[b].created <= at
                                => alerts[b].created <= alerts[a].created}

\* _latest_stream_alert: the newest alert of the rule, whatever its version;
\* among equally old ones the ID decides, which may be any of them.
LatestStreamAlert(rule, at) ==
    {a \in DOMAIN alerts : /\ alerts[a].created <= at
                           /\ \A b \in DOMAIN alerts : alerts[b].created <= at
                                => alerts[b].created <= alerts[a].created}

\* The publication reasons an earlier alert gives, with the time each ends.
Blockers(rule, previous, at) ==
    {b \in {[reason |-> "duplicate", until |-> alerts[previous].created + rule.window],
            [reason |-> "cooldown_active", until |-> alerts[previous].created + rule.cooldown],
            [reason |-> "snoozed", until |-> inbox[previous].snoozed]} :
        /\ b.until > at
        /\ b.reason = "snoozed" => alerts[previous].expires > at
        /\ b.reason = "cooldown_active" => rule.cooldown > 0}

\* SqlAlchemyAlertPublicationRepository.evaluate
PublicationDecision(id, rule, source, previous, at) ==
    LET quiet == IF Suppresses(CurrentPolicy, rule.severity, at)
                 THEN {[reason |-> "quiet_hours", until |-> QuietHoursEnd(CurrentPolicy, at)]}
                 ELSE {}
        stream == UNION {Blockers(rule, p, at) : p \in previous}
        reasons == {b.reason : b \in quiet \cup stream}
                   \cup (IF source.expires <= at THEN {"source_expired"} ELSE {})
    IN Decision(id, CurrentPolicy, reasons, IF stream = {} THEN {} ELSE previous,
                {b.until : b \in quiet \cup stream}, at)

Evaluating == {w \in Worker : work[w] # NoWork /\ work[w].kind = "evaluation"}

\* run, up to the writes: what was requested is evaluated with the rule version
\* and the assessment as stored, and only what would be published asks the
\* publication policy, at the time of the execution.
StartEvaluation(w, id) ==
    LET rule == rules[id[1]]
        source == SourceReference(id[2], Assessment[id[2]], jobs[id].requested)
        basic == Evaluate(rule, source, {})
        newest == LatestStreamAlert(rule, now)
        Pending(evaluation, decision) ==
            [kind |-> "evaluation", id |-> id, evaluation |-> evaluation, decision |-> decision]
    IN /\ work[w] = NoWork
       /\ id \in DOMAIN jobs /\ jobs[id].status = "queued"
       /\ id \notin DOMAIN evaluations
       /\ IF ~basic.alert THEN work' = [work EXCEPT ![w] = Pending(basic, {})]
          ELSE \E previous \in (IF newest = {} THEN {{}} ELSE {{p} : p \in newest}) :
                 LET d == PublicationDecision(id, rule, source, previous, now)
                 IN work' = [work EXCEPT ![w] = Pending(Evaluate(rule, source, d.reasons), {d})]
       /\ concurrent' = (concurrent \/ Evaluating # {})
       /\ UNCHANGED <<now, rules, jobs, evaluations, alerts, decisions, policies, inbox, actions,
                      expiries>>

\* A retry of an evaluation that was committed returns what is stored.
FinishEvaluated(id) ==
    /\ id \in DOMAIN jobs /\ jobs[id].status = "queued"
    /\ id \in DOMAIN evaluations
    /\ jobs' = [jobs EXCEPT ![id].status = "done"]
    /\ UNCHANGED <<now, work, inbox, actions, expiries, rules, evaluations, alerts, decisions,
                   policies, concurrent>>

\* stage_evaluation and stage_decision accept what StartEvaluation prepared.
Accepted(p) ==
    /\ EvaluationValid(p.evaluation)
    /\ p.evaluation.alert =>
        LET e == p.evaluation
        IN /\ DraftBuildable(e.rule, e.source, e.at)
           /\ DraftValid(Draft(e.rule, e.source, e.at))
    /\ \A d \in p.decision : /\ DecisionValid(d)
                             /\ d.allowed = p.evaluation.alert
                             /\ d.reasons = p.evaluation.reasons

Close(w) == work' = [work EXCEPT ![w] = NoWork]

\* The evaluation, its alert with the inbox state and its decision are written
\* in one transaction.  A row that is already there is an integrity error: the
\* transaction is rolled back and the job tried again.
CommitEvaluation(w) ==
    LET p == work[w]
        draft == Draft(p.evaluation.rule, p.evaluation.source, p.evaluation.at)
    IN /\ w \in Evaluating
       /\ p.id \notin DOMAIN evaluations /\ Accepted(p)
       /\ evaluations' = Put(evaluations, p.id, p.evaluation)
       /\ IF p.evaluation.alert
          THEN /\ alerts' = Put(alerts, p.id, draft)
               /\ inbox' = Put(inbox, p.id, InitialState(draft.created))
          ELSE UNCHANGED <<alerts, inbox>>
       /\ decisions' = IF p.decision = {} THEN decisions
                       ELSE Put(decisions, p.id, CHOOSE d \in p.decision : TRUE)
       /\ Close(w)
       /\ UNCHANGED <<now, rules, jobs, policies, concurrent, actions, expiries>>

\* A value the validators refuse ends the job for good.
RejectEvaluation(w) ==
    /\ w \in Evaluating
    /\ work[w].id \notin DOMAIN evaluations /\ ~Accepted(work[w])
    /\ jobs' = [jobs EXCEPT ![work[w].id].status = "rejected"]
    /\ Close(w)
    /\ UNCHANGED <<now, rules, evaluations, alerts, decisions, policies, concurrent, inbox,
                   actions, expiries>>

\* A crash, a cancellation or an integrity error rolls the transaction back.
Abandon(w) ==
    /\ work[w] # NoWork
    /\ Close(w)
    /\ UNCHANGED <<now, inbox, actions, expiries, publicationVars>>

-----------------------------------------------------------------------------
(* The operator *)

\* Mutant of Acknowledge: the snooze is left on the acknowledged alert.
AcknowledgeSnoozed(id) ==
    /\ id \in DOMAIN alerts
    /\ inbox[id].acked = NoTime /\ alerts[id].expires > now
    /\ Cardinality(actions) < MaxActions
    /\ inbox' = [inbox EXCEPT ![id].acked = now, ![id].updated = now]
    /\ actions' = actions \cup {ActionRecord(id, "acknowledged", now, NoTime)}
    /\ UNCHANGED <<now, work, expiries, publicationVars>>

\* acknowledge: an acknowledged alert is returned as it is, an expired one is
\* a conflict.
Acknowledge(id) ==
    /\ id \in DOMAIN alerts
    /\ inbox[id].acked = NoTime /\ alerts[id].expires > now
    /\ Cardinality(actions) < MaxActions
    /\ inbox' = [inbox EXCEPT ![id] = Acknowledged(@, now)]
    /\ actions' = actions \cup {ActionRecord(id, "acknowledged", now, NoTime)}
    /\ UNCHANGED <<now, work, expiries, publicationVars>>

\* snooze: neither an expired nor an acknowledged alert; the newest one counts
Snooze(id, duration) ==
    /\ id \in DOMAIN alerts
    /\ inbox[id].acked = NoTime /\ alerts[id].expires > now
    /\ Cardinality(actions) < MaxActions
    /\ inbox' = [inbox EXCEPT ![id] = Snoozed(@, now, duration)]
    /\ actions' = actions \cup {ActionRecord(id, "snoozed", now, now + duration)}
    /\ UNCHANGED <<now, work, expiries, publicationVars>>

-----------------------------------------------------------------------------
(* The expiry sweep *)

Oldest(ids, limit) ==
    {batch \in SUBSET ids :
        /\ Cardinality(batch) = Min({limit, Cardinality(ids)})
        /\ \A a \in batch, b \in ids \ batch : alerts[a].expires <= alerts[b].expires}

\* sweep_expired reads expired alerts without evidence, the oldest first; the
\* rows stay locked, yet another sweep that waited for them goes on with what
\* it had read.
StartSweep(w) ==
    /\ work[w] = NoWork
    /\ \E batch \in Oldest({a \in DOMAIN alerts : alerts[a].expires <= now /\ a \notin DOMAIN expiries},
                           SweepLimit) :
         /\ batch # {}
         /\ work' = [work EXCEPT ![w] = [kind |-> "sweep", batch |-> batch, at |-> now]]
    /\ UNCHANGED <<now, inbox, actions, expiries, publicationVars>>

\* The evidence is unique for each alert: if another sweep was faster, this
\* one fails as a whole (Abandon).
CommitSweep(w) ==
    /\ work[w] # NoWork /\ work[w].kind = "sweep"
    /\ work[w].batch \cap DOMAIN expiries = {}
    /\ expiries' = [a \in DOMAIN expiries \cup work[w].batch |->
                      IF a \in work[w].batch
                      THEN [expired |-> alerts[a].expires, recorded |-> work[w].at]
                      ELSE expiries[a]]
    /\ Close(w)
    /\ UNCHANGED <<now, inbox, actions, publicationVars>>

CenterNext ==
    \/ CenterTick
    \/ \E c \in RuleContent : StageRule(c)
    \/ \E c \in PolicyContent : UpdatePolicy(c)
    \/ \E e \in SourceEvent : EnqueueForSource(e)
    \/ \E v \in DOMAIN rules, e \in SourceEvent : Enqueue(v, e)
    \/ \E w \in Worker : \/ \E id \in Id : StartEvaluation(w, id)
                         \/ CommitEvaluation(w)
                         \/ RejectEvaluation(w)
                         \/ StartSweep(w)
                         \/ CommitSweep(w)
                         \/ Abandon(w)
    \/ \E id \in Id : \/ FinishEvaluated(id)
                      \/ Acknowledge(id)
                      \/ \E d \in Duration : Snooze(id, d)

CenterSpec == CenterInit /\ [][CenterNext]_centerVars

-----------------------------------------------------------------------------
(* Properties *)

\* Every row passes the validators its contract runs when the row is read
\* again; an alert has its published evaluation and its decision; and the
\* filters the inbox counts with put it under exactly one status, the one its
\* item shows.  Nothing an evaluation has built is refused afterwards, so no
\* job is ended for good by the disagreement of two parts of the code.
RowsReadable ==
    /\ \A i \in DOMAIN rules : RuleValid(rules[i]) /\ rules[i].version = i
    /\ \A i \in DOMAIN policies : PolicyValid(policies[i])
    /\ \A i \in DOMAIN evaluations :
        /\ EvaluationValid(evaluations[i]) /\ SourceValid(evaluations[i].source)
        /\ (i \in DOMAIN alerts) = evaluations[i].alert
    /\ \A i \in DOMAIN alerts :
        /\ DraftValid(alerts[i]) /\ InboxValid(inbox[i])
        /\ i \in DOMAIN evaluations /\ decisions[i].allowed
    /\ \A i \in DOMAIN decisions : DecisionValid(decisions[i])
    /\ \A a \in actions : ActionValid(a)
    /\ \A i \in DOMAIN expiries : ExpiryValid(expiries[i], alerts[i])
    /\ \A i \in DOMAIN jobs : jobs[i].status # "rejected"
    /\ \A i \in DOMAIN alerts :
        {s \in {"active", "snoozed", "acknowledged", "expired"} :
            StatusCondition(s, alerts[i], inbox[i], now)}
        = {ItemStatus(alerts[i], inbox[i], now)}

\* While evaluations are not executed at the same time, of any two published
\* alerts of the stream the later one was not decided within the other's
\* deduplication window, nor within its cooldown.
WindowsRespected ==
    ~concurrent =>
        \A a, b \in DOMAIN alerts : a # b =>
            \E x \in {<<a, b>>, <<b, a>>} :
                LET earlier == alerts[x[1]]
                    later == decisions[x[2]]
                IN /\ earlier.created + alerts[x[2]].rule.window <= later.at
                   /\ earlier.created + alerts[x[2]].rule.cooldown <= later.at
=============================================================================
