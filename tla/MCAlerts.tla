------------------------------ MODULE MCAlerts ------------------------------
(***************************************************************************)
(* Small instances of the alert center and of the offline observation of   *)
(* its alerts for TLC.  The two share the contracts and the clock; a       *)
(* behaviour is one of the center, one of the observation with its summary, *)
(* or one of the observation with its review, chosen with the initial state. *)
(***************************************************************************)
EXTENDS AlertCenter, AlertOutcomes, TLC

CONSTANTS Part, e1, e2

VARIABLE part

Symmetry == Permutations(Worker)

\* Two assessments of one stream, the second an hour later.
TwoEvents == {e1, e2}
TwoAssessments ==
    [e \in {e1, e2} |->
        IF e = e1 THEN [asOf |-> 0, expires |-> 2, stored |-> 0, status |-> "ready",
                        trend |-> "trending_up", confidence |-> 2]
        ELSE [asOf |-> 1, expires |-> 4, stored |-> 1, status |-> "ready",
              trend |-> "trending_up", confidence |-> 2]]

Rule(state, severity, lifetime, cooldown) ==
    [state |-> state, severity |-> severity, condition |-> [trends |-> {"trending_up"}, confidence |-> 1],
     lifetime |-> lifetime, window |-> 2, cooldown |-> cooldown]

TwoRules == {Rule("enabled", "warning", 2, 3), Rule("disabled", "critical", 2, 0)}
QuietHours == {[quiet |-> TRUE, from |-> 2, until |-> 1, bypass |-> TRUE]}

Path(end, high, low) == [reference |-> 100, end |-> end, high |-> high, low |-> low]
FourPaths == {Path(102, 103, 99), Path(98, 101, 97), Path(100, 100, 100), Path(102, 101, 99)}

Enrolled(id, trend) == [id |-> id, source |-> [trend |-> trend], created |-> 0, expires |-> 2]
TwoAlerts == {Enrolled("up", "trending_up"), Enrolled("flat", "ranging")}

TwoJournals == {"j1", "j2"}
OneEvaluation == {"v"}
StageRecords == {<<"rejected">>, <<"accepted", "accepted", "accepted", "deferred">>}
ReviewPolicy ==
    [minimum |-> [a \in Areas \cup {"stage_outcomes"} |-> 1],
     warning |-> [c \in {"false_positive", "drift", "no_position", "non_acceptance", "loss"} |-> 500]]
TwoClosed == [closed |-> 2, losing |-> 1, net |-> -1]

center == <<rules, jobs, work, evaluations, alerts, decisions, inbox, actions, policies,
            expiries, concurrent>>
observation == <<simulations, outcomes, journaled, decided, summary, review>>

Init == part \in Part /\ CenterInit /\ ObservationInit

\* Bound: the operator acts on alerts twice, or changes the publication policy.
OperatorActs == Cardinality(actions) + 2 * Len(policies)

\* Bound: while a review is read, one simulation is enrolled.
OneSimulation == Cardinality(DOMAIN simulations) <= 1

Next ==
    \/ part = "center" /\ CenterNext /\ OperatorActs' <= 2 /\ UNCHANGED <<part, observation>>
    \/ part = "observation" /\ UNCHANGED <<part, center, journaled, decided, review>> /\ ObservationNext
    \/ part = "review" /\ UNCHANGED <<part, center, summary>> /\ ObservationNext
       /\ OneSimulation'

Spec == Init /\ [][Next]_<<part, now, center, observation>>
=============================================================================
