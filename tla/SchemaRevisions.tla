---------------------------- MODULE SchemaRevisions ----------------------------
(***************************************************************************)
(* The tables of the database as the chain of Alembic revisions creates,    *)
(* alters and drops them (alembic/versions).  A table is its unique keys    *)
(* (the primary key first), the tables it refers to with what a delete      *)
(* does, the names of its CHECK constraints without the ck_<table>_ prefix, *)
(* and, in "form", what later revisions change: the values a check admits   *)
(* and the columns added afterwards.  Column types and plain indexes are    *)
(* left out.                                                                *)
(***************************************************************************)
EXTENDS Sequences, FiniteSets, TLC

Table(keys, refs, checks, form) == [keys |-> keys, refs |-> refs, checks |-> checks, form |-> form]
Ref(table, columns, onDelete) == [table |-> table, columns |-> columns, onDelete |-> onDelete]

\* What one statement of a revision does to the schema.
Create(table) == [op |-> "create", table |-> table]
Drop(name) == [op |-> "drop", name |-> name]
Alter(name, from, to) == [op |-> "alter", name |-> name, field |-> "form", from |-> from, to |-> to]
Rename(name, from, to) == [op |-> "alter", name |-> name, field |-> "checks", from |-> from, to |-> to]
AddKey(name, key) == [op |-> "alter", name |-> name, field |-> "keys", from |-> {}, to |-> {key}]
DropKey(name, key) == [op |-> "alter", name |-> name, field |-> "keys", from |-> {key}, to |-> {}]

DatasetSnapshots ==
    "dataset_snapshots" :> Table(
        {{"dataset_id"}, {"checksum"}},
        {},
        {}, {})

ResearchExperiments ==
    "research_experiments" :> Table(
        {{"experiment_id"}},
        {},
        {}, {})

WalkForwardRuns ==
    "walk_forward_runs" :> Table(
        {{"execution_id"}},
        {},
        {}, {})

Revision01 == [
    up |-> <<Create(DatasetSnapshots), Create(ResearchExperiments), Create(WalkForwardRuns)>>,
    down |-> <<Drop("walk_forward_runs"), Drop("research_experiments"), Drop("dataset_snapshots")>>]

SystemMetricSamples ==
    "system_metric_samples" :> Table(
        {{"sample_id"}},
        {},
        {"observed_count_positive", "value_non_negative", "window_seconds_positive"}, {})

ArchitectureRecommendations ==
    "architecture_recommendations" :> Table(
        {{"recommendation_id"}},
        {},
        {"candidate_supported", "detection_time_order", "severity_supported", "status_supported"}, {})

Revision02 == [
    up |-> <<Create(SystemMetricSamples), Create(ArchitectureRecommendations)>>,
    down |-> <<Drop("architecture_recommendations"), Drop("system_metric_samples")>>]

ExperimentExecutions ==
    "experiment_executions" :> Table(
        {{"execution_id"}},
        {},
        {"finished_after_started", "progress_percent_range", "started_after_created",
         "status_supported", "updated_after_created"}, {})

Revision03 == [
    up |-> <<Create(ExperimentExecutions)>>,
    down |-> <<Drop("experiment_executions")>>]

WalkForwardExecutions ==
    "walk_forward_executions" :> Table(
        {{"execution_id"}},
        {},
        {"completed_folds_range", "finished_after_started", "progress_percent_range",
         "started_after_created", "status_supported", "total_folds_positive",
         "updated_after_created"}, {})

Revision04 == [
    up |-> <<Create(WalkForwardExecutions)>>,
    down |-> <<Drop("walk_forward_executions")>>]

SimulatedPortfolios ==
    "simulated_portfolios" :> Table(
        {{"portfolio_id"}},
        {},
        {"cash_non_negative", "fee_rate_range", "fees_paid_non_negative", "mode_supported",
         "starting_cash_positive", "status_supported", "updated_after_created"}, {})

SimulatedPositions ==
    "simulated_positions" :> Table(
        {{"position_id"}},
        {Ref("simulated_portfolios", {"portfolio_id"}, "cascade")},
        {"closed_after_opened", "current_after_opened", "fees_non_negative", "prices_positive",
         "quantity_positive", "reserved_notional_positive", "side_supported",
         "status_exit_details_consistent", "status_supported"}, {})

PortfolioTimelineEvents ==
    "portfolio_timeline_events" :> Table(
        {{"event_id"}, {"portfolio_id", "sequence_number"}},
        {Ref("simulated_portfolios", {"portfolio_id"}, "cascade")},
        {"event_type_supported", "sequence_number_positive"}, {})

Revision05 == [
    up |-> <<Create(SimulatedPortfolios), Create(SimulatedPositions),
            Create(PortfolioTimelineEvents)>>,
    down |-> <<Drop("portfolio_timeline_events"), Drop("simulated_positions"),
              Drop("simulated_portfolios")>>]

MonitoringRuntimeState ==
    "monitoring_runtime_state" :> Table(
        {{"state_key"}},
        {},
        {}, {})

Revision06 == [
    up |-> <<Create(MonitoringRuntimeState)>>,
    down |-> <<Drop("monitoring_runtime_state")>>]

CandidateJournals ==
    "candidate_journals" :> Table(
        {{"journal_id"}},
        {},
        {"attempted_count_non_negative", "exit_reason_supported", "recorded_after_evaluated",
         "schema_version_positive", "status_lineage_consistent", "status_supported"}, {"legacy exit reasons"})

Revision07 == [
    up |-> <<Create(CandidateJournals)>>,
    down |-> <<Drop("candidate_journals")>>]

CandidateProjections ==
    "candidate_projections" :> Table(
        {{"candidate_id"}},
        {},
        {"action_supported", "confidence_supported", "exit_reason_supported",
         "latest_rank_positive", "latest_ranking_score_supported",
         "latest_replay_status_supported", "latest_risk_decision_supported",
         "occurrence_count_positive", "selected_boolean", "selection_lineage_consistent",
         "signal_score_supported", "status_supported"}, {"legacy exit reasons", "selection required"})

Revision08 == [
    up |-> <<Create(CandidateProjections)>>,
    down |-> <<Drop("candidate_projections")>>]

Revision09 == [
    up |-> <<Alter("candidate_journals", {"legacy exit reasons"}, {"extended exit reasons"}),
            Alter("candidate_projections", {"legacy exit reasons"}, {"extended exit reasons"})>>,
    down |-> <<Alter("candidate_projections", {"extended exit reasons"}, {"legacy exit reasons"}),
              Alter("candidate_journals", {"extended exit reasons"}, {"legacy exit reasons"})>>]

Revision10 == [
    up |-> <<Alter("candidate_projections", {"selection required"}, {"skipped rows"})>>,
    down |-> <<Alter("candidate_projections", {"skipped rows"}, {"selection required"})>>]

MarketDataConnections ==
    "market_data_connections" :> Table(
        {{"connection_id"}},
        {},
        {"enabled_requires_healthy", "health_details_consistent", "health_status_supported",
         "last_tested_in_lifecycle", "state_supported", "updated_after_created"}, {})

Revision11 == [
    up |-> <<Create(MarketDataConnections)>>,
    down |-> <<Drop("market_data_connections")>>]

MarketDataImports ==
    "market_data_imports" :> Table(
        {{"import_id"}},
        {Ref("market_data_connections", {"connection_id"}, "no action"),
         Ref("dataset_snapshots", {"dataset_id"}, "no action")},
        {"candle_count_nonnegative", "completed_after_created", "outcome_consistent",
         "requested_range_valid", "status_supported"}, {})

Revision12 == [
    up |-> <<Create(MarketDataImports)>>,
    down |-> <<Drop("market_data_imports")>>]

Revision13 == [
    up |-> <<Alter("market_data_imports", {}, {"lineage"}),
            AddKey("market_data_imports", {"root_import_id", "version_number"})>>,
    down |-> <<DropKey("market_data_imports", {"root_import_id", "version_number"}),
              Alter("market_data_imports", {"lineage"}, {})>>]

OptimizationExecutions ==
    "optimization_executions" :> Table(
        {{"execution_id"}},
        {},
        {"optimization_execution_finished_after_started",
         "optimization_execution_progress_range",
         "optimization_execution_started_after_created",
         "optimization_execution_status_supported",
         "optimization_execution_total_trials_positive",
         "optimization_execution_updated_after_created"}, {})

Revision14 == [
    up |-> <<Create(OptimizationExecutions)>>,
    down |-> <<Drop("optimization_executions")>>]

Revision15 == [
    up |-> <<Alter("market_data_connections", {}, {"error codes"})>>,
    down |-> <<Alter("market_data_connections", {"error codes"}, {})>>]

OptimizationChecks == {"status_supported", "total_trials_positive", "progress_range",
    "updated_after_created", "started_after_created", "finished_after_started"}

Revision16 == LET legacy == {"optimization_execution_" \o name : name \in OptimizationChecks} IN [
    up |-> <<Rename("optimization_executions", legacy, OptimizationChecks)>>,
    down |-> <<Rename("optimization_executions", OptimizationChecks, legacy)>>]

BackgroundJobs ==
    "background_jobs" :> Table(
        {{"job_id"}, {"kind", "idempotency_key"}},
        {},
        {"attempt_range", "finish_consistent", "finished_after_started", "lease_consistent",
         "progress_range", "run_after_created", "started_after_created", "status_supported",
         "success_progress_complete", "updated_after_created"}, {})

Revision17 == [
    up |-> <<Create(BackgroundJobs)>>,
    down |-> <<Drop("background_jobs")>>]

DatasetFileStages ==
    "dataset_file_stages" :> Table(
        {{"stage_id"}},
        {},
        {"checksum_length", "expiry_after_created", "file_size_bounded"}, {})

Revision18 == [
    up |-> <<Create(DatasetFileStages)>>,
    down |-> <<Drop("dataset_file_stages")>>]

MarketDataRawObservations ==
    "market_data_raw_observations" :> Table(
        {{"observation_id"}},
        {},
        {"checksum_length", "window_range_valid"}, {})

MarketDataEvents ==
    "market_data_events" :> Table(
        {{"event_id"}, {"idempotency_key"}},
        {},
        {"checksum_length", "kind_supported"}, {})

MarketDataEventInbox ==
    "market_data_event_inbox" :> Table(
        {{"idempotency_key"}, {"event_id"}},
        {},
        {"checksum_length", "delivery_count_positive", "seen_range_valid"}, {})

MarketDataOutbox ==
    "market_data_outbox" :> Table(
        {{"outbox_id"}, {"event_id", "topic", "payload_version"}},
        {Ref("market_data_events", {"event_id"}, "no action")},
        {"attempt_count_range", "available_after_created", "delivered_after_created",
         "outcome_consistent", "status_supported", "updated_after_created"}, {})

MarketDataWindowVersions ==
    "market_data_window_versions" :> Table(
        {{"window_id", "version"}},
        {},
        {"checksum_length", "finalization_consistent", "finalized_after_created",
         "state_supported", "version_positive", "window_range_valid"}, {})

MarketDataWatermarks ==
    "market_data_watermarks" :> Table(
        {{"watermark_id"},
         {"source", "base_asset", "quote_asset", "market_type", "timeframe", "version"}},
        {},
        {"allowed_lateness_nonnegative", "version_positive", "watermark_not_after_high_water"}, {})

\* Mutant of Revision19: going down, the events are dropped before the outbox and inbox.
Revision19EventsFirst == [
    up |-> <<Create(MarketDataRawObservations), Create(MarketDataEvents),
            Create(MarketDataEventInbox), Create(MarketDataOutbox),
            Create(MarketDataWindowVersions), Create(MarketDataWatermarks)>>,
    down |-> <<Drop("market_data_watermarks"), Drop("market_data_window_versions"),
              Drop("market_data_events"), Drop("market_data_outbox"),
              Drop("market_data_event_inbox"), Drop("market_data_raw_observations")>>]

Revision19 == [
    up |-> <<Create(MarketDataRawObservations), Create(MarketDataEvents),
            Create(MarketDataEventInbox), Create(MarketDataOutbox),
            Create(MarketDataWindowVersions), Create(MarketDataWatermarks)>>,
    down |-> <<Drop("market_data_watermarks"), Drop("market_data_window_versions"),
              Drop("market_data_outbox"), Drop("market_data_event_inbox"),
              Drop("market_data_events"), Drop("market_data_raw_observations")>>]

MarketDataEventDecisions ==
    "market_data_event_decisions" :> Table(
        {{"decision_id"}, {"observation_id"}},
        {},
        {"arrival_supported", "decision_consistent", "disposition_supported",
         "existing_version_positive", "proposed_version_positive", "reason_supported"}, {})

Revision20 == [
    up |-> <<Create(MarketDataEventDecisions)>>,
    down |-> <<Drop("market_data_event_decisions")>>]

MarketDataWatchlist ==
    "market_data_watchlist" :> Table(
        {{"watchlist_id"}, {"base_asset", "quote_asset", "market_type", "timeframe"}},
        {},
        {"enqueue_reference_consistent", "lookback_candles_bounded", "next_poll_after_created",
         "polling_interval_positive", "state_supported", "updated_after_created"}, {})

MarketDataProviderBudgets ==
    "market_data_provider_budgets" :> Table(
        {{"provider_id"}},
        {},
        {"tokens_nonnegative", "updated_after_refill"}, {})

MarketDataPollRuns ==
    "market_data_poll_runs" :> Table(
        {{"run_id"}, {"job_id", "job_attempt"}},
        {},
        {"attempt_count_bounded", "completion_after_start", "counts_nonnegative",
         "job_attempt_bounded", "outcome_consistent", "status_supported"}, {})

Revision21 == [
    up |-> <<Create(MarketDataWatchlist), Create(MarketDataProviderBudgets),
            Create(MarketDataPollRuns)>>,
    down |-> <<Drop("market_data_poll_runs"), Drop("market_data_provider_budgets"),
              Drop("market_data_watchlist")>>]

MarketDataWindowFinalizations ==
    "market_data_window_finalizations" :> Table(
        {{"finalization_id"}, {"window_id", "finalized_version"}},
        {},
        {"finalized_after_window_end", "freshness_outcome_supported", "freshness_values_valid",
         "version_transition_valid", "window_passed_watermark"}, {})

Revision22 == [
    up |-> <<Create(MarketDataWindowFinalizations)>>,
    down |-> <<Drop("market_data_window_finalizations")>>]

MarketDataReplayRequests ==
    "market_data_replay_requests" :> Table(
        {{"replay_id"}, {"decision_id"}},
        {},
        {"reason_supported"}, {})

MarketDataWindowRevisions ==
    "market_data_window_revisions" :> Table(
        {{"revision_id"}, {"replay_id"}, {"window_id", "revised_version"}},
        {},
        {"kind_supported", "reason_supported", "version_transition_valid"}, {})

Revision23 == [
    up |-> <<Create(MarketDataReplayRequests), Create(MarketDataWindowRevisions)>>,
    down |-> <<Drop("market_data_window_revisions"), Drop("market_data_replay_requests")>>]

MarketDataRetentionControl ==
    "market_data_retention_control" :> Table(
        {{"control_id"}},
        {},
        {"singleton_identity"}, {})

MarketDataRetentionHolds ==
    "market_data_retention_holds" :> Table(
        {{"hold_id"}},
        {},
        {"kind_supported", "release_after_placement", "release_consistent"}, {})

MarketDataRetentionRuns ==
    "market_data_retention_runs" :> Table(
        {{"run_id"}},
        {},
        {"batch_limit_bounded", "completion_after_request", "deleted_count_nonnegative",
         "mode_supported", "outcome_supported", "selected_count_nonnegative"}, {})

Revision24 == [
    up |-> <<Create(MarketDataRetentionControl), Create(MarketDataRetentionHolds),
            Create(MarketDataRetentionRuns)>>,
    down |-> <<Drop("market_data_retention_runs"), Drop("market_data_retention_holds"),
              Drop("market_data_retention_control")>>]

MarketContextInputManifests ==
    "market_context_input_manifests" :> Table(
        {{"manifest_id"}, {"input_checksum"}},
        {},
        {"checksum_length", "created_after_as_of", "window_count_minimum"}, {})

MarketContextInputWindows ==
    "market_context_input_windows" :> Table(
        {{"manifest_id", "ordinal"}, {"manifest_id", "window_id", "window_version"}},
        {Ref("market_context_input_manifests", {"manifest_id"}, "cascade"),
         Ref("market_data_window_versions", {"window_id", "version"}, "no action")},
        {"checksum_length", "ordinal_positive", "window_range_valid", "window_version_finalized"}, {})

MarketContextFeatureSnapshots ==
    "market_context_feature_snapshots" :> Table(
        {{"snapshot_id"}, {"manifest_id", "feature_set_version"}, {"snapshot_checksum"}},
        {Ref("market_context_input_manifests", {"manifest_id"}, "no action")},
        {"calculated_after_as_of", "feature_count_positive", "feature_set_checksum_length",
         "input_checksum_length", "snapshot_checksum_length"}, {})

MarketRegimeAssessments ==
    "market_regime_assessments" :> Table(
        {{"assessment_id"}, {"manifest_id", "feature_set_version", "algorithm_version"}},
        {Ref("market_context_feature_snapshots", {"snapshot_id"}, "no action"),
         Ref("market_context_input_manifests", {"manifest_id"}, "no action")},
        {"assessed_after_as_of", "confidence_range", "feature_set_checksum_length",
         "feature_snapshot_checksum_length", "input_checksum_length", "outcome_consistent",
         "status_supported", "trend_supported", "volatility_supported"}, {})

Revision25 == [
    up |-> <<Create(MarketContextInputManifests), Create(MarketContextInputWindows),
            Create(MarketContextFeatureSnapshots), Create(MarketRegimeAssessments)>>,
    down |-> <<Drop("market_regime_assessments"), Drop("market_context_feature_snapshots"),
              Drop("market_context_input_windows"), Drop("market_context_input_manifests")>>]

AlertRuleDefinitions ==
    "alert_rule_definitions" :> Table(
        {{"rule_id", "rule_version"}, {"definition_checksum"}, {"rule_key", "rule_version"}},
        {},
        {"checksum_length", "rule_version_positive", "severity_supported",
         "source_kind_supported", "state_supported"}, {})

AlertEvaluations ==
    "alert_evaluations" :> Table(
        {{"evaluation_id"}, {"evaluation_checksum"},
         {"rule_id", "rule_version", "source_kind", "source_event_id"}},
        {Ref("alert_rule_definitions", {"rule_id", "rule_version"}, "no action"),
         Ref("market_regime_assessments", {"assessment_id"}, "no action")},
        {"disposition_supported", "evaluation_checksum_length", "outcome_consistent",
         "source_event_checksum_length", "source_kind_supported",
         "suppression_reason_count_nonnegative"}, {})

Alerts ==
    "alerts" :> Table(
        {{"alert_id"}, {"deduplication_key"}, {"draft_checksum"}, {"evaluation_id"}},
        {Ref("alert_evaluations", {"evaluation_id"}, "no action"),
         Ref("alert_rule_definitions", {"rule_id", "rule_version"}, "no action"),
         Ref("market_regime_assessments", {"assessment_id"}, "no action")},
        {"delivery_channel_supported", "draft_checksum_length", "expiry_after_creation",
         "severity_supported", "source_kind_supported"}, {})

Revision26 == [
    up |-> <<Create(AlertRuleDefinitions), Create(AlertEvaluations), Create(Alerts)>>,
    down |-> <<Drop("alerts"), Drop("alert_evaluations"), Drop("alert_rule_definitions")>>]

AlertInboxStates ==
    "alert_inbox_states" :> Table(
        {{"alert_id"}},
        {Ref("alerts", {"alert_id"}, "cascade")},
        {"acknowledged_not_snoozed", "acknowledgement_consistent", "snooze_consistent"}, {})

AlertActions ==
    "alert_actions" :> Table(
        {{"action_id"}, {"action_checksum"}},
        {Ref("alerts", {"alert_id"}, "cascade")},
        {"checksum_length", "kind_supported", "payload_consistent"}, {})

Revision27 == [
    up |-> <<Create(AlertInboxStates), Create(AlertActions)>>,
    down |-> <<Drop("alert_actions"), Drop("alert_inbox_states")>>]

AlertPublicationPolicies ==
    "alert_publication_policies" :> Table(
        {{"policy_id", "policy_version"}, {"policy_checksum"}},
        {},
        {"checksum_length", "policy_version_positive", "quiet_hours_end_minute_range",
         "quiet_hours_start_minute_range", "quiet_hours_window_nonempty"}, {})

AlertPublicationDecisions ==
    "alert_publication_decisions" :> Table(
        {{"decision_id"}, {"decision_checksum"}, {"evaluation_id"}},
        {Ref("alert_evaluations", {"evaluation_id"}, "cascade"),
         Ref("alerts", {"alert_id"}, "no action")},
        {"decision_checksum_length", "outcome_consistent", "policy_checksum_length",
         "policy_version_nonnegative", "reason_count_nonnegative"}, {})

AlertExpiryRecords ==
    "alert_expiry_records" :> Table(
        {{"expiry_id"}, {"record_checksum"}, {"alert_id"}},
        {Ref("alerts", {"alert_id"}, "cascade")},
        {"checksum_length", "recorded_after_expiry"}, {})

Revision28 == [
    up |-> <<Create(AlertPublicationPolicies), Create(AlertPublicationDecisions),
            Create(AlertExpiryRecords)>>,
    down |-> <<Drop("alert_expiry_records"), Drop("alert_publication_decisions"),
              Drop("alert_publication_policies")>>]

AlertSimulations ==
    "alert_simulations" :> Table(
        {{"simulation_id"}, {"record_checksum"}},
        {Ref("alerts", {"alert_id"}, "cascade")},
        {"checksum_length", "ends_after_started", "external_order_submission_forbidden",
         "horizon_bounded", "mode_supported", "offline_only_required"}, {})

Revision29 == [
    up |-> <<Create(AlertSimulations)>>,
    down |-> <<Drop("alert_simulations")>>]

AlertOutcomes ==
    "alert_outcomes" :> Table(
        {{"outcome_id"}, {"record_checksum"}, {"simulation_id"}},
        {Ref("alert_simulations", {"simulation_id"}, "cascade"),
         Ref("alerts", {"alert_id"}, "cascade")},
        {"checksum_length", "classification_supported", "classification_threshold_supported",
         "end_price_positive", "external_order_submission_forbidden",
         "false_positive_consistent", "high_price_positive", "high_price_valid",
         "low_price_positive", "low_price_valid", "mode_supported", "offline_only_required",
         "policy_version_supported", "recorded_after_observation", "reference_price_positive"}, {})

Revision30 == [
    up |-> <<Create(AlertOutcomes)>>,
    down |-> <<Drop("alert_outcomes")>>]

DecisionPolicyDefinitions ==
    "decision_policy_definitions" :> Table(
        {{"policy_id", "policy_version"}, {"definition_checksum"},
         {"policy_key", "policy_version"}},
        {},
        {"allowed_mode_count_bounded", "checksum_length", "external_order_submission_forbidden",
         "lineage_consistent", "offline_only_required", "policy_version_positive",
         "state_supported"}, {})

DecisionEvaluationIntents ==
    "decision_evaluation_intents" :> Table(
        {{"evaluation_id"}, {"idempotency_key"}, {"intent_checksum"}},
        {Ref("dataset_snapshots", {"dataset_id"}, "no action"),
         Ref("market_regime_assessments", {"assessment_id"}, "no action"),
         Ref("decision_policy_definitions", {"policy_id", "policy_version"}, "no action")},
        {"dataset_checksum_length", "external_order_submission_forbidden",
         "intent_checksum_length", "market_context_checksum_length", "mode_supported",
         "offline_only_required", "policy_checksum_length", "stage_supported",
         "strategy_checksum_length"}, {})

DecisionStageOutcomes ==
    "decision_stage_outcomes" :> Table(
        {{"outcome_id"}, {"evaluation_id", "stage"}, {"outcome_checksum"}},
        {Ref("decision_evaluation_intents", {"evaluation_id"}, "cascade")},
        {"checksum_length", "disposition_supported", "external_order_submission_forbidden",
         "offline_only_required", "outcome_consistent", "reason_code_count_nonnegative",
         "stage_supported"}, {})

Revision31 == [
    up |-> <<Create(DecisionPolicyDefinitions), Create(DecisionEvaluationIntents),
            Create(DecisionStageOutcomes)>>,
    down |-> <<Drop("decision_stage_outcomes"), Drop("decision_evaluation_intents"),
              Drop("decision_policy_definitions")>>]

DecisionStrategyEvaluations ==
    "decision_strategy_evaluations" :> Table(
        {{"evaluation_id"}, {"outcome_id"}, {"record_checksum"}},
        {Ref("decision_evaluation_intents", {"evaluation_id"}, "cascade"),
         Ref("decision_stage_outcomes", {"outcome_id"}, "cascade")},
        {"disposition_supported", "external_order_submission_forbidden",
         "offline_only_required", "policy_checksum_length", "record_checksum_length",
         "signal_count_nonnegative", "signals_consistent"}, {})

Revision32 == [
    up |-> <<Create(DecisionStrategyEvaluations)>>,
    down |-> <<Drop("decision_strategy_evaluations")>>]

\* Mutant of Revision33: one of the three tables keeps the old name.
Revision33TwoTables ==
    LET legacy == {"external_order_submission_forbidden"}
        normalized == {"external_order_forbidden"} IN [
    up |-> <<Rename("decision_policy_definitions", legacy, normalized),
            Rename("decision_evaluation_intents", legacy, normalized)>>,
    down |-> <<Rename("decision_evaluation_intents", normalized, legacy),
              Rename("decision_policy_definitions", normalized, legacy)>>]

Revision33 == LET legacy == {"external_order_submission_forbidden"}
                  normalized == {"external_order_forbidden"} IN [
    up |-> <<Rename("decision_policy_definitions", legacy, normalized),
            Rename("decision_evaluation_intents", legacy, normalized),
            Rename("decision_strategy_evaluations", legacy, normalized)>>,
    down |-> <<Rename("decision_strategy_evaluations", normalized, legacy),
              Rename("decision_evaluation_intents", normalized, legacy),
              Rename("decision_policy_definitions", normalized, legacy)>>]

DecisionCandidateRankings ==
    "decision_candidate_rankings" :> Table(
        {{"evaluation_id"}, {"outcome_id"}, {"record_checksum"}},
        {Ref("decision_evaluation_intents", {"evaluation_id"}, "cascade"),
         Ref("decision_stage_outcomes", {"outcome_id"}, "cascade")},
        {"candidate_count_nonnegative", "counts_consistent", "disposition_supported",
         "excluded_count_nonnegative", "external_order_forbidden", "offline_only_required",
         "policy_checksum_length", "ranking_consistent", "record_checksum_length",
         "source_count_positive"}, {})

Revision34 == [
    up |-> <<Create(DecisionCandidateRankings)>>,
    down |-> <<Drop("decision_candidate_rankings")>>]

DecisionRiskGates ==
    "decision_risk_gates" :> Table(
        {{"evaluation_id"}, {"assessment_id"}, {"assessment_checksum"}, {"outcome_id"},
         {"record_checksum"}},
        {Ref("decision_evaluation_intents", {"evaluation_id"}, "cascade"),
         Ref("decision_stage_outcomes", {"outcome_id"}, "cascade")},
        {"assessment_checksum_length", "decision_supported", "disposition_supported",
         "external_order_forbidden", "offline_only_required", "policy_checksum_length",
         "ranking_checksum_length", "record_checksum_length", "risk_result_consistent"}, {})

Revision35 == [
    up |-> <<Create(DecisionRiskGates)>>,
    down |-> <<Drop("decision_risk_gates")>>]

DecisionPortfolioIntelligence ==
    "decision_portfolio_intelligence" :> Table(
        {{"evaluation_id"}, {"outcome_id"}, {"record_checksum"}},
        {Ref("decision_evaluation_intents", {"evaluation_id"}, "cascade"),
         Ref("decision_stage_outcomes", {"outcome_id"}, "cascade")},
        {"disposition_supported", "external_order_forbidden", "offline_only_required",
         "policy_checksum_length", "recommendation_supported", "record_checksum_length",
         "result_consistent", "risk_checksum_length"}, {})

Revision36 == [
    up |-> <<Create(DecisionPortfolioIntelligence)>>,
    down |-> <<Drop("decision_portfolio_intelligence")>>]

\* The revisions in the order of their down_revision.
Revisions == <<
    Revision01, Revision02, Revision03, Revision04, Revision05, Revision06, Revision07,
    Revision08, Revision09, Revision10, Revision11, Revision12, Revision13, Revision14,
    Revision15, Revision16, Revision17, Revision18, Revision19, Revision20, Revision21,
    Revision22, Revision23, Revision24, Revision25, Revision26, Revision27, Revision28,
    Revision29, Revision30, Revision31, Revision32, Revision33, Revision34, Revision35,
    Revision36>>

HeadRevision == Len(Revisions)
================================================================================
