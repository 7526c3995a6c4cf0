------------------------------ MODULE SchemaModels ------------------------------
(***************************************************************************)
(* The tables as the mapped classes of trd_bot/db/models.py declare them,   *)
(* in the vocabulary of SchemaRevisions.  The two are written down          *)
(* independently in the code as they are here; SchemaMigrations compares    *)
(* them.                                                                    *)
(***************************************************************************)
EXTENDS SchemaRevisions

ConnectionAndWatchlistRows ==
    "market_data_connections" :> Table(
        {{"connection_id"}},
        {},
        {"enabled_requires_healthy", "health_details_consistent", "health_status_supported",
         "last_tested_in_lifecycle", "state_supported", "updated_after_created"}, {"error codes"}) @@
    "market_data_watchlist" :> Table(
        {{"watchlist_id"}, {"base_asset", "quote_asset", "market_type", "timeframe"}},
        {},
        {"enqueue_reference_consistent", "lookback_candles_bounded", "next_poll_after_created",
         "polling_interval_positive", "state_supported", "updated_after_created"}, {})

PollingRows ==
    "market_data_provider_budgets" :> Table(
        {{"provider_id"}},
        {},
        {"tokens_nonnegative", "updated_after_refill"}, {}) @@
    "market_data_poll_runs" :> Table(
        {{"run_id"}, {"job_id", "job_attempt"}},
        {},
        {"attempt_count_bounded", "completion_after_start", "counts_nonnegative",
         "job_attempt_bounded", "outcome_consistent", "status_supported"}, {})

DatasetRows ==
    "market_data_imports" :> Table(
        {{"import_id"}, {"root_import_id", "version_number"}},
        {Ref("market_data_connections", {"connection_id"}, "no action"),
         Ref("dataset_snapshots", {"dataset_id"}, "no action")},
        {"candle_count_nonnegative", "completed_after_created", "outcome_consistent",
         "requested_range_valid", "status_supported"}, {"lineage"}) @@
    "dataset_snapshots" :> Table(
        {{"dataset_id"}, {"checksum"}},
        {},
        {}, {}) @@
    "dataset_file_stages" :> Table(
        {{"stage_id"}},
        {},
        {"checksum_length", "expiry_after_created", "file_size_bounded"}, {})

EventRows ==
    "market_data_raw_observations" :> Table(
        {{"observation_id"}},
        {},
        {"checksum_length", "window_range_valid"}, {}) @@
    "market_data_events" :> Table(
        {{"event_id"}, {"idempotency_key"}},
        {},
        {"checksum_length", "kind_supported"}, {}) @@
    "market_data_event_inbox" :> Table(
        {{"idempotency_key"}, {"event_id"}},
        {},
        {"checksum_length", "delivery_count_positive", "seen_range_valid"}, {})

DecisionAndOutboxRows ==
    "market_data_event_decisions" :> Table(
        {{"decision_id"}, {"observation_id"}},
        {},
        {"arrival_supported", "decision_consistent", "disposition_supported",
         "existing_version_positive", "proposed_version_positive", "reason_supported"}, {}) @@
    "market_data_outbox" :> Table(
        {{"outbox_id"}, {"event_id", "topic", "payload_version"}},
        {Ref("market_data_events", {"event_id"}, "no action")},
        {"attempt_count_range", "available_after_created", "delivered_after_created",
         "outcome_consistent", "status_supported", "updated_after_created"}, {})

WindowRows ==
    "market_data_window_versions" :> Table(
        {{"window_id", "version"}},
        {},
        {"checksum_length", "finalization_consistent", "finalized_after_created",
         "state_supported", "version_positive", "window_range_valid"}, {}) @@
    "market_data_window_finalizations" :> Table(
        {{"finalization_id"}, {"window_id", "finalized_version"}},
        {},
        {"finalized_after_window_end", "freshness_outcome_supported", "freshness_values_valid",
         "version_transition_valid", "window_passed_watermark"}, {})

ReplayAndWatermarkRows ==
    "market_data_replay_requests" :> Table(
        {{"replay_id"}, {"decision_id"}},
        {},
        {"reason_supported"}, {}) @@
    "market_data_window_revisions" :> Table(
        {{"revision_id"}, {"replay_id"}, {"window_id", "revised_version"}},
        {},
        {"kind_supported", "reason_supported", "version_transition_valid"}, {}) @@
    "market_data_watermarks" :> Table(
        {{"watermark_id"},
         {"source", "base_asset", "quote_asset", "market_type", "timeframe", "version"}},
        {},
        {"allowed_lateness_nonnegative", "version_positive", "watermark_not_after_high_water"}, {})

RetentionRows ==
    "market_data_retention_control" :> Table(
        {{"control_id"}},
        {},
        {"singleton_identity"}, {}) @@
    "market_data_retention_holds" :> Table(
        {{"hold_id"}},
        {},
        {"kind_supported", "release_after_placement", "release_consistent"}, {}) @@
    "market_data_retention_runs" :> Table(
        {{"run_id"}},
        {},
        {"batch_limit_bounded", "completion_after_request", "deleted_count_nonnegative",
         "mode_supported", "outcome_supported", "selected_count_nonnegative"}, {})

ContextInputRows ==
    "market_context_input_manifests" :> Table(
        {{"manifest_id"}, {"input_checksum"}},
        {},
        {"checksum_length", "created_after_as_of", "window_count_minimum"}, {}) @@
    "market_context_input_windows" :> Table(
        {{"manifest_id", "ordinal"}, {"manifest_id", "window_id", "window_version"}},
        {Ref("market_data_window_versions", {"window_id", "version"}, "no action"),
         Ref("market_context_input_manifests", {"manifest_id"}, "cascade")},
        {"checksum_length", "ordinal_positive", "window_range_valid", "window_version_finalized"}, {}) @@
    "market_context_feature_snapshots" :> Table(
        {{"snapshot_id"}, {"manifest_id", "feature_set_version"}, {"snapshot_checksum"}},
        {Ref("market_context_input_manifests", {"manifest_id"}, "no action")},
        {"calculated_after_as_of", "feature_count_positive", "feature_set_checksum_length",
         "input_checksum_length", "snapshot_checksum_length"}, {})

RegimeAndRuleRows ==
    "market_regime_assessments" :> Table(
        {{"assessment_id"}, {"manifest_id", "feature_set_version", "algorithm_version"}},
        {Ref("market_context_input_manifests", {"manifest_id"}, "no action"),
         Ref("market_context_feature_snapshots", {"snapshot_id"}, "no action")},
        {"assessed_after_as_of", "confidence_range", "feature_set_checksum_length",
         "feature_snapshot_checksum_length", "input_checksum_length", "outcome_consistent",
         "status_supported", "trend_supported", "volatility_supported"}, {}) @@
    "alert_rule_definitions" :> Table(
        {{"rule_id", "rule_version"}, {"rule_key", "rule_version"}, {"definition_checksum"}},
        {},
        {"checksum_length", "rule_version_positive", "severity_supported",
         "source_kind_supported", "state_supported"}, {})

AlertRows ==
    "alert_evaluations" :> Table(
        {{"evaluation_id"}, {"rule_id", "rule_version", "source_kind", "source_event_id"},
         {"evaluation_checksum"}},
        {Ref("alert_rule_definitions", {"rule_id", "rule_version"}, "no action"),
         Ref("market_regime_assessments", {"assessment_id"}, "no action")},
        {"disposition_supported", "evaluation_checksum_length", "outcome_consistent",
         "source_event_checksum_length", "source_kind_supported",
         "suppression_reason_count_nonnegative"}, {}) @@
    "alerts" :> Table(
        {{"alert_id"}, {"evaluation_id"}, {"deduplication_key"}, {"draft_checksum"}},
        {Ref("alert_rule_definitions", {"rule_id", "rule_version"}, "no action"),
         Ref("alert_evaluations", {"evaluation_id"}, "no action"),
         Ref("market_regime_assessments", {"assessment_id"}, "no action")},
        {"delivery_channel_supported", "draft_checksum_length", "expiry_after_creation",
         "severity_supported", "source_kind_supported"}, {})

InboxRows ==
    "alert_inbox_states" :> Table(
        {{"alert_id"}},
        {Ref("alerts", {"alert_id"}, "cascade")},
        {"acknowledged_not_snoozed", "acknowledgement_consistent", "snooze_consistent"}, {}) @@
    "alert_actions" :> Table(
        {{"action_id"}, {"action_checksum"}},
        {Ref("alerts", {"alert_id"}, "cascade")},
        {"checksum_length", "kind_supported", "payload_consistent"}, {}) @@
    "alert_publication_policies" :> Table(
        {{"policy_id", "policy_version"}, {"policy_checksum"}},
        {},
        {"checksum_length", "policy_version_positive", "quiet_hours_end_minute_range",
         "quiet_hours_start_minute_range", "quiet_hours_window_nonempty"}, {})

PublicationRows ==
    "alert_publication_decisions" :> Table(
        {{"decision_id"}, {"evaluation_id"}, {"decision_checksum"}},
        {Ref("alert_evaluations", {"evaluation_id"}, "cascade"),
         Ref("alerts", {"alert_id"}, "no action")},
        {"decision_checksum_length", "outcome_consistent", "policy_checksum_length",
         "policy_version_nonnegative", "reason_count_nonnegative"}, {}) @@
    "alert_expiry_records" :> Table(
        {{"expiry_id"}, {"alert_id"}, {"record_checksum"}},
        {Ref("alerts", {"alert_id"}, "cascade")},
        {"checksum_length", "recorded_after_expiry"}, {}) @@
    "alert_simulations" :> Table(
        {{"simulation_id"}, {"record_checksum"}},
        {Ref("alerts", {"alert_id"}, "cascade")},
        {"checksum_length", "ends_after_started", "external_order_submission_forbidden",
         "horizon_bounded", "mode_supported", "offline_only_required"}, {})

OutcomeAndPolicyRows ==
    "alert_outcomes" :> Table(
        {{"outcome_id"}, {"simulation_id"}, {"record_checksum"}},
        {Ref("alert_simulations", {"simulation_id"}, "cascade"),
         Ref("alerts", {"alert_id"}, "cascade")},
        {"checksum_length", "classification_supported", "classification_threshold_supported",
         "end_price_positive", "external_order_submission_forbidden",
         "false_positive_consistent", "high_price_positive", "high_price_valid",
         "low_price_positive", "low_price_valid", "mode_supported", "offline_only_required",
         "policy_version_supported", "recorded_after_observation", "reference_price_positive"}, {}) @@
    "decision_policy_definitions" :> Table(
        {{"policy_id", "policy_version"}, {"policy_key", "policy_version"},
         {"definition_checksum"}},
        {},
        {"allowed_mode_count_bounded", "checksum_length", "external_order_forbidden",
         "lineage_consistent", "offline_only_required", "policy_version_positive",
         "state_supported"}, {})

IntentRows ==
    "decision_evaluation_intents" :> Table(
        {{"evaluation_id"}, {"idempotency_key"}, {"intent_checksum"}},
        {Ref("decision_policy_definitions", {"policy_id", "policy_version"}, "no action"),
         Ref("dataset_snapshots", {"dataset_id"}, "no action"),
         Ref("market_regime_assessments", {"assessment_id"}, "no action")},
        {"dataset_checksum_length", "external_order_forbidden", "intent_checksum_length",
         "market_context_checksum_length", "mode_supported", "offline_only_required",
         "policy_checksum_length", "stage_supported", "strategy_checksum_length"}, {}) @@
    "decision_stage_outcomes" :> Table(
        {{"outcome_id"}, {"evaluation_id", "stage"}, {"outcome_checksum"}},
        {Ref("decision_evaluation_intents", {"evaluation_id"}, "cascade")},
        {"checksum_length", "disposition_supported", "external_order_submission_forbidden",
         "offline_only_required", "outcome_consistent", "reason_code_count_nonnegative",
         "stage_supported"}, {})

StrategyAndRankingRows ==
    "decision_strategy_evaluations" :> Table(
        {{"evaluation_id"}, {"outcome_id"}, {"record_checksum"}},
        {Ref("decision_evaluation_intents", {"evaluation_id"}, "cascade"),
         Ref("decision_stage_outcomes", {"outcome_id"}, "cascade")},
        {"disposition_supported", "external_order_forbidden", "offline_only_required",
         "policy_checksum_length", "record_checksum_length", "signal_count_nonnegative",
         "signals_consistent"}, {}) @@
    "decision_candidate_rankings" :> Table(
        {{"evaluation_id"}, {"outcome_id"}, {"record_checksum"}},
        {Ref("decision_evaluation_intents", {"evaluation_id"}, "cascade"),
         Ref("decision_stage_outcomes", {"outcome_id"}, "cascade")},
        {"candidate_count_nonnegative", "counts_consistent", "disposition_supported",
         "excluded_count_nonnegative", "external_order_forbidden", "offline_only_required",
         "policy_checksum_length", "ranking_consistent", "record_checksum_length",
         "source_count_positive"}, {})

GateRows ==
    "decision_risk_gates" :> Table(
        {{"evaluation_id"}, {"outcome_id"}, {"assessment_id"}, {"assessment_checksum"},
         {"record_checksum"}},
        {Ref("decision_evaluation_intents", {"evaluation_id"}, "cascade"),
         Ref("decision_stage_outcomes", {"outcome_id"}, "cascade")},
        {"assessment_checksum_length", "decision_supported", "disposition_supported",
         "external_order_forbidden", "offline_only_required", "policy_checksum_length",
         "ranking_checksum_length", "record_checksum_length", "risk_result_consistent"}, {}) @@
    "decision_portfolio_intelligence" :> Table(
        {{"evaluation_id"}, {"outcome_id"}, {"record_checksum"}},
        {Ref("decision_evaluation_intents", {"evaluation_id"}, "cascade"),
         Ref("decision_stage_outcomes", {"outcome_id"}, "cascade")},
        {"disposition_supported", "external_order_forbidden", "offline_only_required",
         "policy_checksum_length", "recommendation_supported", "record_checksum_length",
         "result_consistent", "risk_checksum_length"}, {})

JobRows ==
    "background_jobs" :> Table(
        {{"job_id"}, {"kind", "idempotency_key"}},
        {},
        {"attempt_range", "finish_consistent", "finished_after_started", "lease_consistent",
         "progress_range", "run_after_created", "started_after_created", "status_supported",
         "success_progress_complete", "updated_after_created"}, {}) @@
    "optimization_executions" :> Table(
        {{"execution_id"}},
        {},
        {"finished_after_started", "progress_range", "started_after_created",
         "status_supported", "total_trials_positive", "updated_after_created"}, {})

ExperimentRows ==
    "research_experiments" :> Table(
        {{"experiment_id"}},
        {},
        {}, {}) @@
    "experiment_executions" :> Table(
        {{"execution_id"}},
        {},
        {"finished_after_started", "progress_percent_range", "started_after_created",
         "status_supported", "updated_after_created"}, {})

WalkForwardRows ==
    "walk_forward_executions" :> Table(
        {{"execution_id"}},
        {},
        {"completed_folds_range", "finished_after_started", "progress_percent_range",
         "started_after_created", "status_supported", "total_folds_positive",
         "updated_after_created"}, {}) @@
    "walk_forward_runs" :> Table(
        {{"execution_id"}},
        {},
        {}, {})

PortfolioRows ==
    "simulated_portfolios" :> Table(
        {{"portfolio_id"}},
        {},
        {"cash_non_negative", "fee_rate_range", "fees_paid_non_negative", "mode_supported",
         "starting_cash_positive", "status_supported", "updated_after_created"}, {}) @@
    "simulated_positions" :> Table(
        {{"position_id"}},
        {Ref("simulated_portfolios", {"portfolio_id"}, "cascade")},
        {"closed_after_opened", "current_after_opened", "fees_non_negative", "prices_positive",
         "quantity_positive", "reserved_notional_positive", "side_supported",
         "status_exit_details_consistent", "status_supported"}, {})

TimelineAndMetricRows ==
    "portfolio_timeline_events" :> Table(
        {{"event_id"}, {"portfolio_id", "sequence_number"}},
        {Ref("simulated_portfolios", {"portfolio_id"}, "cascade")},
        {"event_type_supported", "sequence_number_positive"}, {}) @@
    "system_metric_samples" :> Table(
        {{"sample_id"}},
        {},
        {"observed_count_positive", "value_non_negative", "window_seconds_positive"}, {})

MonitoringRows ==
    "architecture_recommendations" :> Table(
        {{"recommendation_id"}},
        {},
        {"candidate_supported", "detection_time_order", "severity_supported", "status_supported"}, {}) @@
    "monitoring_runtime_state" :> Table(
        {{"state_key"}},
        {},
        {}, {})

JournalRows ==
    "candidate_journals" :> Table(
        {{"journal_id"}},
        {},
        {"attempted_count_non_negative", "exit_reason_supported", "recorded_after_evaluated",
         "schema_version_positive", "status_lineage_consistent", "status_supported"}, {"extended exit reasons"})

ProjectionRows ==
    "candidate_projections" :> Table(
        {{"candidate_id"}},
        {},
        {"action_supported", "confidence_supported", "exit_reason_supported",
         "latest_rank_positive", "latest_ranking_score_supported",
         "latest_replay_status_supported", "latest_risk_decision_supported",
         "occurrence_count_positive", "selected_boolean", "selection_lineage_consistent",
         "signal_score_supported", "status_supported"}, {"extended exit reasons", "skipped rows"})

\* DatabaseBase.metadata: every mapped table.
ModelSchema ==
    ConnectionAndWatchlistRows @@ PollingRows @@ DatasetRows @@ EventRows @@
    DecisionAndOutboxRows @@ WindowRows @@ ReplayAndWatermarkRows @@ RetentionRows @@
    ContextInputRows @@ RegimeAndRuleRows @@ AlertRows @@ InboxRows @@ PublicationRows
    @@ OutcomeAndPolicyRows @@ IntentRows @@ StrategyAndRankingRows @@ GateRows @@
    JobRows @@ ExperimentRows @@ WalkForwardRows @@ PortfolioRows @@
    TimelineAndMetricRows @@ MonitoringRows @@ JournalRows @@ ProjectionRows
================================================================================
