----------------------------- MODULE MetricsSink -----------------------------
(***************************************************************************)
(* Metrics of controller.py: the in-memory counters and gauges that        *)
(* export_prometheus prints.  Timestamps are abstracted to the number of   *)
(* the reconciliation they were taken at; the text format is left out.     *)
(***************************************************************************)
EXTENDS Naturals

VARIABLES
    reconciliation_count,  \* postgres_controller_reconciliations_total
    drift_count,           \* postgres_controller_drift_total
    error_count,           \* postgres_controller_errors_total
    last_error_at,         \* last_error_timestamp, as a reconciliation number
    users_managed,         \* postgres_controller_users_managed
    roles_managed          \* postgres_controller_roles_managed

metrics == <<reconciliation_count, drift_count, error_count, last_error_at,
             users_managed, roles_managed>>

\* Metrics.__init__: every counter and gauge starts at 0.
MetricsInit ==
    /\ reconciliation_count = 0 /\ drift_count = 0 /\ error_count = 0
    /\ last_error_at = 0 /\ users_managed = 0 /\ roles_managed = 0

\* A new Metrics object, as a restarted process builds.
MetricsReset ==
    /\ reconciliation_count' = 0 /\ drift_count' = 0 /\ error_count' = 0
    /\ last_error_at' = 0 /\ users_managed' = 0 /\ roles_managed' = 0

\* record_reconciliation(stats).
RecordReconciliation(drift, errs) ==
    /\ reconciliation_count' = reconciliation_count + 1
    /\ drift_count' = drift_count + drift
    /\ error_count' = error_count + errs
    /\ last_error_at' = IF errs > 0 THEN reconciliation_count + 1
                                    ELSE last_error_at
    /\ UNCHANGED <<users_managed, roles_managed>>
=============================================================================
