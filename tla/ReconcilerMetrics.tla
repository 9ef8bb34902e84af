-------------------------- MODULE ReconcilerMetrics --------------------------
(***************************************************************************)
(* The Reconciler composed with its MetricsSink: reconcile_users sets the  *)
(* two gauges at its end, the loop hands every cycle's stats to            *)
(* record_reconciliation, and a restarted process starts a new Metrics     *)
(* object.  The counters grow without bound, so this composition is       *)
(* checked for safety over a bounded number of reconciliations.            *)
(***************************************************************************)
EXTENDS Reconciler, MetricsSink

VARIABLES
    fault_base,   \* history: faults when the running process started
    io_base       \* history: io_errors when the running process started

bases == <<fault_base, io_base>>
allVars == <<vars, metrics, bases>>

InitM ==
    /\ Init
    /\ MetricsInit
    /\ fault_base = 0 /\ io_base = 0

\* The tail of reconcile_users: users_managed = len(desired_users), then
\* roles_managed = len(fetch_existing_roles()), whose failure leaves it.
FinishM ==
    /\ Finish
    /\ users_managed' = Cardinality(DOMAIN desired_users)
    /\ \/ faults' = faults /\ roles_managed' = Cardinality(ListGroups)
       \/ faults' # faults /\ UNCHANGED roles_managed
    /\ UNCHANGED <<reconciliation_count, drift_count, error_count,
                   last_error_at, bases>>

RecordM ==
    /\ Record
    /\ RecordReconciliation(drift_detected, errors)
    /\ UNCHANGED bases

RestartM ==
    /\ Restart
    /\ MetricsReset
    /\ fault_base' = faults /\ io_base' = io_errors

NextM ==
    \/ (Reconcile \/ Kill \/ EditConfig \/ Admin) /\ UNCHANGED <<metrics, bases>>
    \/ FinishM \/ RecordM \/ RestartM

SpecM == InitM /\ [][NextM]_allVars

-----------------------------------------------------------------------------
(* Properties.                                                              *)

\* spec.md 6: "the error counter ... always reflect[s] observed faults
\* regardless of category".  Between cycles, errors_total counts at least
\* every failed Kubernetes or database call since the process started,
\* whether the call failed an item, a whole cycle, or the gauge query after
\* the state was saved.
ErrorsCountFaults ==
    pc = "idle" => error_count >= faults - fault_base

\* The same for the state file: a failed save_state is counted as well.
ErrorsCountStateIOErrors ==
    pc = "idle" =>
        error_count >= (faults - fault_base) + (io_errors - io_base)
=============================================================================
