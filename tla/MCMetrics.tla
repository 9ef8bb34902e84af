------------------------------ MODULE MCMetrics ------------------------------
(***************************************************************************)
(* The Reconciler with its MetricsSink on the instance of MCReconciler,    *)
(* over at most MaxRecords reconciliations of one process.                 *)
(***************************************************************************)
EXTENDS MCReconciler, ReconcilerMetrics

MaxRecords == 3

\* The counters are only followed over MaxRecords reconciliations.
RecordsBound == reconciliation_count <= MaxRecords
=============================================================================
