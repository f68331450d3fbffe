---------------------------- MODULE MCWorkerPool ----------------------------
(* Values for WorkerPool.cfg: sizes that give no chunk, one, several even  *)
(* and several uneven ones, below, at and above the threshold.             *)
EXTENDS WorkerPool

MCSizes == {-1, 0, 1, 4, 5}
MCThresholds == {0, 2, 5}
MCProcCounts == {0, 2, 3}
=============================================================================
