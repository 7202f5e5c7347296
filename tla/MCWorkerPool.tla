---------------------------- MODULE MCWorkerPool ----------------------------
(* Small instances of WorkerPool.                                          *)
EXTENDS WorkerPool

CONSTANTS j1, j2, ag, sim

\* Every agent worker carries the name each job prefers.
AllMatch  == [j \in Jobs |-> AgentWorkers]
=============================================================================
