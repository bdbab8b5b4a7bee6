-------------------------- MODULE MCWorkerRuntime --------------------------
(***************************************************************************)
(* Small instances of WorkerRuntime for TLC.                               *)
(***************************************************************************)
EXTENDS WorkerRuntime

CONSTANTS t1, t2, s1, s2, r1, r2

MCTwoTasks   == {t1, t2}
MCImportTask == {t2}
MCTwoSessions == {s1, s2}
MCResults    == {r1, r2}
=============================================================================
