-------------------------- MODULE MCAthenaScheduler --------------------------
(* Two independent stories, and one that needs the first and the worker of *)
(* the second.                                                             *)
EXTENDS AthenaScheduler

CONSTANTS api, ui

MCDependsOn == [s \in 1 .. 3 |-> IF s = 3 THEN {1} ELSE {}]
MCWorkerOf  == [s \in 1 .. 3 |-> IF s = 1 THEN api ELSE ui]
=============================================================================
