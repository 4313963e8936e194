--------------------------- MODULE MCWorkerMailbox ---------------------------
(* Two assignments, a steer command for the second and a shutdown; two     *)
(* publishers that want the same id, one of which may die.                 *)
EXTENDS WorkerMailbox

CONSTANTS p1, p2

MCType       == <<"assign", "assign", "steer", "shutdown">>
MCExpected   == <<1, 1, 2, 1>>
MCPublishers == {p1, p2}
MCWrites     == [p \in MCPublishers |-> IF p = p1 THEN {2, 3, 4} ELSE {2}]
MCMortal     == {p2}
=============================================================================
