----------------------------- MODULE MCPrdStore -----------------------------
(* Small instances of PrdStore for TLC.                                   *)
EXTENDS PrdStore, TLC

CONSTANTS p1, p2, p3, a, b, old, new, run

MCRequires == (a :> {}) @@ (b :> {a})

(* The plan new keeps the text of the old one.                             *)
MCTextOf == (old :> "text") @@ (new :> "text") @@ (run :> "other")

(* The files at the start, what three commands do, which of them the third *)
(* comes after, and how many deaths and faults there are.                  *)
Scene(d, x, y, z, after, deaths, faults) ==
  [kind |-> (p1 :> x[1]) @@ (p2 :> y[1]) @@ (p3 :> z[1]),
   arg  |-> (p1 :> x[2]) @@ (p2 :> y[2]) @@ (p3 :> z[2]),
   after |-> (p1 :> {}) @@ (p2 :> {}) @@ (p3 :> after),
   start |-> d, deaths |-> deaths, faults |-> faults]
Idle == <<"idle", None>>

Nothing  == [spec |-> None, prd |-> None]
Planned  == [spec |-> "text", prd |-> Prd(old)]
Assigned == [Planned EXCEPT !.prd.assigned = old]
Started  == [Assigned EXCEPT !.prd.passed = {a}]

MCScenes ==
  { Scene(Nothing, <<"trivial", run>>, <<"trivial", run>>, Idle, {}, 1, 0),
    Scene(Planned, <<"plan", run>>, <<"enrich", old>>, <<"plan", new>>, {p1, p2}, 1, 0),
    Scene(Planned, <<"plan", new>>, <<"enrich", old>>, <<"check", old>>, {p1, p2}, 0, 1),
    Scene(Started, <<"pass", b>>, <<"rollback", old>>, <<"plan", new>>, {p1}, 1, 0),
    Scene(Planned, <<"enrich", old>>, <<"enrich", old>>, <<"check", old>>, {}, 1, 0),
    Scene(Nothing, <<"trivial", run>>, <<"plan", run>>, Idle, {}, 0, 0),
    Scene(Planned, <<"enrich", old>>, <<"trivial", old>>, <<"rollback", old>>, {p1}, 0, 1),
    Scene(Started, <<"pass", b>>, <<"trivial", old>>, <<"check", old>>, {}, 0, 0) }
=============================================================================
