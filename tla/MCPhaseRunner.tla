--------------------------- MODULE MCPhaseRunner ---------------------------
(***************************************************************************)
(* Shortened pipelines that keep one phase of each kind.  Long Atlas: plan,*)
(* execute, verify, review, ci; Atlas: the same without verify.  Athena:   *)
(* plan, monitor, integrate, finalize.  The long Atlas run may step back   *)
(* twice by reattempts; the other two once, and once more by the policy    *)
(* rewind, or twice when one of them is lost from the escalation log.      *)
(***************************************************************************)
EXTENDS PhaseRunner, TLC

MCReasons == {"quality_fail", "review_reject"}

MCCap(iterations, quality) ==
  [iterations |-> iterations, quality |-> quality, review |-> 2, cycle |-> 1]
    @@ ("final-review" :> 2)

MCLongAtlas ==
  [last |-> 5, plan |-> 1, attempt |-> 2, recover |-> {}, skippable |-> {5},
   unfailable |-> {}, passed |-> {2, 3, 4},
   loop |-> <<NoLoop, NoLoop, NoLoop, "review", "cycle">>,
   reopens |-> [r \in MCReasons |->
                 IF r = "quality_fail" THEN {2, 3} ELSE {3}],
   cap |-> MCCap(3, 1), rewinds |-> 0]

MCAtlas ==
  [last |-> 4, plan |-> 1, attempt |-> 2, recover |-> {}, skippable |-> {4},
   unfailable |-> {}, passed |-> {2, 3},
   loop |-> <<NoLoop, NoLoop, "review", "cycle">>,
   reopens |-> [r \in MCReasons |->
                 IF r = "quality_fail" THEN {2} ELSE {}],
   cap |-> MCCap(2, 2), rewinds |-> 1]

MCAthena ==
  [last |-> 4, plan |-> 1, attempt |-> 3, recover |-> {2, 3}, skippable |-> {},
   unfailable |-> {2}, passed |-> {},
   loop |-> <<NoLoop, "cycle", NoLoop, "final-review">>,
   reopens |-> [r \in MCReasons |->
                 IF r = "quality_fail" THEN {} ELSE {3}],
   cap |-> MCCap(2, 1), rewinds |-> 1]

MCPipelines == {MCAtlas, MCLongAtlas, MCAthena}
=============================================================================
