--------------------------- MODULE SupervisorProofs ---------------------------
(***************************************************************************)
(* Proofs about the supervisor of a worker: RuntimeTree, for any set of    *)
(* children and any capacity, and then SessionAdapter, for any number of   *)
(* assignments and whatever the server does.                               *)
(***************************************************************************)
EXTENDS RuntimeTree, SessionAdapter, FiniteSetTheorems, SequenceTheorems, TLAPS

(* What holds the capacity: the processes of a child that can be found     *)
(* need its slot, active slots need the parent's entry, and that entry     *)
(* names the supervisor as long as it works.                               *)
SlotsHeld ==
  /\ \A k \in Kids : LeafAlive(k) \/ named[k] => slot[k] # "none"
  /\ \A k \in Kids : slot[k] # "none" => parent # "absent"
  /\ sup = "live" /\ parent # "absent" => bound

(* An adapter belongs to a leaf that runs, only a killed leaf leaves one   *)
(* behind, and a process that a snapshot names had been started.           *)
AdapterNamed ==
  /\ \A k \in Kids : adapter[k] => leaf[k] \in {"run", "killed"}
  /\ \A k \in Kids : named[k] => adapter[k]
  /\ supNamed => supAdapter

(* The broker works only inside a live supervisor, launches only before it *)
(* is closing, and finds what the steps before have done.                  *)
BrokerAt ==
  /\ op # Idle => sup = "live"
  /\ op # Idle /\ op.at \in Launches => closer = "open"
  /\ \A k \in Kids :
       op # Idle /\ op.kid = k =>
         /\ op.at \in {"claimed", "recorded", "launched", "bound"} => slot[k] # "none"
         /\ op.at \in {"claimed", "recorded"} => leaf[k] = "none"
         /\ op.at = "recorded" => record[k] # "none"
         /\ op.at \in {"recorded", "launched", "bound"} => resolution[k] = "open"
         /\ op.at \in Waits => resolution[k] # "none"

(* Every child that was ever launched is on record, and remembered while   *)
(* the broker lives.                                                       *)
Remembered ==
  \A k \in Kids : leaf[k] # "none" =>
    /\ record[k] # "none"
    /\ sup \notin {"boot", "snapped"}
    /\ sup = "live" => resolution[k] # "none"

(* A resolved child has ended by itself, or was never launched; a close    *)
(* that did not fail has resolved every child.                             *)
Settled ==
  /\ \A k \in Kids : resolution[k] \notin {"none", "open"} => leaf[k] \in {"none", "exited"}
  /\ closer \notin {"open", "waiting"} /\ verdict = "completed" =>
       op = Idle /\ \A k \in Kids : resolution[k] # "open"
  /\ supSnap = "completed" =>
       sup = "exited" /\ \A k \in Kids : resolution[k] # "open" /\ leaf[k] \in {"none", "exited"}

RemovedIsEmpty ==
  team = "removed" =>
    /\ parent = "absent" /\ ~SupAlive /\ ~supNamed
    /\ \A k \in Kids : ~LeafAlive(k) /\ ~named[k]

IInv ==
  /\ Typed /\ SlotsHeld /\ AdapterNamed
  /\ BrokerAt /\ Remembered /\ Settled /\ RemovedIsEmpty

(* save keeps every child it remembers on record.                          *)
LEMMA SavedType ==
  ASSUME NEW res \in [Kids -> {"none", "open", "observed", "integrated", "discarded"}]
  PROVE  /\ Saved(res) \in [Kids -> {"none", "nopid", "pid"}]
         /\ \A k \in Kids : res[k] # "none" => Saved(res)[k] # "none"
  BY DEF Saved

(* A resolution keeps the type, and no child is forgotten by one.          *)
LEMMA ResolutionsType ==
  ASSUME Typed, NEW k \in Kids, resolution[k] # "none",
         NEW goal, NEW res \in Resolutions(k, goal)
  PROVE  /\ res \in [Kids -> {"none", "open", "observed", "integrated", "discarded"}]
         /\ \A j \in Kids : resolution[j] # "none" => res[j] # "none"
         /\ \A j \in Kids \ {k} : res[j] = resolution[j]
<1> DEFINE R == {"none", "open", "observed", "integrated", "discarded"}
<1>1. /\ Observed(k) \in [Kids -> R]
      /\ \A j \in Kids : resolution[j] # "none" => Observed(k)[j] # "none"
      /\ \A j \in Kids \ {k} : Observed(k)[j] = resolution[j]
  BY DEF Typed, Observed
<1>2. res \in {Observed(k), [Observed(k) EXCEPT ![k] = "discarded"],
               [Observed(k) EXCEPT ![k] = "integrated"]}
  BY DEF Resolutions
<1>3. QED
  BY <1>1, <1>2

(* A follow-up continues with a launch only while the broker is open.      *)
LEMMA ContinuationType ==
  ASSUME NEW k \in Kids, NEW res, NEW o \in Continuation(k, res)
  PROVE  \/ o = Idle
         \/ closer = "open" /\ \E n \in Kids : o = [at |-> "admit", kid |-> n]
  BY DEF Continuation

(* What is killed stays a process of the kinds there are.                  *)
LEMMA KilledType ==
  ASSUME Typed, NEW k \in Kids, Killed(k)
  PROVE  /\ leaf' \in [Kids -> {"none", "boot", "run", "settled", "exited", "killed"}]
         /\ adapter' \in [Kids -> BOOLEAN] /\ named' \in [Kids -> BOOLEAN]
<1>1. leaf' \in [Kids -> {"none", "boot", "run", "settled", "exited", "killed"}]
  BY DEF Typed, Killed
<1>2. adapter' \in [Kids -> BOOLEAN] /\ named' \in [Kids -> BOOLEAN]
  <2>1. CASE named[k]
    BY <2>1 DEF Typed, Killed, LeafAdapterGone
  <2>2. CASE ~named[k]
    BY <2>2 DEF Typed, Killed
  <2> QED
    BY <2>1, <2>2
<1> QED
  BY <1>1, <1>2

LEMMA InitInv == Init => IInv
  BY DEF Init, IInv, Typed, SlotsHeld, AdapterNamed, BrokerAt, Remembered,
         Settled, RemovedIsEmpty, Idle, Ops, Terminal, LeafAlive, SupAlive, Waits, Launches

(* One step, action by action.  What IInv speaks about is expanded from    *)
(* <1>5 on; a step that the solver cannot take whole is split into the     *)
(* conjuncts of IInv.                                                      *)
LEMMA IInvStep == IInv /\ [Next]_vars => IInv'
<1> SUFFICES ASSUME IInv, [Next]_vars PROVE IInv'
  OBVIOUS
<1> USE DEF IInv, ledgerVars, brokerVars, supVars, leafVars, orchVars
<1>1. ASSUME AdapterEnds PROVE Typed'
  BY <1>1, ZenonT(40) DEF AdapterEnds, AdapterGone, Typed
<1>2. ASSUME ShutdownAdapter PROVE Typed'
  BY <1>2 DEF ShutdownAdapter, AdapterGone, Typed
<1>3. ASSUME SelfRelease PROVE Typed'
  BY <1>3 DEF SelfRelease, Releasable, ReleaseSubtree, Active, Typed
<1>4. ASSUME MonitorReleases PROVE Typed'
  BY <1>4 DEF MonitorReleases, Releasable, ReleaseSubtree, Active, Typed
<1> USE DEF Typed, SlotsHeld, AdapterNamed, BrokerAt, Remembered, Settled,
            RemovedIsEmpty, Ops, Idle, Launches, Waits, Goals, Terminal,
            LeafAlive, SupAlive
<1>5. CASE UNCHANGED vars
  BY <1>5 DEF vars
<1>6. ASSUME NEW k \in Kids, Claim(k) PROVE IInv'
  BY <1>6 DEF Claim, At, Ready, BrokerKeeps
<1>7. ASSUME NEW k \in Kids, RecordChild(k) PROVE IInv'
  BY <1>7, SavedType DEF RecordChild, At, BrokerKeeps, FinishChild
<1>8. ASSUME NEW k \in Kids, LaunchLeaf(k) PROVE IInv'
  BY <1>8 DEF LaunchLeaf, At
<1>9. ASSUME NEW k \in Kids, BindLeaf(k) PROVE IInv'
  BY <1>9 DEF BindLeaf, At, BrokerKeeps
<1>10. ASSUME NEW k \in Kids, SaveLeaf(k) PROVE IInv'
  BY <1>10, SavedType DEF SaveLeaf, At, BrokerKeeps
<1>11. ASSUME NEW k \in Kids, Inspect(k) PROVE IInv'
  BY <1>11 DEF Inspect, Ready, BrokerKeeps
<1>12. ASSUME NEW k \in Kids, Reap(k) PROVE IInv'
  <2>1. PICK res \in Resolutions(k, op.goal) :
          /\ resolution' = res /\ record' = Saved(res)
          /\ \/ op' = Idle
             \/ closer = "open" /\ \E n \in Kids : op' = [at |-> "admit", kid |-> n]
    BY <1>12, ContinuationType DEF Reap
  <2>2. resolution[k] # "none"
    BY <1>12 DEF Reap, At
  <2>3. /\ res \in [Kids -> {"none", "open", "observed", "integrated", "discarded"}]
        /\ \A j \in Kids : resolution[j] # "none" => res[j] # "none"
        /\ \A j \in Kids \ {k} : res[j] = resolution[j]
    BY <2>2, ResolutionsType
  <2>4. /\ Saved(res) \in [Kids -> {"none", "nopid", "pid"}]
        /\ \A j \in Kids : res[j] # "none" => Saved(res)[j] # "none"
    BY <2>3, SavedType
  <2>5. Typed'
    <3>1. op' \in Ops
      BY <2>1
    <3>2. slot' \in [Kids -> {"none", "claimed", "bound"}]
      BY <1>12 DEF Reap, FinishChild
    <3> HIDE DEF SlotsHeld, AdapterNamed, BrokerAt, Remembered, Settled,
                 RemovedIsEmpty, Ops
    <3> QED
      BY <1>12, <2>1, <2>3, <2>4, <3>1, <3>2 DEF Reap, BrokerKeeps
  <2>6. SlotsHeld' /\ AdapterNamed'
    BY <1>12, <2>1, <2>2, <2>3, <2>4 DEF Reap, At, BrokerKeeps, FinishChild
  <2>7. BrokerAt'
    BY <1>12, <2>1, <2>2, <2>3, <2>4 DEF Reap, At, BrokerKeeps, FinishChild
  <2>8. Remembered' /\ Settled' /\ RemovedIsEmpty'
    BY <1>12, <2>1, <2>2, <2>3, <2>4 DEF Reap, At, BrokerKeeps, FinishChild
  <2> QED
    BY <2>5, <2>6, <2>7, <2>8
<1>13. ASSUME NEW k \in Kids, Cancel(k) PROVE IInv'
  BY <1>13 DEF Cancel, Ready, BrokerKeeps
<1>14. ASSUME NEW k \in Kids, CancelEnds(k) PROVE IInv'
  BY <1>14, SavedType DEF CancelEnds, At, FinishChild
<1>15. ASSUME NEW k \in Kids, CloseChild(k) PROVE IInv'
  BY <1>15 DEF CloseChild, BrokerKeeps
<1>16. ASSUME NEW k \in Kids, LeafBoots(k) PROVE IInv'
  BY <1>16 DEF LeafBoots, LeafKeeps
<1>17. ASSUME NEW k \in Kids, LeafStartsAdapter(k) PROVE IInv'
  BY <1>17 DEF LeafStartsAdapter, LeafKeeps
<1>18. ASSUME NEW k \in Kids, LeafSettles(k) PROVE IInv'
  BY <1>18 DEF LeafSettles, LeafAdapterGone, LeafKeeps
<1>19. ASSUME NEW k \in Kids, LeafExits(k) PROVE IInv'
  BY <1>19 DEF LeafExits, LeafKeeps
<1>20. ASSUME NEW k \in Kids, LeafDies(k) PROVE IInv'
  BY <1>20 DEF LeafDies, LeafKeeps
<1>21. ASSUME NEW k \in Kids, LeafAdapterEnds(k) PROVE IInv'
  BY <1>21 DEF LeafAdapterEnds, LeafAdapterGone, LeafKeeps
<1>22. ASSUME NEW k \in Kids, ReapRecorded(k) PROVE IInv'
  <2>1. Typed'
    <3>1. /\ leaf' \in [Kids -> {"none", "boot", "run", "settled", "exited", "killed"}]
          /\ adapter' \in [Kids -> BOOLEAN] /\ named' \in [Kids -> BOOLEAN]
      BY <1>22, KilledType DEF ReapRecorded
    <3>2. slot' \in [Kids -> {"none", "claimed", "bound"}]
      BY <1>22 DEF ReapRecorded, FinishChild
    <3> HIDE DEF SlotsHeld, AdapterNamed, BrokerAt, Remembered, Settled,
                 RemovedIsEmpty, Ops
    <3> QED
      BY <1>22, <3>1, <3>2 DEF ReapRecorded
  <2>2. SlotsHeld'
    BY <1>22 DEF ReapRecorded, Killed, LeafAdapterGone, Stopping, Gone, FinishChild
  <2>3. AdapterNamed'
    BY <1>22 DEF ReapRecorded, Killed, LeafAdapterGone, Stopping, Gone, FinishChild
  <2>4. BrokerAt'
    BY <1>22 DEF ReapRecorded, Killed, LeafAdapterGone, Stopping, Gone, FinishChild
  <2>5. Remembered'
    BY <1>22 DEF ReapRecorded, Killed, LeafAdapterGone, Stopping, Gone, FinishChild
  <2>6. Settled'
    BY <1>22 DEF ReapRecorded, Killed, LeafAdapterGone, Stopping, Gone, FinishChild
  <2>7. RemovedIsEmpty'
    BY <1>22 DEF ReapRecorded, Killed, LeafAdapterGone, Stopping, Gone, FinishChild
  <2> QED
    BY <2>1, <2>2, <2>3, <2>4, <2>5, <2>6, <2>7
<1>23. CASE FirstSnapshot
  BY <1>23 DEF FirstSnapshot
<1>24. CASE BindParent
  BY <1>24 DEF BindParent
<1>25. CASE StartFails
  <2>1. Typed'
    BY <1>25, ZenonT(40) DEF StartFails, Releasable, ReleaseSubtree, Active
  <2>2. SlotsHeld'
    BY <1>25 DEF StartFails, Releasable, ReleaseSubtree, Active
  <2>3. AdapterNamed'
    BY <1>25 DEF StartFails, Releasable, ReleaseSubtree, Active
  <2>4. BrokerAt'
    BY <1>25 DEF StartFails, Releasable, ReleaseSubtree, Active
  <2>5. Remembered'
    BY <1>25 DEF StartFails, Releasable, ReleaseSubtree, Active
  <2>6. Settled'
    BY <1>25 DEF StartFails, Releasable, ReleaseSubtree, Active
  <2>7. RemovedIsEmpty'
    BY <1>25 DEF StartFails, Releasable, ReleaseSubtree, Active
  <2> QED
    BY <2>1, <2>2, <2>3, <2>4, <2>5, <2>6, <2>7
<1>26. CASE StartAdapter
  BY <1>26 DEF StartAdapter
<1>27. CASE AdapterEnds
  <2>1. Typed'
    BY <1>27, <1>1
  <2>2. SlotsHeld'
    BY <1>27 DEF AdapterEnds, AdapterGone
  <2>3. AdapterNamed'
    BY <1>27 DEF AdapterEnds, AdapterGone
  <2>4. BrokerAt'
    BY <1>27 DEF AdapterEnds, AdapterGone
  <2>5. Remembered'
    BY <1>27 DEF AdapterEnds, AdapterGone
  <2>6. Settled'
    BY <1>27 DEF AdapterEnds, AdapterGone
  <2>7. RemovedIsEmpty'
    BY <1>27 DEF AdapterEnds, AdapterGone
  <2> QED
    BY <2>1, <2>2, <2>3, <2>4, <2>5, <2>6, <2>7
<1>28. CASE BeginSettle
  BY <1>28, SavedType DEF BeginSettle, Fenced
<1>29. CASE CloseDone
  BY <1>29 DEF CloseDone
<1>30. CASE ShutdownAdapter
  <2>1. Typed'
    BY <1>30, <1>2
  <2>2. SlotsHeld'
    BY <1>30 DEF ShutdownAdapter, AdapterGone
  <2>3. AdapterNamed'
    BY <1>30 DEF ShutdownAdapter, AdapterGone
  <2>4. BrokerAt'
    BY <1>30 DEF ShutdownAdapter, AdapterGone
  <2>5. Remembered'
    BY <1>30 DEF ShutdownAdapter, AdapterGone
  <2>6. Settled'
    BY <1>30 DEF ShutdownAdapter, AdapterGone
  <2>7. RemovedIsEmpty'
    BY <1>30 DEF ShutdownAdapter, AdapterGone
  <2> QED
    BY <2>1, <2>2, <2>3, <2>4, <2>5, <2>6, <2>7
<1>31. CASE SelfRelease
  <2>1. Typed'
    BY <1>31, <1>3
  <2>2. SlotsHeld'
    BY <1>31 DEF SelfRelease, Releasable, ReleaseSubtree, Active
  <2>3. AdapterNamed'
    BY <1>31 DEF SelfRelease, Releasable, ReleaseSubtree, Active
  <2>4. BrokerAt'
    BY <1>31 DEF SelfRelease, Releasable, ReleaseSubtree, Active
  <2>5. Remembered'
    BY <1>31 DEF SelfRelease, Releasable, ReleaseSubtree, Active
  <2>6. Settled'
    BY <1>31 DEF SelfRelease, Releasable, ReleaseSubtree, Active
  <2>7. RemovedIsEmpty'
    BY <1>31 DEF SelfRelease, Releasable, ReleaseSubtree, Active
  <2> QED
    BY <2>1, <2>2, <2>3, <2>4, <2>5, <2>6, <2>7
<1>32. CASE FinalSnapshot
  BY <1>32 DEF FinalSnapshot
<1>33. CASE SupervisorDies
  BY <1>33 DEF SupervisorDies, LoseSupervisor
<1>34. CASE KillParent
  BY <1>34 DEF KillParent, LoseSupervisor, Stopping
<1>35. CASE RequestStop
  BY <1>35 DEF RequestStop
<1>36. CASE ReapAdapter
  <2>1. Typed'
    BY <1>36 DEF ReapAdapter, AdapterGone, Stopping, ChildrenReaped, Recorded, Gone
  <2>2. SlotsHeld'
    BY <1>36 DEF ReapAdapter, AdapterGone, Stopping, ChildrenReaped, Recorded, Gone
  <2>3. AdapterNamed'
    BY <1>36 DEF ReapAdapter, AdapterGone, Stopping, ChildrenReaped, Recorded, Gone
  <2>4. BrokerAt'
    BY <1>36 DEF ReapAdapter, AdapterGone, Stopping, ChildrenReaped, Recorded, Gone
  <2>5. Remembered'
    BY <1>36 DEF ReapAdapter, AdapterGone, Stopping, ChildrenReaped, Recorded, Gone
  <2>6. Settled'
    BY <1>36 DEF ReapAdapter, AdapterGone, Stopping, ChildrenReaped, Recorded, Gone
  <2>7. RemovedIsEmpty'
    BY <1>36 DEF ReapAdapter, AdapterGone, Stopping, ChildrenReaped, Recorded, Gone
  <2> QED
    BY <2>1, <2>2, <2>3, <2>4, <2>5, <2>6, <2>7
<1>37. CASE ReleaseStopped
  <2>1. Typed'
    BY <1>37 DEF ReleaseStopped, Stopping, ChildrenReaped, Releasable,
       ReleaseSubtree, Active
  <2>2. SlotsHeld'
    BY <1>37 DEF ReleaseStopped, Stopping, ChildrenReaped, Releasable,
       ReleaseSubtree, Active
  <2>3. AdapterNamed'
    BY <1>37 DEF ReleaseStopped, Stopping, ChildrenReaped, Releasable,
       ReleaseSubtree, Active
  <2>4. BrokerAt'
    BY <1>37 DEF ReleaseStopped, Stopping, ChildrenReaped, Releasable,
       ReleaseSubtree, Active
  <2>5. Remembered'
    BY <1>37 DEF ReleaseStopped, Stopping, ChildrenReaped, Releasable,
       ReleaseSubtree, Active
  <2>6. Settled'
    BY <1>37 DEF ReleaseStopped, Stopping, ChildrenReaped, Releasable,
       ReleaseSubtree, Active
  <2>7. RemovedIsEmpty'
    BY <1>37 DEF ReleaseStopped, Stopping, ChildrenReaped, Releasable,
       ReleaseSubtree, Active
  <2> QED
    BY <2>1, <2>2, <2>3, <2>4, <2>5, <2>6, <2>7
<1>38. CASE RemoveTeam
  BY <1>38 DEF RemoveTeam, Stopping, ChildrenReaped, Recorded, Gone,
     Ambiguous
<1>39. CASE MonitorReleases
  <2>1. Typed'
    BY <1>39, <1>4
  <2>2. SlotsHeld'
    BY <1>39 DEF MonitorReleases, Releasable, ReleaseSubtree, Active
  <2>3. AdapterNamed'
    BY <1>39 DEF MonitorReleases, Releasable, ReleaseSubtree, Active
  <2>4. BrokerAt'
    BY <1>39 DEF MonitorReleases, Releasable, ReleaseSubtree, Active
  <2>5. Remembered'
    BY <1>39 DEF MonitorReleases, Releasable, ReleaseSubtree, Active
  <2>6. Settled'
    BY <1>39 DEF MonitorReleases, Releasable, ReleaseSubtree, Active
  <2>7. RemovedIsEmpty'
    BY <1>39 DEF MonitorReleases, Releasable, ReleaseSubtree, Active
  <2> QED
    BY <2>1, <2>2, <2>3, <2>4, <2>5, <2>6, <2>7
<1>40. CASE Reconcile
  <2>1. Typed'
    BY <1>40 DEF Reconcile
  <2>2. SlotsHeld'
    BY <1>40 DEF Reconcile
  <2>3. AdapterNamed'
    BY <1>40 DEF Reconcile
  <2>4. BrokerAt'
    BY <1>40 DEF Reconcile
  <2>5. Remembered'
    BY <1>40 DEF Reconcile
  <2>6. Settled'
    BY <1>40 DEF Reconcile
  <2>7. RemovedIsEmpty'
    BY <1>40 DEF Reconcile
  <2> QED
    BY <2>1, <2>2, <2>3, <2>4, <2>5, <2>6, <2>7
<1>41. CASE NameAdapter
  BY <1>41 DEF NameAdapter
<1>42. ASSUME NEW k \in Kids, LeafNamesAdapter(k) PROVE IInv'
  BY <1>42 DEF LeafNamesAdapter, LeafKeeps
<1> QED
  BY <1>5, <1>6, <1>7, <1>8, <1>9, <1>10, <1>11, <1>12, <1>13, <1>14, <1>15,
     <1>16, <1>17, <1>18, <1>19, <1>20, <1>21, <1>22, <1>23, <1>24, <1>25,
     <1>26, <1>27, <1>28, <1>29, <1>30, <1>31, <1>32, <1>33, <1>34, <1>35,
     <1>36, <1>37, <1>38, <1>39, <1>40, <1>41, <1>42 DEF Next, Broker, Supervisor, Leaf,
     Shutdown

(* Slots are only ever added by Claim, one at a time and below capacity.   *)
LEMMA CapacityStep == IInv /\ WithinCapacity /\ [Next]_vars => WithinCapacity'
<1> SUFFICES ASSUME IInv, WithinCapacity, [Next]_vars PROVE WithinCapacity'
  OBVIOUS
<1>1. IsFiniteSet(Active) /\ Cardinality(Active) \in Nat
  BY KidsAssumption, FS_Subset, FS_CardinalityType DEF Active
<1>2. ASSUME Active' \subseteq Active PROVE WithinCapacity'
  BY <1>1, <1>2, FS_Subset, FS_CardinalityType, CapacityAssumption DEF WithinCapacity
<1>3. ASSUME UNCHANGED slot PROVE WithinCapacity'
  BY <1>2, <1>3 DEF Active
<1>4. ASSUME NEW k \in Kids, FinishChild(k) PROVE WithinCapacity'
  BY <1>2, <1>4 DEF FinishChild, Active, IInv, Typed
<1>5. ASSUME NEW k \in Kids, Claim(k) PROVE WithinCapacity'
  <2>1. CASE slot' = [slot EXCEPT ![k] = "claimed"] /\ slot[k] # "none"
    BY <1>2, <2>1 DEF Active, IInv, Typed
  <2>2. CASE slot' = [slot EXCEPT ![k] = "claimed"] /\ Cardinality(Active) < Capacity
    <3>1. Active' = Active \cup {k}
      BY <2>2 DEF Active, IInv, Typed
    <3> DEFINE A == Active
    <3>2. Cardinality(A \cup {k}) = IF k \in A THEN Cardinality(A) ELSE Cardinality(A) + 1
      <4> HIDE DEF A
      <4> QED
        BY <1>1, FS_AddElement, Zenon DEF A
    <3>3. Cardinality(Active \cup {k}) <= Cardinality(Active) + 1
      BY <1>1, <3>2
    <3>4. Cardinality(Active \cup {k}) \in Nat
      BY <1>1, <3>2
    <3>5. Cardinality(Active \cup {k}) <= Capacity
      BY <1>1, <2>2, <3>3, <3>4, CapacityAssumption
    <3> QED
      BY <3>1, <3>5 DEF WithinCapacity
  <2> QED
    BY <1>3, <1>5, <2>1, <2>2 DEF Claim
<1>6. ASSUME NEW k \in Kids, BindLeaf(k) PROVE WithinCapacity'
  <2>1. slot[k] # "none"
    BY <1>6 DEF BindLeaf, At, IInv, BrokerAt, Idle
  <2> QED
    BY <1>2, <1>3, <1>6, <2>1 DEF BindLeaf, Active, IInv, Typed
<1>7. CASE Reconcile
  BY <1>2, <1>7 DEF Reconcile, Active
<1>8. ASSUME NEW k \in Kids, RecordChild(k) \/ Reap(k) \/ CancelEnds(k) \/ ReapRecorded(k)
      PROVE  WithinCapacity'
  BY <1>3, <1>4, <1>8 DEF RecordChild, Reap, CancelEnds, ReapRecorded
<1> QED
  BY <1>3, <1>5, <1>6, <1>7, <1>8
     DEF Next, Broker, Supervisor, Leaf, Shutdown, vars, ledgerVars, LaunchLeaf,
         SaveLeaf, Inspect, Cancel, BrokerKeeps, LeafKeeps, FirstSnapshot, BindParent,
         StartFails, StartAdapter, NameAdapter, AdapterEnds, BeginSettle, CloseChild,
         CloseDone, ShutdownAdapter, SelfRelease, ReleaseSubtree, FinalSnapshot, SupervisorDies,
         LeafBoots, LeafStartsAdapter, LeafNamesAdapter, LeafSettles, LeafExits,
         LeafDies, LeafAdapterEnds, RequestStop, KillParent, ReapAdapter, ReleaseStopped,
         RemoveTeam, MonitorReleases

LEMMA RuntimeInvariant == Spec => [](IInv /\ WithinCapacity)
<1>1. Init => WithinCapacity
  <2>1. Init => Active = {}
    BY DEF Init, Active
  <2> QED
    BY <2>1, FS_EmptySet, CapacityAssumption DEF WithinCapacity
<1> QED
  BY <1>1, InitInv, IInvStep, CapacityStep, PTL DEF Spec

(* Type correctness, and no more active children than were reserved.       *)
THEOREM RuntimeTypeCorrect == Spec => []TypeOK
<1>1. IInv /\ WithinCapacity => TypeOK
  BY DEF TypeOK, IInv
<1> QED
  BY <1>1, RuntimeInvariant, PTL

(* A child that runs and can be found holds its slot under its parent's    *)
(* entry.                                                                  *)
THEOREM RuntimeChargesChildren == Spec => []ChildWorkCharged
<1>1. IInv => ChildWorkCharged
  BY DEF IInv, SlotsHeld, ChildWorkCharged, NobodysChild
<1> QED
  BY <1>1, RuntimeInvariant, PTL

(* No child runs that children.json does not name.                         *)
THEOREM RuntimeRecordsChildren == Spec => []ChildOnRecord
<1>1. IInv => ChildOnRecord
  BY DEF IInv, Remembered, ChildOnRecord, LeafAlive
<1> QED
  BY <1>1, RuntimeInvariant, PTL

(* A parent that reports completion leaves nothing unresolved.             *)
THEOREM RuntimeCompletionClean == Spec => []CompletionIsClean
<1>1. IInv => CompletionIsClean
  BY DEF IInv, Settled, AdapterNamed, CompletionIsClean, LeafAlive
<1> QED
  BY <1>1, RuntimeInvariant, PTL

(* When the team file is gone, no slot is left and no process, but for an  *)
(* adapter that no snapshot names.                                         *)
THEOREM RuntimeLeavesNothing == Spec => []NothingLeftBehind
<1>1. IInv => NothingLeftBehind
  BY DEF IInv, SlotsHeld, RemovedIsEmpty, NothingLeftBehind, NobodysChild,
     NobodysAdapter, Active
<1> QED
  BY <1>1, RuntimeInvariant, PTL

(* A launch needs an operation that only an open broker has in progress.   *)
THEOREM RuntimeFencesLaunches == Spec => NothingLaunchedWhileClosing
<1>1. IInv /\ [Next]_vars =>
        [closer # "open" => \A k \in Kids : leaf[k] = "none" => leaf'[k] = "none"]_vars
  <2> SUFFICES ASSUME IInv, Next, closer # "open", NEW k \in Kids, leaf[k] = "none"
               PROVE  leaf'[k] = "none"
    OBVIOUS
  <2>1. ~\E j \in Kids : LaunchLeaf(j)
    BY DEF LaunchLeaf, At, IInv, BrokerAt, Idle, Launches
  <2>2. ASSUME UNCHANGED leaf PROVE leaf'[k] = "none"
    BY <2>2
  <2>3. ASSUME NEW j \in Kids, NEW s, leaf[j] # "none", leaf' = [leaf EXCEPT ![j] = s]
        PROVE  leaf'[k] = "none"
    BY <2>3 DEF IInv, Typed
  <2>4. ASSUME NEW j \in Kids, ReapRecorded(j) PROVE leaf'[k] = "none"
    BY <2>4 DEF ReapRecorded, Killed, LeafAlive, IInv, Typed
  <2>5. ASSUME NEW j \in Kids, Leaf(j) PROVE leaf'[k] = "none"
    BY <2>2, <2>3, <2>5
       DEF Leaf, LeafBoots, LeafStartsAdapter, LeafNamesAdapter, LeafSettles,
           LeafExits, LeafDies, LeafAdapterEnds, LeafAlive
  <2> QED
    BY <2>1, <2>2, <2>4, <2>5
       DEF Next, Broker, Supervisor, Shutdown, leafVars, BrokerKeeps, Claim,
           RecordChild, BindLeaf, SaveLeaf, Inspect, Reap, Cancel, CancelEnds,
           FirstSnapshot, BindParent, StartFails, StartAdapter, NameAdapter,
           AdapterEnds, BeginSettle, CloseChild, CloseDone, ShutdownAdapter, SelfRelease,
           FinalSnapshot, SupervisorDies, RequestStop, KillParent, ReapAdapter,
           ReleaseStopped, RemoveTeam, MonitorReleases, Reconcile
<1> QED
  BY <1>1, RuntimeInvariant, PTL DEF Spec, NothingLaunchedWhileClosing

-----------------------------------------------------------------------------
(* SessionAdapter: one server, many turns.                                 *)

(* What is kept and what is sent.                                          *)
Hows     == {"none", "completed", "failed", "interrupted"}
Replies  == {NoReply, Refusal, Accept}
              \cup [ok : BOOLEAN, final : {TRUE}, how : Hows]
Ids      == {"init", "session", "mode", "turn", "call"} \X Nat
Requests == [what : {"init", "session", "mode", "turn"}, n : Nat]
              \cup [what : {"steer", "interrupt"}, n : Nat, id : {"call"} \X Nat]
Messages == [m : {"reply"}, id : Ids, reply : Replies \ {NoReply}]
              \cup [m : {"opened", "started", "text", "ended"}, n : Nat, how : Hows]
Entries  == [n : Turns, acked : BOOLEAN]
Statuses == {"starting", "ready", "running", "completed", "failed"}
Handles  == [status : Statuses, session : BOOLEAN, turn : Nat,
             text : SUBSET Nat, exit : {"no", "code", "signal"}]
Outputs  == [status : Statuses \cup {"none"}, text : SUBSET Nat]

SessionTypeOK ==
  /\ plan \in Plans
  /\ server \in [at : {"none", "up", "code", "signal", "hung"},
                 queue : Seq(Entries), told : BOOLEAN]
  /\ stdin \in Seq(Requests) /\ stdout \in Seq(Messages) /\ chunk \in Nat
  /\ handle \in Handles
  /\ pending \subseteq Ids
  /\ task \in [at : {"idle", "init", "session", "mode", "turn", "collect"},
               n : 0 .. MaxTurns, got : Replies]
  /\ call \in [at : {"idle", "wait"}, n : Nat, got : Replies]
  /\ result \in [Turns -> Outputs]
  /\ mishaps \in [calls : Nat, late : Nat, losses : Nat]

(* Turn k is asked for, is with the server, is spoken of in the pipe.      *)
IsTurn(r, k)   == r.what = "turn" /\ r.n = k
IsNote(m)      == m.m \in {"started", "text", "ended"}
Answers(m, k)  == m.m = "reply" /\ m.id = <<"turn", k>>
Closes(m, k)   == Answers(m, k) /\ m.reply.final
Announces(m, k) == m.m = "ended" /\ m.n = k
About(m, k)    == (IsNote(m) /\ m.n = k) \/ Answers(m, k)

Requested(k) == \E i \in DOMAIN stdin : IsTurn(stdin[i], k)
Queued(k)    == \E i \in DOMAIN server.queue : server.queue[i].n = k
Told(k)      == \E i \in DOMAIN stdout : About(stdout[i], k)
Left(k)      == Requested(k) \/ Queued(k) \/ Told(k)
Idling       == server.queue = <<>> /\ \A i \in DOMAIN stdin : stdin[i].what # "turn"

Dead   == handle.exit # "no"
InTurn == task.at \in {"turn", "collect"}
Foul   == \E k \in overdue : k < task.n

(* Nothing runs ahead of the assignments, and what is said is true.        *)
InOrder ==
  /\ \A k \in Nat : Left(k) => k \in 1 .. task.n
  /\ ended \subseteq 1 .. task.n /\ overdue \subseteq 1 .. task.n
  /\ seen \subseteq ended
  /\ \A i \in DOMAIN stdout :
       /\ stdout[i].m = "ended" => stdout[i].n \in ended
       /\ \A k \in Turns : Closes(stdout[i], k) /\ stdout[i].reply.ok => k \in ended
  /\ task.at \in {"init", "session", "mode"} =>
       task.n \notin ended \cup overdue /\ ~Left(task.n)
  /\ task.at # "idle" => task.n > 0
  /\ task.at \in {"idle", "collect"} => task.got = NoReply

(* A turn that is left behind was given up, or its server is gone.         *)
NothingStale ==
  ~Dead /\ ~Foul => \A k \in Nat : Left(k) => k \in overdue \/ (k = task.n /\ InTurn)

(* After the exit of its server no assignment is answered; one that gave   *)
(* up its turn is told so.                                                 *)
GoneIsGone ==
  /\ Dead => /\ server.at \in {"code", "signal"} /\ task.at # "collect"
             /\ task.at = "turn" => ~task.got.ok /\ (task.got = NoReply => ~Told(task.n))
  /\ InTurn /\ task.n \in overdue => task.at = "turn" /\ task.got = Refusal
  /\ task.at = "collect" => handle.status = "running"

(* A prompt awaits its reply, and no other one does.                       *)
Await == task.at = "turn" /\ task.got = NoReply
PromptAwaited ==
  \A k \in Nat : <<"turn", k>> \in pending => Await /\ k = task.n

(* The course of the turn that is awaited: it is asked for once and last,  *)
(* then with the server, then over.                                        *)
Asked(n) ==
  /\ Await => <<"turn", n>> \in pending
  /\ \A i, j \in DOMAIN stdin :
       IsTurn(stdin[i], n) /\ stdin[j].what = "turn" => j <= i
  /\ Requested(n) => Await /\ n \notin ended /\ ~Queued(n) /\ ~Told(n)

Served(n) ==
  \A i \in DOMAIN server.queue : server.queue[i].n = n =>
    /\ i = Len(server.queue) /\ (\A j \in DOMAIN stdin : stdin[j].what # "turn")
    /\ n \notin ended /\ ~task.got.final
    /\ Acp => ~server.queue[i].acked
    /\ ~server.queue[i].acked =>
         Await /\ (\A j \in DOMAIN stdout : ~Answers(stdout[j], n)) /\ ~Codex
    /\ \A j \in DOMAIN stdout : ~Closes(stdout[j], n)
    /\ Codex /\ Await => \E j \in DOMAIN stdout : Answers(stdout[j], n)

(* Message y may come behind x.                                            *)
Follows(x, y, n) ==
  About(x, n) =>
    /\ About(y, n) => ~Closes(x, n)
    /\ Answers(y, n) => ~Answers(x, n) /\ ~Codex
    /\ Announces(x, n) => ~IsNote(y)
    /\ Announces(x, n) /\ Answers(y, n) => Closes(y, n)

Heard(n) ==
  /\ \A i, j \in DOMAIN stdout : i < j => Follows(stdout[i], stdout[j], n)
  /\ \A i \in DOMAIN stdout : Closes(stdout[i], n) => ~Queued(n)
  /\ ~Await => \A i \in DOMAIN stdout : ~Answers(stdout[i], n)
  /\ Codex /\ Await => \A i \in DOMAIN stdout : About(stdout[i], n) =>
       \E j \in DOMAIN stdout : j <= i /\ Answers(stdout[j], n)

Over(n) ==
  /\ n \in ended => Idling
  /\ task.got.final => ~Left(n)
  /\ task.got.ok /\ task.got.final => n \in ended
  /\ n \in seen => /\ \A i \in DOMAIN stdout : ~IsNote(stdout[i])
                   /\ Codex => n \in joined

Course(n) == Asked(n) /\ Served(n) /\ Heard(n) /\ Over(n)
CourseHolds == InTurn /\ task.n \notin overdue /\ ~Dead => Course(task.n)

(* What the handle knows of it, unless it is the protocol of codex.        *)
HandleKnows ==
  ~Dead /\ task.n \notin overdue =>
    /\ ~Codex /\ task.at = "turn" =>
         /\ handle.status \in {"running", "completed", "failed"}
         /\ task.n \in seen => handle.status # "running"
         /\ ~Foul /\ handle.status # "running" => task.n \in seen
    /\ ~Codex /\ task.at = "collect" => task.n \notin seen
    /\ ~Foul /\ (task.at = "collect" \/ (~Codex /\ task.at = "turn")) =>
         handle.text \subseteq {task.n}

ResultsHold ==
  /\ \A k \in Turns : result[k].status # "none" =>
       k < task.n \/ (k = task.n /\ task.at = "idle")
  /\ OwnAnswer
NoWaitIsVain == task.at = "collect" => task.n \notin seen \ joined

SessionInv ==
  /\ SessionTypeOK /\ InOrder /\ NothingStale /\ GoneIsGone
  /\ PromptAwaited /\ CourseHolds /\ HandleKnows /\ ResultsHold /\ NoWaitIsVain

-----------------------------------------------------------------------------
(* Sequences.                                                              *)

LEMMA TailFacts ==
  ASSUME NEW S, NEW s \in Seq(S), s # <<>>
  PROVE  /\ Tail(s) \in Seq(S) /\ Len(Tail(s)) = Len(s) - 1
         /\ Head(s) = s[1] /\ Head(s) \in S /\ 1 \in DOMAIN s
         /\ DOMAIN Tail(s) = 1 .. Len(s) - 1
         /\ \A i \in DOMAIN Tail(s) : i + 1 \in DOMAIN s /\ Tail(s)[i] = s[i + 1]
  OBVIOUS

LEMMA AppendFacts ==
  ASSUME NEW S, NEW s \in Seq(S), NEW x \in S
  PROVE  /\ Append(s, x) \in Seq(S) /\ Len(Append(s, x)) = Len(s) + 1
         /\ DOMAIN Append(s, x) = 1 .. Len(s) + 1
         /\ \A i \in DOMAIN s : Append(s, x)[i] = s[i]
         /\ Append(s, x)[Len(s) + 1] = x
  OBVIOUS

LEMMA CatFacts ==
  ASSUME NEW S, NEW s \in Seq(S), NEW t \in Seq(S)
  PROVE  /\ s \o t \in Seq(S) /\ Len(s \o t) = Len(s) + Len(t)
         /\ DOMAIN (s \o t) = 1 .. Len(s) + Len(t)
         /\ \A i \in DOMAIN s : (s \o t)[i] = s[i]
         /\ \A i \in DOMAIN t : (s \o t)[Len(s) + i] = t[i]
         /\ \A i \in DOMAIN (s \o t) :
              i \in DOMAIN s \/ (i > Len(s) /\ i - Len(s) \in DOMAIN t
                                  /\ (s \o t)[i] = t[i - Len(s)])
  OBVIOUS

LEMMA SingleFacts ==
  ASSUME NEW x
  PROVE  (\A j \in DOMAIN <<x>> : <<x>>[j] = x) /\ <<>> \o <<x>> = <<x>>
<1>1. \A j \in DOMAIN <<x>> : <<x>>[j] = x
  OBVIOUS
<1>2. <<>> \o <<x>> = <<x>>
  OBVIOUS
<1> QED
  BY <1>1, <1>2

LEMMA SessionStarts == SessionInit => SessionInv
<1> SUFFICES ASSUME SessionInit PROVE SessionInv
  OBVIOUS
<1>1. SessionTypeOK
  BY PlansAssumption DEF SessionInit, SessionTypeOK, NoServer, NewHandle, Handles,
     Statuses, Outputs, Replies, NoReply, Turns
<1>2. \A k \in Nat : ~Left(k)
  BY DEF SessionInit, Left, Requested, Queued, Told, NoServer
<1> QED
  BY <1>1, <1>2 DEF SessionInit, SessionInv, InOrder, NothingStale, GoneIsGone,
     PromptAwaited, CourseHolds, HandleKnows, ResultsHold, NoWaitIsVain, OwnAnswer,
     Dead, InTurn, NewHandle

-----------------------------------------------------------------------------
(* What follows the end of an assignment.                                  *)

LEMMA IdleStep ==
  ASSUME SessionInv, SessionTypeOK',
         task'.at = "idle", task'.got = NoReply, task'.n = task.n,
         \A k \in Nat : Left(k)' => Left(k),
         \A i \in DOMAIN stdout' : \E j \in DOMAIN stdout : stdout'[i] = stdout[j],
         ended' = ended, overdue' \subseteq 1 .. task.n, seen' \subseteq ended,
         Dead' => server'.at \in {"code", "signal"},
         NothingStale', PromptAwaited', ResultsHold'
  PROVE  SessionInv'
<1>1. InOrder'
  BY DEF SessionInv, InOrder, Closes, Answers
<1> QED
  BY <1>1 DEF SessionInv, GoneIsGone, CourseHolds, HandleKnows, NoWaitIsVain, InTurn

(* The host finishes one, the pipes are as they were.                      *)
LEMMA FinishKeeps ==
  ASSUME SessionInv, task.at # "idle", NEW h \in Handles, NEW status \in Statuses,
         Finish(h, status), h.exit = handle.exit,
         UNCHANGED <<plan, server, stdin, stdout, chunk, call, ended, seen>>,
         UNCHANGED mishaps \/ mishaps' \in [calls : Nat, late : Nat, losses : Nat],
         pending' = pending, ~Await, overdue' \in {overdue, overdue \cup {task.n}},
         status = "completed" /\ ~Foul => task.n \in ended /\ h.text \subseteq {task.n},
         ~Dead /\ ~Foul /\ task.n \notin overdue' => ~Left(task.n)
  PROVE  SessionInv'
<1> DEFINE n == task.n
           o == [status |-> status, text |-> IF status = "failed" THEN {} ELSE h.text]
<1>1. n \in Turns /\ n \in Nat /\ o \in Outputs
  BY DEF SessionInv, InOrder, SessionTypeOK, Turns, Outputs, Handles
<1>2. /\ handle' = h /\ result' = [result EXCEPT ![n] = o]
      /\ task' = [task EXCEPT !.at = "idle", !.got = NoReply]
  BY DEF Finish
<1>3. task'.at = "idle" /\ task'.n = n /\ task'.got = NoReply
  BY <1>2 DEF SessionInv, SessionTypeOK
<1>4. SessionTypeOK'
  BY <1>1, <1>2 DEF SessionInv, SessionTypeOK, Replies
<1>5. \A k \in Nat : Left(k)' <=> Left(k)
  BY DEF Left, Requested, Queued, Told
<1>6. /\ \A k \in Turns \ {n} : result'[k] = result[k]
      /\ result'[n] = o
  BY <1>1, <1>2 DEF SessionInv, SessionTypeOK
<1>7. overdue \subseteq overdue' /\ overdue' \subseteq 1 .. n
  BY <1>1 DEF SessionInv, InOrder, Turns
<1>8. ResultsHold'
  <2> SUFFICES ASSUME NEW k \in Turns
               PROVE  /\ result'[k].status # "none" => k <= n
                      /\ result'[k].status = "completed" /\ ~(\E x \in overdue' : x < k)
                           => k \in ended /\ result'[k].text \subseteq {k}
    BY <1>1, <1>3 DEF ResultsHold, OwnAnswer, Turns
  <2>1. CASE k = n
    BY <1>1, <1>6, <1>7, <2>1 DEF Foul
  <2>2. CASE k # n
    BY <1>1, <1>6, <1>7, <2>2 DEF SessionInv, ResultsHold, OwnAnswer, Turns
  <2> QED
    BY <2>1, <2>2
<1>9. NothingStale'
  <2> SUFFICES ASSUME ~Dead, ~Foul', NEW k \in Nat, Left(k)
               PROVE  k \in overdue'
    BY <1>2, <1>5 DEF NothingStale, Dead
  <2>1. ~Foul
    BY <1>3, <1>7 DEF Foul
  <2> QED
    BY <2>1, <1>7 DEF SessionInv, NothingStale
<1>10. Dead' => server'.at \in {"code", "signal"}
  BY <1>2 DEF SessionInv, GoneIsGone, Dead
<1>11. PromptAwaited'
  BY DEF SessionInv, PromptAwaited
<1> QED
  BY <1>3, <1>4, <1>5, <1>7, <1>8, <1>9, <1>10, <1>11, IdleStep DEF SessionInv, InOrder

LEMMA FailsKeeps ==
  ASSUME SessionInv, Fails \/ ModeRefused
  PROVE  SessionInv'
<1>1. /\ task.at \in {"init", "session", "mode"} /\ Finish(handle, "failed")
      /\ UNCHANGED <<stdin, pending>> /\ Unmoved
  BY DEF Fails, ModeRefused, Resumes
<1>2. task.at # "idle" /\ handle \in Handles /\ "failed" \in Statuses /\ ~Await
  BY <1>1 DEF SessionInv, SessionTypeOK, Statuses, Await
<1>3. ~Left(task.n)
  BY <1>1 DEF SessionInv, InOrder
<1> QED
  BY <1>1, <1>2, <1>3, FinishKeeps DEF Unmoved, history

(* Whoever is refused or has its answer leaves nothing behind.             *)
LEMMA AnswerIsLast ==
  ASSUME SessionInv, task.at = "turn", Answered(task), ~Dead, task.n \notin overdue
  PROVE  /\ ~task.got.ok \/ task.got.final => ~Left(task.n)
         /\ task.n \in seen => ~Left(task.n)
         /\ task.got.ok /\ task.got.final => task.n \in ended
         /\ Course(task.n) /\ ~Await
<1>1. Course(task.n)
  BY DEF SessionInv, CourseHolds, InTurn
<1>2. ~Await /\ (~task.got.ok => task.got.final)
  <2>1. task.got \in Replies /\ task.got # NoReply
    BY DEF Answered, SessionInv, SessionTypeOK
  <2>2. task.got \in {Refusal, Accept} \/ task.got.final = TRUE
    BY <2>1 DEF Replies
  <2> QED
    BY <2>1, <2>2 DEF Await, Refusal, Accept
<1>3. ASSUME task.n \in seen PROVE ~Left(task.n)
  <2>1. task.n \in ended /\ Idling
    BY <1>1, <1>3 DEF Course, Over, SessionInv, InOrder
  <2>2. ~Requested(task.n) /\ ~Queued(task.n)
    BY <2>1 DEF Idling, Requested, Queued, IsTurn
  <2>3. ~Told(task.n)
    BY <1>1, <1>2, <1>3 DEF Course, Over, Heard, Told, About
  <2> QED
    BY <2>2, <2>3 DEF Left
<1> QED
  BY <1>1, <1>2, <1>3 DEF Course, Over

(* From a reply to the wait for the end.                                   *)
LEMMA CollectKeeps ==
  ASSUME SessionInv, task.at = "turn", Answered(task), task.got.ok,
         NEW h \in Handles, handle' = h, h.exit = handle.exit, h.status = "running",
         task' = [task EXCEPT !.at = "collect", !.got = NoReply],
         UNCHANGED <<plan, server, stdin, stdout, chunk, call, ended, seen, overdue,
                     joined, mishaps, result, pending>>,
         ~Codex => task.n \notin seen,
         ~Foul => h.text \subseteq {task.n}
  PROVE  SessionInv'
<1>1. ~Dead /\ task.n \notin overdue
  BY DEF SessionInv, GoneIsGone, InTurn, Refusal
<1>2. task'.at = "collect" /\ task'.n = task.n /\ task'.got = NoReply
  BY DEF SessionInv, SessionTypeOK
<1>3. \A k \in Nat : (Left(k)' <=> Left(k)) /\ (Told(k)' <=> Told(k))
                     /\ (Queued(k)' <=> Queued(k)) /\ (Requested(k)' <=> Requested(k))
  BY DEF Left, Requested, Queued, Told
<1>4. SessionTypeOK'
  BY DEF SessionInv, SessionTypeOK, Replies
<1>5. InOrder'
  BY <1>2, <1>3 DEF SessionInv, InOrder, Closes, Answers
<1>6. NothingStale'
  BY <1>2, <1>3 DEF SessionInv, NothingStale, Dead, Foul, InTurn
<1>7. GoneIsGone'
  BY <1>1, <1>2 DEF GoneIsGone, Dead, InTurn
<1>8. CourseHolds'
  <2>1. Course(task.n) /\ ~Await /\ ~Await'
    BY <1>1, <1>2, AnswerIsLast DEF Await
  <2>2. task.n \in Nat /\ ~NoReply.ok /\ ~NoReply.final
    BY DEF SessionInv, SessionTypeOK, NoReply
  <2>3. Asked(task.n)'
    BY <1>2, <1>3, <2>1, <2>2 DEF Course, Asked, IsTurn
  <2>4. Served(task.n)'
    BY <1>2, <1>3, <2>1, <2>2 DEF Course, Served, Answers, Closes, Codex, Acp
  <2>5. Heard(task.n)'
    BY <1>2, <1>3, <2>1, <2>2
       DEF Course, Heard, Answers, Closes, Codex, Follows, About, Announces, IsNote
  <2>6. Over(task.n)'
    BY <1>2, <1>3, <2>1, <2>2 DEF Course, Over, Idling, IsNote, Codex
  <2> QED
    BY <1>2, <2>3, <2>4, <2>5, <2>6 DEF CourseHolds, Course
<1>9. HandleKnows'
  BY <1>2 DEF HandleKnows, Codex, Foul
<1>10. ResultsHold'
  BY <1>2 DEF SessionInv, ResultsHold, OwnAnswer
<1>11. NoWaitIsVain'
  <2>1. Codex /\ task.n \in seen => task.n \in joined
    BY <1>1, AnswerIsLast DEF Course, Over
  <2> QED
    BY <1>2, <2>1 DEF NoWaitIsVain
<1>12. PromptAwaited'
  BY DEF SessionInv, PromptAwaited, Await, Answered
<1> QED
  BY <1>4, <1>5, <1>6, <1>7, <1>8, <1>9, <1>10, <1>11, <1>12 DEF SessionInv

LEMMA TurnStartedKeeps ==
  ASSUME SessionInv, TurnStarted
  PROVE  SessionInv'
<1>1. /\ task.at = "turn" /\ Answered(task) /\ Codex
      /\ UNCHANGED <<stdin, pending>> /\ Unmoved
  BY DEF TurnStarted, Resumes
<1>2. CASE task.got.ok
  <2> DEFINE h == [handle EXCEPT !.text = {}, !.status = "running", !.turn = task.n]
  <2>1. /\ handle' = h /\ UNCHANGED result
        /\ task' = [task EXCEPT !.at = "collect", !.got = NoReply]
    BY <1>2 DEF TurnStarted
  <2>2. /\ h \in Handles /\ h.exit = handle.exit /\ h.status = "running" /\ h.text = {}
    <3>1. handle \in Handles /\ task.n \in Nat /\ {} \in SUBSET Nat
      BY DEF SessionInv, SessionTypeOK
    <3> QED
      BY <3>1 DEF Handles, Statuses
  <2> HIDE DEF h
  <2> QED
    BY <1>1, <1>2, <2>1, <2>2, CollectKeeps DEF Unmoved, history
<1>3. CASE ~task.got.ok
  <2>1. Finish(handle, "failed")
    BY <1>3 DEF TurnStarted
  <2>2. handle \in Handles /\ "failed" \in Statuses /\ ~Await
    BY <1>1 DEF SessionInv, SessionTypeOK, Statuses, Await, Answered
  <2>3. ~Dead /\ task.n \notin overdue => ~Left(task.n)
    BY <1>1, <1>3, AnswerIsLast
  <2> QED
    BY <1>1, <2>1, <2>2, <2>3, FinishKeeps DEF Unmoved, history
<1> QED
  BY <1>2, <1>3

LEMMA PromptAnsweredKeeps ==
  ASSUME SessionInv, PromptAnswered
  PROVE  SessionInv'
<1> DEFINE stopped == Acp /\ task.got.how # "completed"
           text == IF task.got.final /\ ~Acp /\ handle.text = {} THEN {task.n}
                   ELSE handle.text
           status == IF ~task.got.final THEN handle.status
                     ELSE IF stopped THEN "failed"
                     ELSE IF handle.status = "running" THEN "completed"
                     ELSE handle.status
           h == [handle EXCEPT !.status = status, !.text = text]
<1>1. /\ task.at = "turn" /\ Answered(task) /\ ~Codex /\ task.got.ok
      /\ UNCHANGED <<stdin, pending>> /\ Unmoved
  BY DEF PromptAnswered, Resumes
<1>2. ~Dead /\ task.n \notin overdue /\ task.n \in Nat
  BY <1>1 DEF SessionInv, GoneIsGone, InTurn, Refusal, SessionTypeOK
<1>3. handle \in Handles /\ handle.status \in {"running", "completed", "failed"}
  BY <1>1, <1>2 DEF SessionInv, SessionTypeOK, HandleKnows
<1>4. status \in {"running", "completed", "failed"} /\ status \in Statuses
  BY <1>3 DEF Statuses
<1>5. text \in SUBSET Nat
  BY <1>2, <1>3 DEF Handles
<1>6. h \in Handles /\ h.exit = handle.exit /\ h.status = status /\ h.text = text
  BY <1>3, <1>4, <1>5 DEF Handles
<1>7. ~Foul => text \subseteq {task.n}
  BY <1>1, <1>2 DEF SessionInv, HandleKnows
<1>8. task.got.final => ~Left(task.n) /\ task.n \in ended
  BY <1>1, <1>2, AnswerIsLast
<1>9. task.n \in seen => ~Left(task.n) /\ task.n \in ended
  BY <1>1, <1>2, AnswerIsLast DEF SessionInv, InOrder
<1>10. CASE status \in {"completed", "failed"}
  <2>1. Finish(h, h.status)
    BY <1>10 DEF PromptAnswered, Report
  <2>2. ~Foul => ~Left(task.n) /\ task.n \in ended
    <3>1. CASE task.got.final
      BY <1>8, <3>1
    <3>2. CASE ~task.got.final
      BY <1>1, <1>2, <1>9, <1>10, <3>2 DEF SessionInv, HandleKnows
    <3> QED
      BY <3>1, <3>2
  <2>3. ~Await
    BY <1>1 DEF Await, Answered
  <2> HIDE DEF h
  <2> QED
    BY <1>1, <1>4, <1>6, <1>7, <2>1, <2>2, <2>3, FinishKeeps DEF Unmoved, history
<1>11. CASE status = "running"
  <2>1. /\ handle' = h /\ UNCHANGED result
        /\ task' = [task EXCEPT !.at = "collect", !.got = NoReply]
    BY <1>11 DEF PromptAnswered
  <2>2. handle.status = "running" /\ task.n \notin seen
    BY <1>1, <1>2, <1>11 DEF SessionInv, HandleKnows
  <2> HIDE DEF h
  <2> QED
    BY <1>1, <1>6, <1>7, <1>11, <2>1, <2>2, CollectKeeps DEF Unmoved, history
<1> QED
  BY <1>4, <1>10, <1>11

LEMMA PromptFailedKeeps ==
  ASSUME SessionInv, PromptFailed
  PROVE  SessionInv'
<1> DEFINE h == [handle EXCEPT !.status = "failed"]
<1>1. /\ task.at = "turn" /\ Answered(task) /\ ~task.got.ok
      /\ UNCHANGED <<stdin, pending>> /\ Unmoved /\ Finish(h, h.status)
  BY DEF PromptFailed, Resumes, Report
<1>2. h \in Handles /\ h.exit = handle.exit /\ h.status = "failed" /\ "failed" \in Statuses
      /\ ~Await
  BY <1>1 DEF SessionInv, SessionTypeOK, Handles, Statuses, Await, Answered
<1>3. ~Dead /\ task.n \notin overdue => ~Left(task.n)
  BY <1>1, AnswerIsLast
<1> HIDE DEF h
<1> QED
  BY <1>1, <1>2, <1>3, FinishKeeps DEF Unmoved, history

-----------------------------------------------------------------------------
(* The next request of an assignment.                                      *)

LEMMA AskKeeps ==
  ASSUME SessionInv, NEW n \in Turns, NEW what \in {"session", "mode", "turn"},
         NEW h \in Handles, Ask(n, what, h), h.exit = handle.exit,
         UNCHANGED <<plan, server, stdout, chunk, call, result, ended, seen, overdue,
                     joined, mishaps>>,
         \/ task.at = "idle" /\ n = task.n + 1
         \/ task.at \in {"init", "session", "mode"} /\ n = task.n,
         what = "turn" /\ ~Codex => h.status = "running" /\ h.text = {}
  PROVE  SessionInv'
<1>1. n \in Nat /\ n > 0 /\ n <= MaxTurns /\ task.n \in Nat /\ task.n <= n
  BY PlansAssumption DEF SessionInv, SessionTypeOK, Turns
<1>2. n \notin ended \cup overdue \cup seen /\ ~Left(n)
  BY <1>1 DEF SessionInv, InOrder
<1>3. /\ handle' = h /\ task'.at = what /\ task'.n = n
      /\ task'.got = IF Reachable(h) THEN NoReply ELSE Refusal
  BY DEF Ask
<1>4. CASE Reachable(h)
  <2> DEFINE r == [what |-> what, n |-> n]
  <2>1. /\ task' = [at |-> what, n |-> n, got |-> NoReply]
        /\ pending' = pending \cup {<<what, n>>} /\ stdin' = Append(stdin, r)
    BY <1>4 DEF Ask
  <2>2. r \in Requests /\ <<what, n>> \in Ids /\ stdin \in Seq(Requests)
    BY <1>1 DEF Requests, Ids, SessionInv, SessionTypeOK
  <2>3. /\ stdin' \in Seq(Requests) /\ DOMAIN stdin' = 1 .. Len(stdin) + 1
        /\ \A i \in DOMAIN stdin : stdin'[i] = stdin[i]
        /\ stdin'[Len(stdin) + 1] = r /\ DOMAIN stdin = 1 .. Len(stdin) /\ Len(stdin) \in Nat
    BY <2>1, <2>2, AppendFacts
  <2>4. r.what = what /\ r.n = n
    OBVIOUS
  <2> HIDE DEF r
  <2>5. \A k \in Nat : /\ Requested(k)' <=> Requested(k) \/ (what = "turn" /\ k = n)
                       /\ Queued(k)' <=> Queued(k)
                       /\ Told(k)' <=> Told(k)
    <3> TAKE k \in Nat
    <3>1. Requested(k)' => Requested(k) \/ (what = "turn" /\ k = n)
      BY <2>3, <2>4 DEF Requested, IsTurn
    <3>2. Requested(k) => Requested(k)'
      BY <2>3 DEF Requested
    <3>3. what = "turn" /\ k = n => Requested(k)'
      BY <2>3, <2>4 DEF Requested, IsTurn
    <3> QED
      BY <3>1, <3>2, <3>3 DEF Queued, Told
  <2>6. \A k \in Nat : Left(k)' <=> Left(k) \/ (what = "turn" /\ k = n)
    BY <2>5 DEF Left
  <2>7. SessionTypeOK'
    <3>1. task' \in [at : {"idle", "init", "session", "mode", "turn", "collect"},
                     n : 0 .. MaxTurns, got : Replies]
      <4>1. NoReply \in Replies /\ n \in 0 .. MaxTurns
        BY <1>1 DEF Replies
      <4> QED
        BY <2>1, <4>1
    <3> QED
      BY <3>1, <1>3, <2>1, <2>2, <2>3 DEF SessionInv, SessionTypeOK
  <2>8. InOrder'
    BY <1>1, <1>2, <1>3, <1>4, <2>6 DEF SessionInv, InOrder, Closes, Answers
  <2>9. GoneIsGone'
    <3>1. ~Told(n)' /\ ~NoReply.ok
      BY <1>1, <1>2, <2>5 DEF Left, NoReply
    <3> QED
      BY <1>2, <1>3, <1>4, <3>1 DEF SessionInv, GoneIsGone, Dead, InTurn
  <2>10. CourseHolds'
    <3> SUFFICES ASSUME what = "turn" PROVE Course(n)'
      BY <1>3 DEF CourseHolds, InTurn
    <3>1. Await' /\ ~NoReply.final /\ ~NoReply.ok /\ task'.got = NoReply
      BY <1>3, <1>4 DEF Await, NoReply
    <3>2. ~Requested(n) /\ ~Queued(n) /\ ~Told(n) /\ ~Queued(n)' /\ ~Told(n)'
      BY <1>1, <1>2, <2>5 DEF Left
    <3>3. Asked(n)'
      <4>1. \A i \in DOMAIN stdin' : IsTurn(stdin'[i], n) => i = Len(stdin) + 1
        BY <2>3, <3>2 DEF Requested
      <4>2. \A i, j \in DOMAIN stdin' : IsTurn(stdin'[i], n) => j <= i
        BY <2>3, <4>1
      <4> QED
        BY <1>2, <2>1, <3>1, <3>2, <4>2 DEF Asked, IsTurn
    <3>4. Served(n)'
      BY <3>2 DEF Served, Queued
    <3>5. Heard(n)'
      BY <3>1, <3>2 DEF Heard, Told, About, Closes, Answers, Follows
    <3>6. Over(n)'
      BY <1>2, <3>1 DEF Over
    <3> QED
      BY <3>3, <3>4, <3>5, <3>6 DEF Course
  <2>11. NothingStale'
    <3>1. Foul => Foul'
      BY <1>1, <1>3 DEF Foul, SessionInv, InOrder
    <3>2. ~InTurn /\ (Dead' <=> Dead)
      BY <1>3 DEF InTurn, Dead
    <3> QED
      BY <1>3, <2>6, <3>1, <3>2 DEF SessionInv, NothingStale, InTurn
  <2>12. PromptAwaited'
    BY <1>3, <1>4, <2>1 DEF SessionInv, PromptAwaited, Await
  <2> QED
    BY <1>1, <1>2, <1>3, <2>7, <2>8, <2>9, <2>10, <2>11, <2>12
       DEF SessionInv, HandleKnows, ResultsHold, OwnAnswer, NoWaitIsVain, Codex
<1>5. CASE ~Reachable(h)
  <2>1. task' = [at |-> what, n |-> n, got |-> Refusal] /\ UNCHANGED <<pending, stdin>>
    BY <1>5 DEF Ask
  <2>2. \A k \in Nat : /\ Requested(k)' <=> Requested(k)
                       /\ Queued(k)' <=> Queued(k)
                       /\ Told(k)' <=> Told(k)
                       /\ Left(k)' <=> Left(k)
    BY <2>1 DEF Requested, Queued, Told, Left
  <2>3. SessionTypeOK'
    <3>1. task' \in [at : {"idle", "init", "session", "mode", "turn", "collect"},
                     n : 0 .. MaxTurns, got : Replies]
      <4>1. Refusal \in Replies /\ n \in 0 .. MaxTurns
        BY <1>1 DEF Replies
      <4> QED
        BY <2>1, <4>1
    <3> QED
      BY <3>1, <1>3, <2>1 DEF SessionInv, SessionTypeOK
  <2>4. InOrder'
    BY <1>1, <1>2, <1>3, <1>5, <2>2 DEF SessionInv, InOrder, Closes, Answers
  <2>5. GoneIsGone'
    BY <1>2, <1>3, <1>5, <2>2 DEF SessionInv, GoneIsGone, Dead, InTurn, NoReply, Refusal
  <2>6. CourseHolds'
    <3> SUFFICES ASSUME what = "turn" PROVE Course(n)'
      BY <1>3 DEF CourseHolds, InTurn
    <3>1. ~Await' /\ ~task'.got.ok /\ NoReply # Refusal
      BY <1>3, <1>5 DEF Await, NoReply, Refusal
    <3>2. ~Requested(n)' /\ ~Queued(n)' /\ ~Told(n)' /\ ~Left(n)'
      BY <1>1, <1>2, <2>2 DEF Left
    <3>3. Asked(n)' /\ Served(n)'
      BY <3>1, <3>2 DEF Asked, Served, Requested, Queued
    <3>4. Heard(n)' /\ Over(n)'
      BY <1>2, <3>1, <3>2 DEF Heard, Told, About, Closes, Answers, Follows, Over
    <3> QED
      BY <3>3, <3>4 DEF Course
  <2>7. NothingStale'
    <3>1. Foul => Foul'
      BY <1>1, <1>3 DEF Foul, SessionInv, InOrder
    <3>2. ~InTurn /\ (Dead' <=> Dead)
      BY <1>3 DEF InTurn, Dead
    <3> QED
      BY <1>3, <2>2, <3>1, <3>2 DEF SessionInv, NothingStale, InTurn
  <2>8. PromptAwaited'
    BY <2>1 DEF SessionInv, PromptAwaited, Await
  <2> QED
    BY <1>1, <1>2, <1>3, <2>3, <2>4, <2>5, <2>6, <2>7, <2>8
       DEF SessionInv, HandleKnows, ResultsHold, OwnAnswer, NoWaitIsVain, Codex
<1> QED
  BY <1>4, <1>5

LEMMA StartServerKeeps ==
  ASSUME SessionInv, Begin, StartServer
  PROVE  SessionInv'
<1> DEFINE n == task.n + 1
<1>1. n \in Nat /\ n > 0 /\ n <= MaxTurns /\ task.n \in Nat
  BY PlansAssumption DEF SessionInv, SessionTypeOK, Begin
<1>2. n \notin ended \cup overdue \cup seen
  BY <1>1 DEF SessionInv, InOrder
<1>3. /\ handle' = NewHandle /\ task' = [at |-> "init", n |-> n, got |-> NoReply]
      /\ stdout' = <<>> /\ server' = [NoServer EXCEPT !.at = "up"]
      /\ stdin' = <<[what |-> "init", n |-> n]>> /\ pending' = {<<"init", n>>}
      /\ UNCHANGED <<plan, chunk, call, result, ended, seen, overdue, joined, mishaps>>
      /\ task.at = "idle"
  BY DEF StartServer, Begin, history
<1>4. \A k \in Nat : ~Left(k)'
  BY <1>3 DEF Left, Requested, Queued, Told, NoServer, IsTurn
<1>5. handle'.exit = "no" /\ handle' \in Handles
  BY <1>3 DEF NewHandle, Handles, Statuses
<1>6. SessionTypeOK'
  <2>1. [what |-> "init", n |-> n] \in Requests /\ <<"init", n>> \in Ids
    BY <1>1 DEF Requests, Ids
  <2>2. stdin' \in Seq(Requests)
    BY <1>3, <2>1
  <2>3. server' \in [at : {"none", "up", "code", "signal", "hung"},
                     queue : Seq(Entries), told : BOOLEAN]
    BY <1>3, <<>> \in Seq(Entries) DEF NoServer
  <2>4. task' \in [at : {"idle", "init", "session", "mode", "turn", "collect"},
                   n : 0 .. MaxTurns, got : Replies]
    BY <1>1, <1>3 DEF Replies
  <2> QED
    BY <1>3, <1>5, <2>1, <2>2, <2>3, <2>4 DEF SessionInv, SessionTypeOK
<1>7. InOrder'
  BY <1>1, <1>2, <1>3, <1>4 DEF SessionInv, InOrder
<1>8. task'.at = "init" /\ task'.n = n
  BY <1>3
<1>9. ResultsHold'
  BY <1>1, <1>3, <1>8 DEF SessionInv, ResultsHold, OwnAnswer, Turns
<1>10. PromptAwaited'
  BY <1>3 DEF PromptAwaited
<1> QED
  BY <1>4, <1>5, <1>6, <1>7, <1>8, <1>9, <1>10
     DEF SessionInv, NothingStale, GoneIsGone, CourseHolds, HandleKnows, NoWaitIsVain,
         Dead, InTurn

LEMMA BeginKeeps ==
  ASSUME SessionInv, Begin
  PROVE  SessionInv'
<1>1. CASE StartServer
  BY <1>1, StartServerKeeps
<1>2. CASE Reuse
  <2> DEFINE h == IF Codex THEN handle ELSE Cleared(handle)
  <2>1. /\ Ask(task.n + 1, "turn", h) /\ task.at = "idle" /\ task.n + 1 \in Turns
        /\ UNCHANGED <<plan, server, stdout, chunk, call, result, ended, seen, overdue,
                       joined, mishaps>>
    BY <1>2, PlansAssumption
       DEF Reuse, Begin, history, Turns, SessionInv, SessionTypeOK
  <2>2. /\ h \in Handles /\ h.exit = handle.exit
        /\ ~Codex => h.status = "running" /\ h.text = {}
    <3>1. handle \in Handles /\ {} \in SUBSET Nat
      BY DEF SessionInv, SessionTypeOK
    <3> QED
      BY <3>1 DEF Handles, Statuses, Cleared
  <2> HIDE DEF h
  <2> QED
    BY <2>1, <2>2, AskKeeps
<1> QED
  BY <1>1, <1>2 DEF Begin

LEMMA SetupKeeps ==
  ASSUME SessionInv, Initialized \/ SessionOpen \/ ModeSet
  PROVE  SessionInv'
<1>1. /\ task.at \in {"init", "session", "mode"} /\ task.n \in Turns
      /\ UNCHANGED <<plan, server, stdout, chunk, call, result, ended, seen, overdue,
                     joined, mishaps>>
  BY PlansAssumption DEF Initialized, SessionOpen, ModeSet, Resumes, Unmoved, history,
     SessionInv, SessionTypeOK, InOrder, Turns
<1>2. handle \in Handles /\ {} \in SUBSET Nat
  BY DEF SessionInv, SessionTypeOK
<1>3. CASE Initialized
  <2> DEFINE h == [handle EXCEPT !.status = "ready"]
  <2>1. Ask(task.n, "session", h)
    BY <1>3 DEF Initialized
  <2>2. h \in Handles /\ h.exit = handle.exit
    BY <1>2 DEF Handles, Statuses
  <2> HIDE DEF h
  <2> QED
    BY <1>1, <2>1, <2>2, AskKeeps
<1>4. CASE SessionOpen
  <2> DEFINE h == [handle EXCEPT !.session = TRUE]
  <2>1. Ask(task.n, IF Codex THEN "turn" ELSE "mode", h)
    BY <1>4 DEF SessionOpen
  <2>2. h \in Handles /\ h.exit = handle.exit
    BY <1>2 DEF Handles
  <2> HIDE DEF h
  <2> QED
    BY <1>1, <2>1, <2>2, AskKeeps
<1>5. CASE ModeSet
  <2> DEFINE h == IF Codex THEN handle ELSE Cleared(handle)
  <2>1. Ask(task.n, "turn", h)
    BY <1>5 DEF ModeSet, Prompt
  <2>2. /\ h \in Handles /\ h.exit = handle.exit
        /\ ~Codex => h.status = "running" /\ h.text = {}
    BY <1>2 DEF Handles, Statuses, Cleared
  <2> HIDE DEF h
  <2> QED
    BY <1>1, <2>1, <2>2, AskKeeps
<1> QED
  BY <1>3, <1>4, <1>5

LEMMA TaskKeeps ==
  ASSUME SessionInv, Task
  PROVE  SessionInv'
  BY FailsKeeps, TurnStartedKeeps, PromptAnsweredKeeps, PromptFailedKeeps, BeginKeeps,
     SetupKeeps DEF Task

-----------------------------------------------------------------------------
(* Steps that are not about the turn: commands, their timers, the loss of  *)
(* the server.                                                             *)

LEMMA AsideKeeps ==
  ASSUME SessionInv, SessionTypeOK',
         UNCHANGED <<plan, stdout, handle, task, result, history>>,
         server'.queue = server.queue, Dead => server'.at = server.at,
         \A k \in Nat : <<"turn", k>> \in pending' <=> <<"turn", k>> \in pending,
         \A i \in DOMAIN stdin : i \in DOMAIN stdin' /\ stdin'[i] = stdin[i],
         \A i \in DOMAIN stdin' : stdin'[i].what = "turn" => i \in DOMAIN stdin
  PROVE  SessionInv'
<1>1. UNCHANGED <<ended, seen, overdue, joined>>
  BY DEF history
<1>2. \A k \in Nat : /\ Requested(k)' <=> Requested(k)
                     /\ Queued(k)' <=> Queued(k)
                     /\ Told(k)' <=> Told(k)
  BY DEF Requested, Queued, Told, IsTurn
<1>3. \A k \in Nat : Left(k)' <=> Left(k)
  BY <1>2 DEF Left
<1>4. /\ Dead' <=> Dead
      /\ InTurn' <=> InTurn
      /\ Await' <=> Await
      /\ Foul' <=> Foul
      /\ Codex' <=> Codex
      /\ Acp' <=> Acp
      /\ Idling => Idling'
  BY <1>1 DEF Dead, InTurn, Await, Foul, Codex, Acp, Idling
<1>5. InOrder' /\ NothingStale' /\ GoneIsGone' /\ HandleKnows' /\ ResultsHold'
      /\ NoWaitIsVain'
  <2>1. task.n \in Nat
    BY DEF SessionInv, SessionTypeOK
  <2>2. InOrder' /\ NothingStale'
    <3>1. InOrder'
      BY <1>1, <1>3, <2>1 DEF SessionInv, InOrder, Closes, Answers
    <3>2. NothingStale'
      BY <1>1, <1>3, <1>4, <2>1 DEF SessionInv, NothingStale
    <3> QED
      BY <3>1, <3>2
  <2>3. GoneIsGone' /\ HandleKnows'
    BY <1>1, <1>2, <1>4, <2>1 DEF SessionInv, GoneIsGone, HandleKnows
  <2> QED
    BY <1>1, <2>2, <2>3 DEF SessionInv, ResultsHold, OwnAnswer, NoWaitIsVain
<1>6. CourseHolds'
  <2> SUFFICES ASSUME InTurn, task.n \notin overdue, ~Dead PROVE Course(task.n)'
    BY <1>1, <1>4 DEF CourseHolds
  <2>1. Course(task.n) /\ task.n \in Nat
    BY DEF SessionInv, CourseHolds, SessionTypeOK
  <2>2. Asked(task.n)'
    BY <1>1, <1>2, <1>4, <2>1 DEF Course, Asked, IsTurn
  <2>3. Served(task.n)'
    BY <1>1, <1>4, <2>1 DEF Course, Served, Answers, Closes
  <2>4. Heard(task.n)'
    <3>1. \A i, j \in DOMAIN stdout : i < j => Follows(stdout[i], stdout[j], task.n)'
      BY <1>4, <2>1 DEF Course, Heard, Follows, Closes, Answers, About, Announces, IsNote
    <3> QED
      BY <1>2, <1>4, <2>1, <3>1 DEF Course, Heard, Closes, Answers, About, IsNote
  <2>5. Over(task.n)'
    BY <1>1, <1>3, <1>4, <2>1 DEF Course, Over, IsNote
  <2> QED
    BY <2>2, <2>3, <2>4, <2>5 DEF Course
<1>7. PromptAwaited'
  BY <1>4 DEF SessionInv, PromptAwaited
<1> QED
  BY <1>5, <1>6, <1>7 DEF SessionInv

LEMMA MishapsCounted ==
  ASSUME SessionInv, NEW e \in {"calls", "late", "losses"}, Happens(e) \/ UNCHANGED mishaps
  PROVE  mishaps' \in [calls : Nat, late : Nat, losses : Nat]
<1>1. mishaps \in [calls : Nat, late : Nat, losses : Nat] /\ mishaps[e] \in Nat
  BY DEF SessionInv, SessionTypeOK
<1> QED
  BY <1>1 DEF Happens

LEMMA CommandDoneKeeps ==
  ASSUME SessionInv, CommandDone
  PROVE  SessionInv'
<1>1. SessionTypeOK'
  BY DEF SessionInv, SessionTypeOK, CommandDone, Replies, pipes, history
<1> QED
  BY <1>1, AsideKeeps DEF CommandDone, pipes

LEMMA CallTimeoutKeeps ==
  ASSUME SessionInv, CallTimeout
  PROVE  SessionInv'
<1>1. Timer /\ UNCHANGED <<plan, server, pipes, chunk, handle, task, result, history>>
      /\ pending' = pending \ {<<"call", call.n>>}
      /\ call' = [call EXCEPT !.got = Refusal]
  BY DEF CallTimeout, Timer, history
<1>2. mishaps' \in [calls : Nat, late : Nat, losses : Nat]
  BY <1>1, MishapsCounted DEF Timer
<1>3. SessionTypeOK'
  BY <1>1, <1>2 DEF SessionInv, SessionTypeOK, Replies, pipes
<1> QED
  BY <1>1, <1>3, AsideKeeps DEF pipes

LEMMA LostKeeps ==
  ASSUME SessionInv, Lost
  PROVE  SessionInv'
<1>1. PICK how \in {"code", "signal", "hung"} : server' = [server EXCEPT !.at = how]
  BY DEF Lost
<1>2. /\ server.at = "up"
      /\ UNCHANGED <<plan, stdin, stdout, chunk, handle, pending, task, call, result, history>>
      /\ mishaps' \in [calls : Nat, late : Nat, losses : Nat]
  BY MishapsCounted DEF Lost, host, pipes
<1>3. SessionTypeOK'
  BY <1>1, <1>2 DEF SessionInv, SessionTypeOK
<1>4. ~Dead /\ server'.queue = server.queue
  BY <1>1, <1>2 DEF SessionInv, SessionTypeOK, GoneIsGone
<1> QED
  BY <1>2, <1>3, <1>4, AsideKeeps

LEMMA CommandKeeps ==
  ASSUME SessionInv, Command
  PROVE  SessionInv'
<1>1. PICK what \in Commands :
        LET id == <<"call", mishaps'.calls>> IN
        /\ stdin' = Append(stdin, [what |-> what, n |-> handle.turn, id |-> id])
        /\ Awaited(id)
  BY DEF Command
<1> DEFINE id == <<"call", mishaps'.calls>>
           r == [what |-> what, n |-> handle.turn, id |-> id]
<1>2. /\ UNCHANGED <<plan, server, stdout, chunk, handle, task, result, history>>
      /\ mishaps' \in [calls : Nat, late : Nat, losses : Nat]
  BY MishapsCounted DEF Command
<1>3. id \in {"call"} \X Nat /\ id \in Ids /\ id[2] \in Nat
  BY <1>2 DEF Ids
<1>4. r \in Requests /\ r.what # "turn"
  <2>1. what \in {"steer", "interrupt"} /\ handle.turn \in Nat
    BY <1>1 DEF Commands, SessionInv, SessionTypeOK, Handles
  <2> QED
    BY <1>3, <2>1 DEF Requests
<1>5. stdin \in Seq(Requests) /\ stdin' = Append(stdin, r)
  BY <1>1 DEF SessionInv, SessionTypeOK
<1>6. Awaited(id)
  BY <1>1
<1> HIDE DEF r, id
<1>7. /\ stdin' \in Seq(Requests)
      /\ \A i \in DOMAIN stdin : i \in DOMAIN stdin' /\ stdin'[i] = stdin[i]
      /\ \A i \in DOMAIN stdin' : stdin'[i].what = "turn" => i \in DOMAIN stdin
  BY <1>4, <1>5, AppendFacts
<1>8. /\ pending' \subseteq Ids
      /\ \A k \in Nat : <<"turn", k>> \in pending' <=> <<"turn", k>> \in pending
      /\ call' \in [at : {"idle", "wait"}, n : Nat, got : Replies]
  <2>1. pending \subseteq Ids /\ call \in [at : {"idle", "wait"}, n : Nat, got : Replies]
        /\ NoReply \in Replies
    BY DEF SessionInv, SessionTypeOK, Replies
  <2> QED
    BY <1>3, <1>6, <2>1 DEF Awaited
<1>9. SessionTypeOK'
  BY <1>2, <1>7, <1>8 DEF SessionInv, SessionTypeOK
<1> QED
  BY <1>2, <1>7, <1>8, <1>9, AsideKeeps

-----------------------------------------------------------------------------
(* The timers of the turn, and the exit of the server.                     *)

LEMMA RequestTimeoutKeeps ==
  ASSUME SessionInv, RequestTimeout
  PROVE  SessionInv'
<1>1. /\ task.at \in {"init", "session", "mode", "turn"}
      /\ task' = [task EXCEPT !.got = Refusal]
      /\ pending' = pending \ {<<task.at, task.n>>}
      /\ overdue' = IF task.at = "turn" THEN overdue \cup {task.n} ELSE overdue
      /\ UNCHANGED <<plan, server, stdin, stdout, chunk, handle, call, result, ended, seen,
                     joined>>
      /\ mishaps' \in [calls : Nat, late : Nat, losses : Nat]
  BY MishapsCounted DEF RequestTimeout, Timer, GiveUp, pipes
<1>2. task'.at = task.at /\ task'.n = task.n /\ task'.got = Refusal /\ task.n \in Nat
      /\ task.n > 0
  BY <1>1 DEF SessionInv, SessionTypeOK, InOrder
<1>3. \A k \in Nat : Left(k)' <=> Left(k)
  BY <1>1 DEF Left, Requested, Queued, Told
<1>4. SessionTypeOK'
  <2>1. task' \in [at : {"idle", "init", "session", "mode", "turn", "collect"},
                   n : 0 .. MaxTurns, got : Replies]
    BY <1>1 DEF SessionInv, SessionTypeOK, Replies
  <2> QED
    BY <1>1, <2>1 DEF SessionInv, SessionTypeOK
<1>5. InOrder'
  BY <1>1, <1>2, <1>3 DEF SessionInv, InOrder, Closes, Answers
<1>6. Foul' <=> Foul
  BY <1>1, <1>2 DEF Foul
<1>7. NothingStale'
  BY <1>1, <1>2, <1>3, <1>6 DEF SessionInv, NothingStale, Dead, InTurn
<1>8. GoneIsGone'
  BY <1>1, <1>2 DEF SessionInv, GoneIsGone, Dead, InTurn, Refusal, NoReply
<1>9. task'.at = "turn" => task'.n \in overdue'
  BY <1>1, <1>2
<1>10. ResultsHold'
  BY <1>1, <1>2 DEF SessionInv, ResultsHold, OwnAnswer
<1>11. PromptAwaited'
  BY <1>1 DEF SessionInv, PromptAwaited, Await
<1> QED
  BY <1>1, <1>2, <1>4, <1>5, <1>7, <1>8, <1>9, <1>10, <1>11
     DEF SessionInv, CourseHolds, HandleKnows, NoWaitIsVain, InTurn

LEMMA TurnTimeoutKeeps ==
  ASSUME SessionInv, TurnTimeout
  PROVE  SessionInv'
<1> DEFINE h == [handle EXCEPT !.status = "failed"]
<1>1. /\ task.at = "collect" /\ Finish(h, h.status) /\ overdue' = overdue \cup {task.n}
      /\ UNCHANGED <<plan, server, stdin, stdout, chunk, call, ended, seen, joined, pending>>
  BY DEF TurnTimeout, Report, Timer, GiveUp, pipes
<1>2. h \in Handles /\ h.exit = handle.exit /\ h.status = "failed" /\ "failed" \in Statuses
      /\ ~Await
  BY <1>1 DEF SessionInv, SessionTypeOK, Handles, Statuses, Await
<1>3. mishaps' \in [calls : Nat, late : Nat, losses : Nat]
  BY MishapsCounted DEF TurnTimeout, Timer
<1> HIDE DEF h
<1> QED
  BY <1>1, <1>2, <1>3, FinishKeeps

LEMMA ExitedKeeps ==
  ASSUME SessionInv, Exited
  PROVE  SessionInv'
<1> DEFINE h == [handle EXCEPT !.exit = server.at,
                   !.status = IF @ = "completed" THEN @ ELSE "failed"]
           o == [status |-> "failed", text |-> {}]
<1>1. /\ server.at \in {"code", "signal"} /\ handle' = h
      /\ UNCHANGED <<plan, server, stdin, stdout, chunk, ended, seen, overdue, joined, mishaps>>
      /\ pending' = {}
      /\ call' = IF call.at = "wait" THEN [call EXCEPT !.got = Refusal] ELSE call
  BY DEF Exited, Report, Finish, pipes, history
<1>2. h \in Handles /\ h.exit # "no"
  BY <1>1 DEF SessionInv, SessionTypeOK, Handles, Statuses
<1>3. task.at = "collect" => h.status = "failed"
  BY <1>2 DEF SessionInv, GoneIsGone, SessionTypeOK, Handles
<1>4. /\ task'.n = task.n /\ task'.at # "collect" /\ task' \in [at : {"idle", "init",
                  "session", "mode", "turn", "collect"}, n : 0 .. MaxTurns, got : Replies]
      /\ IF task.at \in {"idle", "collect"} THEN task'.at = "idle" /\ task'.got = NoReply
         ELSE task'.at = task.at /\ task'.got = Refusal
  <2>1. CASE task.at = "collect"
    BY <2>1 DEF Exited, Report, Finish, SessionInv, SessionTypeOK, Replies
  <2>2. CASE task.at = "idle"
    BY <2>2 DEF Exited, SessionInv, SessionTypeOK, InOrder
  <2>3. CASE task.at \notin {"idle", "collect"}
    <3>1. task' = [task EXCEPT !.got = Refusal]
      BY <2>3 DEF Exited
    <3> QED
      BY <2>3, <3>1 DEF SessionInv, SessionTypeOK, Replies
  <2> QED
    BY <2>1, <2>2, <2>3
<1>5. result' = IF task.at = "collect" THEN [result EXCEPT ![task.n] = o] ELSE result
  <2>1. CASE task.at = "collect"
    <3>1. Finish(h, h.status)
      BY <2>1 DEF Exited, Report
    <3> HIDE DEF h
    <3> QED
      BY <1>3, <2>1, <3>1 DEF Finish
  <2>2. CASE task.at # "collect"
    BY <2>2 DEF Exited
  <2> QED
    BY <2>1, <2>2
<1> HIDE DEF h
<1>6. \A k \in Nat : Left(k)' <=> Left(k)
  BY <1>1 DEF Left, Requested, Queued, Told
<1>7. task.n \in 0 .. MaxTurns /\ task.n \in Nat /\ (task.at # "idle" => task.n \in Turns)
      /\ o \in Outputs /\ o.status = "failed"
  BY PlansAssumption DEF SessionInv, SessionTypeOK, InOrder, Turns, Outputs, Statuses
<1>8. SessionTypeOK'
  <2>1. result' \in [Turns -> Outputs]
    BY <1>5, <1>7 DEF SessionInv, SessionTypeOK
  <2>2. call' \in [at : {"idle", "wait"}, n : Nat, got : Replies]
    BY <1>1 DEF SessionInv, SessionTypeOK, Replies
  <2> QED
    BY <1>1, <1>2, <1>4, <2>1, <2>2 DEF SessionInv, SessionTypeOK
<1>9. InOrder'
  BY <1>1, <1>4, <1>6 DEF SessionInv, InOrder, Closes, Answers
<1>10. Dead' /\ GoneIsGone'
  BY <1>1, <1>2, <1>4 DEF GoneIsGone, Dead, InTurn, Refusal, NoReply
<1>11. ResultsHold'
  <2> HIDE DEF o
  <2>1. \A k \in Turns : result'[k] = result[k] \/ (k = task.n /\ task.at = "collect"
                                                     /\ result'[k].status = "failed")
    BY <1>5, <1>7 DEF SessionInv, SessionTypeOK
  <2> QED
    BY <1>1, <1>4, <2>1 DEF SessionInv, ResultsHold, OwnAnswer
<1>12. PromptAwaited'
  BY <1>1 DEF PromptAwaited
<1> QED
  BY <1>4, <1>8, <1>9, <1>10, <1>11, <1>12
     DEF SessionInv, NothingStale, CourseHolds, HandleKnows, NoWaitIsVain

-----------------------------------------------------------------------------
(* The server: it takes a request, works, and writes.                      *)

HostStands == UNCHANGED <<plan, chunk, host, seen, overdue, joined, mishaps>>

(* What is about no turn.                                                  *)
Neutral(m) == ~IsNote(m) /\ \A k \in Nat : ~Answers(m, k)
Truthful(m, e) ==
  /\ m.m = "ended" => m.n \in e
  /\ \A k \in Turns : Closes(m, k) /\ m.reply.ok => k \in e

LEMMA RequestsShift ==
  ASSUME stdin \in Seq(Requests), NEW s \in {0, 1}, Len(stdin') = Len(stdin) - s,
         stdin' \in Seq(Requests),
         \A i \in DOMAIN stdin' : i + s \in DOMAIN stdin /\ stdin'[i] = stdin[i + s],
         NEW n \in Nat
  PROVE  /\ Requested(n)' => Requested(n)
         /\ (\A j \in DOMAIN stdin : stdin[j].what # "turn")
              => \A j \in DOMAIN stdin' : stdin'[j].what # "turn"
  BY DEF Requested, IsTurn

LEMMA ToldGrows ==
  ASSUME stdout \in Seq(Messages), NEW out \in Seq(Messages), stdout' = stdout \o out,
         NEW n \in Nat
  PROVE  Told(n)' <=> Told(n) \/ \E j \in DOMAIN out : About(out[j], n)
<1>1. Told(n)' => Told(n) \/ \E j \in DOMAIN out : About(out[j], n)
  <2> SUFFICES ASSUME NEW i \in DOMAIN stdout', About(stdout'[i], n)
               PROVE  Told(n) \/ \E j \in DOMAIN out : About(out[j], n)
    BY DEF Told, About, IsNote, Answers
  <2> QED
    BY CatFacts DEF Told
<1>2. Told(n) => Told(n)'
  <2> SUFFICES ASSUME NEW i \in DOMAIN stdout, About(stdout[i], n) PROVE Told(n)'
    BY DEF Told
  <2>1. i \in DOMAIN stdout' /\ stdout'[i] = stdout[i]
    BY CatFacts
  <2> QED
    BY <2>1 DEF Told, About, IsNote, Answers
<1>3. ASSUME NEW j \in DOMAIN out, About(out[j], n) PROVE Told(n)'
  <2>1. Len(stdout) + j \in DOMAIN stdout' /\ stdout'[Len(stdout) + j] = out[j]
    BY CatFacts
  <2> QED
    BY <1>3, <2>1 DEF Told, About, IsNote, Answers
<1> QED
  BY <1>1, <1>2, <1>3

LEMMA HeardGrows ==
  ASSUME stdout \in Seq(Messages), NEW out \in Seq(Messages), stdout' = stdout \o out,
         NEW n \in Nat, Heard(n), UNCHANGED <<plan, task>>,
         \A i \in DOMAIN stdout, j \in DOMAIN out : Follows(stdout[i], out[j], n),
         \A i, j \in DOMAIN out : i < j => Follows(out[i], out[j], n),
         \A i \in DOMAIN stdout : Closes(stdout[i], n) => ~Queued(n)',
         \A j \in DOMAIN out : Closes(out[j], n) => ~Queued(n)',
         \A j \in DOMAIN out : Answers(out[j], n) => Await,
         \A j \in DOMAIN out : Codex /\ Await /\ About(out[j], n) =>
           Answers(out[j], n) \/ \E i \in DOMAIN stdout : Answers(stdout[i], n)
  PROVE  Heard(n)'
<1>1. /\ Len(stdout) \in Nat /\ Len(out) \in Nat /\ DOMAIN stdout = 1 .. Len(stdout)
      /\ DOMAIN out = 1 .. Len(out) /\ DOMAIN stdout' = 1 .. Len(stdout) + Len(out)
  BY CatFacts
<1>2. \A i \in DOMAIN stdout' : \/ i \in DOMAIN stdout /\ stdout'[i] = stdout[i]
                                \/ /\ i > Len(stdout) /\ i - Len(stdout) \in DOMAIN out
                                   /\ stdout'[i] = out[i - Len(stdout)]
  BY <1>1, CatFacts
<1>3. \A i \in DOMAIN stdout : i \in DOMAIN stdout' /\ stdout'[i] = stdout[i]
  BY <1>1, CatFacts
<1>4. (Await' <=> Await) /\ (Codex' <=> Codex)
  BY DEF Await, Codex
<1>5. ASSUME NEW i \in DOMAIN stdout', NEW j \in DOMAIN stdout', i < j
      PROVE  Follows(stdout'[i], stdout'[j], n)
  <2>1. CASE i \in DOMAIN stdout /\ j \in DOMAIN stdout
    BY <1>3, <1>5, <2>1 DEF Heard
  <2>2. CASE i \in DOMAIN stdout /\ j \notin DOMAIN stdout
    BY <1>2, <1>3, <2>2
  <2>3. CASE i \notin DOMAIN stdout
    <3>1. i > Len(stdout) /\ j > Len(stdout) /\ j \notin DOMAIN stdout
      BY <1>1, <1>2, <1>5, <2>3
    <3>2. i - Len(stdout) < j - Len(stdout)
      BY <1>1, <1>5, <3>1
    <3> QED
      BY <1>2, <2>3, <3>1, <3>2
  <2> QED
    BY <2>1, <2>2, <2>3
<1>6. \A i, j \in DOMAIN stdout' : i < j => Follows(stdout[i], stdout[j], n)'
  <2> TAKE i, j \in DOMAIN stdout'
  <2> HAVE i < j
  <2>1. Follows(stdout'[i], stdout'[j], n)
    BY <1>5
  <2> QED
    BY <1>4, <2>1 DEF Follows, About, Closes, Answers, Announces, IsNote
<1>7. \A i \in DOMAIN stdout' : Closes(stdout'[i], n) => ~Queued(n)'
  BY <1>2
<1>8. ~Await => \A i \in DOMAIN stdout' : ~Answers(stdout'[i], n)
  BY <1>2 DEF Heard
<1>9. ASSUME Codex, Await, NEW i \in DOMAIN stdout', About(stdout'[i], n)
      PROVE  \E j \in DOMAIN stdout' : j <= i /\ Answers(stdout'[j], n)
  <2>1. CASE i \in DOMAIN stdout
    <3>1. PICK j \in DOMAIN stdout : j <= i /\ Answers(stdout[j], n)
      BY <1>3, <1>9, <2>1 DEF Heard
    <3> QED
      BY <1>3, <3>1
  <2>2. CASE i \notin DOMAIN stdout
    <3>1. i > Len(stdout) /\ i - Len(stdout) \in DOMAIN out
          /\ stdout'[i] = out[i - Len(stdout)]
      BY <1>2, <2>2
    <3>2. CASE Answers(stdout'[i], n)
      BY <1>1, <3>2
    <3>3. CASE ~Answers(stdout'[i], n)
      <4>1. PICK j \in DOMAIN stdout : Answers(stdout[j], n)
        BY <1>9, <3>1, <3>3
      <4>2. j \in DOMAIN stdout' /\ stdout'[j] = stdout[j] /\ j <= Len(stdout)
        BY <1>1, <1>3
      <4>3. j <= i
        BY <1>1, <3>1, <4>2
      <4> QED
        BY <4>1, <4>2, <4>3
    <3> QED
      BY <3>2, <3>3
  <2> QED
    BY <2>1, <2>2
<1> QED
  BY <1>4, <1>6, <1>7, <1>8, <1>9 DEF Heard, About, Closes, Answers, IsNote

LEMMA ServerKeeps ==
  ASSUME SessionInv, server.at = "up", HostStands,
         NEW out \in Seq(Messages), stdout' = stdout \o out, stdin' \in Seq(Requests),
         server' \in [at : {"up"}, queue : Seq(Entries), told : BOOLEAN],
         \A k \in Nat : Requested(k)' => Left(k),
         \A k \in Nat : Queued(k)' => Left(k),
         \A k \in Nat : \A j \in DOMAIN out : About(out[j], k) => Left(k),
         ended \subseteq ended', \A k \in ended' : k \in ended \/ (k \in Nat /\ Left(k)),
         \A j \in DOMAIN out : Truthful(out[j], ended'),
         InTurn /\ task.n \notin overdue => Course(task.n)'
  PROVE  SessionInv'
<1>1. UNCHANGED <<plan, chunk, handle, pending, task, call, result, seen, overdue, joined,
                  mishaps>>
  BY DEF HostStands, host
<1>2. ~Dead /\ ~Dead' /\ (Foul' <=> Foul) /\ (InTurn' <=> InTurn) /\ (Codex' <=> Codex)
  BY <1>1 DEF SessionInv, GoneIsGone, Dead, Foul, InTurn, Codex
<1>3. stdout \in Seq(Messages) /\ task.n \in Nat
  BY DEF SessionInv, SessionTypeOK
<1>4. \A k \in Nat : Left(k)' => Left(k)
  BY <1>3, ToldGrows DEF Left
<1>5. SessionTypeOK'
  <2>1. stdout' \in Seq(Messages)
    BY <1>3
  <2>2. server' \in [at : {"none", "up", "code", "signal", "hung"},
                     queue : Seq(Entries), told : BOOLEAN]
    OBVIOUS
  <2> QED
    BY <1>1, <2>1, <2>2 DEF SessionInv, SessionTypeOK
<1>6. InOrder'
  <2>1. ended' \subseteq 1 .. task.n /\ (task.at \in {"init", "session", "mode"} =>
                                           task.n \notin ended')
    BY <1>3 DEF SessionInv, InOrder
  <2>2. \A i \in DOMAIN stdout' : Truthful(stdout'[i], ended')
    <3>1. \A i \in DOMAIN stdout : Truthful(stdout[i], ended')
      BY DEF SessionInv, InOrder, Truthful
    <3>2. \A i \in DOMAIN stdout' : \/ i \in DOMAIN stdout /\ stdout'[i] = stdout[i]
                                    \/ \E j \in DOMAIN out : stdout'[i] = out[j]
      BY <1>3, CatFacts
    <3> QED
      BY <3>1, <3>2
  <2>3. \A i \in DOMAIN stdout' :
          /\ stdout'[i].m = "ended" => stdout'[i].n \in ended'
          /\ \A k \in Turns : Closes(stdout[i], k)' /\ stdout'[i].reply.ok => k \in ended'
    BY <2>2 DEF Truthful, Closes, Answers
  <2>4. task'.at \in {"idle", "collect"} => task'.got = NoReply
    BY <1>1 DEF SessionInv, InOrder
  <2>5. overdue' \subseteq 1 .. task'.n /\ seen' \subseteq ended'
        /\ (task'.at # "idle" => task'.n > 0)
    BY <1>1 DEF SessionInv, InOrder
  <2>6. task.at \in {"init", "session", "mode"} => task.n \notin overdue /\ ~Left(task.n)
    BY DEF SessionInv, InOrder
  <2>7. \A k \in Nat : Left(k) => k \in 1 .. task.n
    BY DEF SessionInv, InOrder
  <2> QED
    BY <1>1, <1>3, <1>4, <2>1, <2>3, <2>4, <2>5, <2>6, <2>7 DEF InOrder
<1>7. NothingStale'
  BY <1>1, <1>2, <1>4 DEF SessionInv, NothingStale
<1>8. GoneIsGone'
  BY <1>1, <1>2 DEF SessionInv, GoneIsGone
<1>9. HandleKnows'
  BY <1>1, <1>2 DEF SessionInv, HandleKnows
<1>10. ResultsHold' /\ NoWaitIsVain'
  BY <1>1 DEF SessionInv, ResultsHold, OwnAnswer, NoWaitIsVain
<1>11. CourseHolds'
  BY <1>1, <1>2 DEF CourseHolds
<1>12. PromptAwaited'
  BY <1>1 DEF SessionInv, PromptAwaited, Await
<1> QED
  BY <1>5, <1>6, <1>7, <1>8, <1>9, <1>10, <1>11, <1>12 DEF SessionInv

(* The course of the awaited turn, while the server does something else.   *)
LEMMA OtherKeepsCourse ==
  ASSUME SessionInv, HostStands, InTurn, task.n \notin overdue, server.at = "up",
         NEW out \in Seq(Messages), stdout' = stdout \o out,
         \A j \in DOMAIN out : ~About(out[j], task.n),
         \A j \in DOMAIN out : IsNote(out[j]) => task.n \notin ended,
         stdin' \in Seq(Requests), NEW s \in {0, 1}, Len(stdin') = Len(stdin) - s,
         \A i \in DOMAIN stdin' : i + s \in DOMAIN stdin /\ stdin'[i] = stdin[i + s],
         NEW q \in {0, 1}, server'.queue \in Seq(Entries),
         ~Queued(task.n)' \/
           (/\ Len(server'.queue) = Len(server.queue) - q
            /\ \A i \in DOMAIN server'.queue :
                 i + q \in DOMAIN server.queue /\ server'.queue[i] = server.queue[i + q]),
         task.n \in ended' <=> task.n \in ended, Idling => Idling'
  PROVE  Course(task.n)'
<1>1. /\ UNCHANGED <<plan, pending, task, seen, joined>> /\ task.n \in Nat
      /\ stdout \in Seq(Messages) /\ stdin \in Seq(Requests)
      /\ server.queue \in Seq(Entries)
  BY DEF HostStands, host, SessionInv, SessionTypeOK
<1>2. Course(task.n)
  BY DEF SessionInv, CourseHolds, GoneIsGone
<1>3. (Await' <=> Await) /\ (Codex' <=> Codex) /\ (Acp' <=> Acp)
  BY <1>1 DEF Await, Codex, Acp
<1>4. /\ Requested(task.n)' => Requested(task.n)
      /\ Queued(task.n)' => Queued(task.n)
      /\ Told(task.n)' <=> Told(task.n)
  <2>1. Requested(task.n)' => Requested(task.n)
    BY <1>1, RequestsShift
  <2>2. Queued(task.n)' => Queued(task.n)
    BY <1>1 DEF Queued
  <2>3. Told(task.n)' <=> Told(task.n)
    BY <1>1, ToldGrows
  <2> QED
    BY <2>1, <2>2, <2>3
<1>5. \A i \in DOMAIN stdout' : \/ i \in DOMAIN stdout /\ stdout'[i] = stdout[i]
                                \/ ~About(stdout'[i], task.n)
                                   /\ (IsNote(stdout'[i]) => task.n \notin ended)
  BY <1>1, CatFacts
<1>6. \A i \in DOMAIN stdout : i \in DOMAIN stdout' /\ stdout'[i] = stdout[i]
  BY <1>1, CatFacts
<1>7. Asked(task.n)'
  <2>1. \A i, j \in DOMAIN stdin' :
          IsTurn(stdin'[i], task.n) /\ stdin'[j].what = "turn" => j <= i
    BY <1>1, <1>2, SMTT(30) DEF Course, Asked
  <2> QED
    BY <1>1, <1>2, <1>3, <1>4, <2>1 DEF Course, Asked, IsTurn
<1>8. Served(task.n)'
  <2> SUFFICES ASSUME NEW i \in DOMAIN server'.queue, server'.queue[i].n = task.n
               PROVE
    /\ i = Len(server'.queue) /\ (\A j \in DOMAIN stdin' : stdin'[j].what # "turn")
    /\ task.n \notin ended' /\ ~task.got.final
    /\ Acp => ~server'.queue[i].acked
    /\ ~server'.queue[i].acked =>
         Await /\ (\A j \in DOMAIN stdout' : ~Answers(stdout'[j], task.n)) /\ ~Codex
    /\ \A j \in DOMAIN stdout' : ~Closes(stdout'[j], task.n)
    /\ Codex /\ Await => \E j \in DOMAIN stdout' : Answers(stdout'[j], task.n)
    BY <1>1, <1>3 DEF Served, Answers, Closes
  <2>1. Queued(task.n)'
    BY <1>1 DEF Queued
  <2> DEFINE k == i + q
  <2>2. k \in DOMAIN server.queue /\ server'.queue[i] = server.queue[k]
        /\ Len(server'.queue) = Len(server.queue) - q
    BY <2>1
  <2> HIDE DEF k
  <2>3. /\ k = Len(server.queue) /\ (\A j \in DOMAIN stdin : stdin[j].what # "turn")
        /\ task.n \notin ended /\ ~task.got.final
        /\ Acp => ~server.queue[k].acked
        /\ ~server.queue[k].acked =>
             Await /\ (\A j \in DOMAIN stdout : ~Answers(stdout[j], task.n)) /\ ~Codex
        /\ \A j \in DOMAIN stdout : ~Closes(stdout[j], task.n)
        /\ Codex /\ Await => \E j \in DOMAIN stdout : Answers(stdout[j], task.n)
    BY <1>2, <2>2 DEF Course, Served
  <2>4. i = Len(server'.queue)
    <3>1. i \in Nat /\ q \in Nat
      BY <1>1
    <3>2. i + q = Len(server.queue) /\ Len(server'.queue) = Len(server.queue) - q
      BY <2>2, <2>3 DEF k
    <3>3. (i + q) - q = i
      BY <3>1
    <3>4. QED
      BY <3>2, <3>3
  <2>5. \A j \in DOMAIN stdin' : stdin'[j].what # "turn"
    BY <1>1, <2>3
  <2>6. \A j \in DOMAIN stdout' : Answers(stdout'[j], task.n) =>
                                    j \in DOMAIN stdout /\ stdout'[j] = stdout[j]
    BY <1>5 DEF About
  <2> QED
    BY <1>6, <2>2, <2>3, <2>4, <2>5, <2>6 DEF Closes
<1>9. Heard(task.n)'
  <2>1. \A i \in DOMAIN stdout : Closes(stdout[i], task.n) => ~Queued(task.n)'
    BY <1>2, <1>4 DEF Course, Heard
  <2>2. \A i \in DOMAIN stdout, j \in DOMAIN out : Follows(stdout[i], out[j], task.n)
    <3> SUFFICES ASSUME NEW i \in DOMAIN stdout, NEW j \in DOMAIN out
                 PROVE  Follows(stdout[i], out[j], task.n)
      OBVIOUS
    <3>1. Announces(stdout[i], task.n) => task.n \in ended
      BY DEF Announces, SessionInv, InOrder
    <3> QED
      BY <3>1 DEF Follows, About
  <2>3. \A i, j \in DOMAIN out : Follows(out[i], out[j], task.n)
    BY DEF Follows
  <2>4. \A j \in DOMAIN out : ~Closes(out[j], task.n) /\ ~Answers(out[j], task.n)
    BY DEF About, Closes
  <2> QED
    BY <1>1, <1>2, <2>1, <2>2, <2>3, <2>4, HeardGrows DEF Course
<1>10. Over(task.n)'
  <2>1. Left(task.n)' => Left(task.n)
    BY <1>4 DEF Left
  <2>2. task.n \in seen => task.n \in ended
    BY DEF SessionInv, InOrder
  <2>3. Idling \/ task.n \notin ended
    BY <1>2 DEF Course, Over
  <2>4. task.got.ok /\ task.got.final => task.n \in ended'
    BY <1>2 DEF Course, Over
  <2> QED
    BY <1>1, <1>2, <1>3, <1>5, <2>1, <2>2, <2>3, <2>4 DEF Course, Over, IsNote
<1> QED
  BY <1>7, <1>8, <1>9, <1>10 DEF Course

(* The replies to what is not a prompt.                                    *)
LEMMA AsideAnswered ==
  ASSUME SessionInv, server.at = "up", HostStands, stdin # <<>>, stdin' = Tail(stdin),
         UNCHANGED <<server, ended>>,
         NEW out \in Seq(Messages), stdout' = stdout \o out,
         \A j \in DOMAIN out : Neutral(out[j])
  PROVE  SessionInv'
<1>1. stdin \in Seq(Requests) /\ server.queue \in Seq(Entries) /\ task.n \in Nat
      /\ server \in [at : {"up"}, queue : Seq(Entries), told : BOOLEAN]
  BY DEF SessionInv, SessionTypeOK
<1>2. /\ stdin' \in Seq(Requests) /\ Len(stdin') = Len(stdin) - 1
      /\ \A i \in DOMAIN stdin' : i + 1 \in DOMAIN stdin /\ stdin'[i] = stdin[i + 1]
  BY <1>1, TailFacts
<1>3. \A k \in Nat : (Requested(k)' => Left(k)) /\ (Queued(k)' => Left(k))
  BY <1>1, <1>2, 1 \in {0, 1}, RequestsShift DEF Left, Queued
<1>4. \A j \in DOMAIN out : /\ \A k \in Nat : ~About(out[j], k)
                            /\ ~IsNote(out[j]) /\ Truthful(out[j], ended')
  BY DEF Neutral, About, Truthful, Closes, IsNote, Turns
<1>5. Idling => Idling'
  BY <1>1, <1>2 DEF Idling
<1>6. ASSUME InTurn, task.n \notin overdue PROVE Course(task.n)'
  <2>1. /\ Len(server'.queue) = Len(server.queue) - 0
        /\ \A i \in DOMAIN server'.queue :
             i + 0 \in DOMAIN server.queue /\ server'.queue[i] = server.queue[i + 0]
    BY <1>1
  <2> QED
    BY <1>1, <1>2, <1>4, <1>5, <1>6, <2>1, 0 \in {0, 1}, 1 \in {0, 1}, OtherKeepsCourse
<1>7. \A k \in ended' : k \in ended
  OBVIOUS
<1> QED
  BY <1>1, <1>2, <1>3, <1>4, <1>6, <1>7, ServerKeeps

LEMMA SetupAnswered ==
  ASSUME SessionInv, server.at = "up", HostStands, stdin # <<>>, stdin' = Tail(stdin),
         Setup(Head(stdin), <<Head(stdin).what, Head(stdin).n>>)
  PROVE  SessionInv'
<1> DEFINE r == Head(stdin)
           id == <<r.what, r.n>>
           opened == [m |-> "opened", n |-> 0, how |-> "none"]
           yes == [m |-> "reply", id |-> id, reply |-> Accept]
           no == [m |-> "reply", id |-> id, reply |-> Refusal]
<1>1. r \in Requests
  BY TailFacts DEF SessionInv, SessionTypeOK
<1>2. r.what \in {"init", "session", "mode"} /\ UNCHANGED <<server, ended>>
  BY DEF Setup
<1>3. id \in Ids /\ id[1] # "turn"
  BY <1>1, <1>2 DEF Requests, Ids
<1>4. \/ stdout' = stdout \o (<<opened>> \o <<yes>>)
      \/ stdout' = stdout \o <<yes>>
      \/ stdout' = stdout \o <<no>>
  <2>1. <<>> \o <<yes>> = <<yes>>
    OBVIOUS
  <2>2. \/ \E c \in BOOLEAN : stdout' = stdout \o ((IF c THEN <<opened>> ELSE <<>>) \o <<yes>>)
        \/ stdout' = stdout \o <<no>>
    BY DEF Setup, Writes, Reply, Note
  <2> HIDE DEF opened, yes, no
  <2> QED
    BY <2>1, <2>2
<1> HIDE DEF r, id
<1>5. /\ opened \in Messages /\ yes \in Messages /\ no \in Messages
      /\ Neutral(opened) /\ Neutral(yes) /\ Neutral(no)
  <2>1. Accept \in Replies \ {NoReply} /\ Refusal \in Replies \ {NoReply}
    BY DEF Replies, Accept, Refusal, NoReply
  <2>2. opened \in Messages
    BY DEF Messages, Hows
  <2>3. yes \in Messages /\ no \in Messages
    BY <1>3, <2>1 DEF Messages
  <2> QED
    BY <1>3, <2>2, <2>3 DEF Neutral, IsNote, Answers
<1> HIDE DEF opened, yes, no
<1>6. /\ <<yes>> \in Seq(Messages) /\ \A j \in DOMAIN <<yes>> : Neutral(<<yes>>[j])
      /\ <<no>> \in Seq(Messages) /\ \A j \in DOMAIN <<no>> : Neutral(<<no>>[j])
      /\ <<opened>> \in Seq(Messages)
      /\ \A j \in DOMAIN <<opened>> : Neutral(<<opened>>[j])
  BY <1>5
<1>7. <<opened>> \o <<yes>> \in Seq(Messages)
      /\ \A j \in DOMAIN (<<opened>> \o <<yes>>) : Neutral((<<opened>> \o <<yes>>)[j])
  BY <1>6, CatFacts
<1>8. CASE stdout' = stdout \o (<<opened>> \o <<yes>>)
  BY <1>2, <1>7, <1>8, AsideAnswered
<1>9. CASE stdout' = stdout \o <<yes>>
  BY <1>2, <1>6, <1>9, AsideAnswered
<1>10. CASE stdout' = stdout \o <<no>>
  BY <1>2, <1>6, <1>10, AsideAnswered
<1> QED
  BY <1>4, <1>8, <1>9, <1>10

LEMMA CallAnswered ==
  ASSUME NEW r \in Requests, r.what \in {"steer", "interrupt"},
         NEW reply \in {Accept, Refusal}
  PROVE  /\ Reply(r.id, reply) \in Seq(Messages)
         /\ \A j \in DOMAIN Reply(r.id, reply) : Neutral(Reply(r.id, reply)[j])
<1>1. r.id \in {"call"} \X Nat
  BY DEF Requests
<1>2. r.id \in Ids /\ r.id[1] # "turn"
  BY <1>1 DEF Ids
<1>3. reply \in Replies \ {NoReply}
  <2>1. Accept # NoReply /\ Refusal # NoReply
    BY DEF Accept, Refusal, NoReply
  <2> QED
    BY <2>1 DEF Replies
<1> DEFINE m == [m |-> "reply", id |-> r.id, reply |-> reply]
<1>4. m \in Messages
  BY <1>2, <1>3 DEF Messages
<1>5. Neutral(m)
  BY <1>2 DEF Neutral, IsNote, Answers
<1> QED
  BY <1>4, <1>5 DEF Reply

LEMMA SteerAnswered ==
  ASSUME SessionInv, server.at = "up", HostStands, stdin # <<>>, stdin' = Tail(stdin),
         Steer(Head(stdin))
  PROVE  SessionInv'
<1> DEFINE reply == IF Running = Head(stdin).n THEN Accept ELSE Refusal
<1>1. Head(stdin) \in Requests
  BY TailFacts DEF SessionInv, SessionTypeOK
<1>2. /\ stdout' = stdout \o Reply(Head(stdin).id, reply) /\ UNCHANGED <<server, ended>>
      /\ Head(stdin).what \in {"steer", "interrupt"} /\ reply \in {Accept, Refusal}
  BY DEF Steer, Writes
<1> HIDE DEF reply
<1> QED
  BY <1>1, <1>2, CallAnswered, AsideAnswered

(* A prompt is taken, or refused.                                          *)
LEMMA TurnTaken ==
  ASSUME SessionInv, server.at = "up", HostStands, stdin # <<>>, stdin' = Tail(stdin),
         TakeTurn(Head(stdin), <<Head(stdin).what, Head(stdin).n>>), NEW n, n = task.n
  PROVE  SessionInv'
<1> DEFINE k == Head(stdin).n
<1>1. /\ stdin \in Seq(Requests) /\ stdout \in Seq(Messages) /\ n \in Nat
      /\ server.queue \in Seq(Entries)
      /\ server \in [at : {"up"}, queue : Seq(Entries), told : BOOLEAN]
  BY DEF SessionInv, SessionTypeOK
<1>2. /\ stdin' \in Seq(Requests) /\ Len(stdin') = Len(stdin) - 1
      /\ \A i \in DOMAIN stdin' : i + 1 \in DOMAIN stdin /\ stdin'[i] = stdin[i + 1]
      /\ Head(stdin) \in Requests /\ 1 \in DOMAIN stdin /\ stdin[1] = Head(stdin)
  BY <1>1, TailFacts
<1>3. IsTurn(stdin[1], k) /\ k \in Nat /\ UNCHANGED ended
  BY <1>2 DEF TakeTurn, IsTurn, Requests
<1>4. Left(k) /\ k \in Turns
  <2>1. Left(k)
    BY <1>2, <1>3 DEF Left, Requested
  <2> QED
    BY <1>3, <2>1, PlansAssumption, SMTT(30) DEF SessionInv, InOrder, SessionTypeOK, Turns
<1> DEFINE yes == [m |-> "reply", id |-> <<"turn", k>>, reply |-> Accept]
           no == [m |-> "reply", id |-> <<"turn", k>>, reply |-> Refusal]
           e(a) == [n |-> k, acked |-> a]
<1>5. \/ server' = server /\ stdout' = stdout \o <<no>>
      \/ \E a \in BOOLEAN :
           /\ Codex => a
           /\ Acp /\ ~Codex => ~a
           /\ server' = [server EXCEPT !.queue = Append(@, e(a))]
           /\ stdout' = stdout \o (IF a THEN <<yes>> ELSE <<>>)
  BY <1>3 DEF TakeTurn, Writes, Reply, IsTurn
<1>6. /\ yes \in Messages /\ no \in Messages
      /\ ~IsNote(yes) /\ ~IsNote(no)
      /\ \A x \in Nat : (Answers(yes, x) => x = k) /\ (Answers(no, x) => x = k)
      /\ Answers(yes, k) /\ Answers(no, k) /\ ~Closes(yes, k)
      /\ ~yes.reply.final /\ ~no.reply.ok /\ yes.m = "reply" /\ no.m = "reply"
  <2>1. Accept \in Replies \ {NoReply} /\ Refusal \in Replies \ {NoReply}
        /\ <<"turn", k>> \in Ids
    BY <1>3 DEF Replies, Accept, Refusal, NoReply, Ids
  <2>2. yes \in Messages /\ no \in Messages
    BY <2>1 DEF Messages
  <2> QED
    BY <2>2 DEF IsNote, Answers, Closes, Accept, Refusal
<1> HIDE DEF k, yes, no
<1>7. PICK out \in {<<yes>>, <<no>>, <<>>} :
        /\ stdout' = stdout \o out
        /\ \/ out = <<no>> /\ server' = server
           \/ \E a \in BOOLEAN :
                /\ Codex => a
                /\ Acp /\ ~Codex => ~a
                /\ server' = [server EXCEPT !.queue = Append(@, e(a))]
                /\ out = IF a THEN <<yes>> ELSE <<>>
  BY <1>5
<1>8. /\ out \in Seq(Messages) /\ Len(out) <= 1
      /\ \A j \in DOMAIN out : /\ j = 1 /\ out[j] \in {yes, no}
                               /\ out[j] = no => server' = server
                               /\ ~IsNote(out[j]) /\ Truthful(out[j], ended')
                               /\ \A x \in Nat : About(out[j], x) => x = k
  <2>1. out \in Seq(Messages) /\ Len(out) <= 1
        /\ \A j \in DOMAIN out : j = 1 /\ out[j] \in {yes, no}
    <3>1. CASE out = <<yes>>
      BY <1>6, <3>1
    <3>2. CASE out = <<no>>
      BY <1>6, <3>2
    <3>3. CASE out = <<>>
      BY <3>3
    <3> QED
      BY <1>7, <3>1, <3>2, <3>3
  <2>2. yes # no
    BY <1>6 DEF yes, no, Accept, Refusal
  <2>3. ASSUME NEW j \in DOMAIN out, out[j] = no PROVE server' = server
    <3>1. out # <<yes>> /\ out # <<>>
      BY <2>1, <2>2, <2>3
    <3> QED
      BY <1>7, <3>1
  <2>4. ASSUME NEW j \in DOMAIN out
        PROVE  /\ ~IsNote(out[j]) /\ Truthful(out[j], ended')
               /\ \A x \in Nat : About(out[j], x) => x = k
    BY <1>6, <2>1, <2>4 DEF About, Truthful, Closes, Turns
  <2> QED
    BY <2>1, <2>3, <2>4
<1>9. \/ server' = server
      \/ \E a \in BOOLEAN :
           /\ server' = [server EXCEPT !.queue = Append(@, e(a))]
           /\ e(a) \in Entries /\ e(a).n = k /\ e(a).acked = a
           /\ Codex => a
           /\ Acp => ~a
           /\ out = IF a THEN <<yes>> ELSE <<>>
  BY <1>4, <1>7 DEF Entries, Codex, Acp
<1> HIDE DEF e
<1>10. /\ server' \in [at : {"up"}, queue : Seq(Entries), told : BOOLEAN]
       /\ Queued(n)' => Queued(n) \/ n = k
       /\ \A x \in Nat : Queued(x)' => Queued(x) \/ x = k
  <2>1. CASE server' = server
    BY <1>1, <2>1 DEF Queued
  <2>2. CASE server' # server
    <3>1. PICK a \in BOOLEAN : /\ server' = [server EXCEPT !.queue = Append(@, e(a))]
                               /\ e(a) \in Entries /\ e(a).n = k
      BY <1>9, <2>2
    <3>2. server'.queue = Append(server.queue, e(a)) /\ server'.queue \in Seq(Entries)
      BY <1>1, <3>1
    <3>3. \A i \in DOMAIN server'.queue :
             \/ i \in DOMAIN server.queue /\ server'.queue[i] = server.queue[i]
             \/ server'.queue[i] = e(a)
      BY <1>1, <3>1, <3>2, AppendFacts
    <3>4. \A x \in Nat : Queued(x)' => Queued(x) \/ x = k
      BY <3>1, <3>3 DEF Queued
    <3> QED
      BY <1>1, <3>1, <3>2, <3>4
  <2> QED
    BY <2>1, <2>2
<1>11. ASSUME InTurn, task.n \notin overdue PROVE Course(task.n)'
  <2>1. Course(n)
    BY <1>11 DEF SessionInv, CourseHolds, GoneIsGone
  <2>2. ~Idling /\ n \notin ended /\ n \notin seen /\ ~Queued(n)
    BY <1>1, <1>2, <1>3, <2>1
       DEF Course, Over, Served, Idling, Queued, IsTurn, SessionInv, InOrder
  <2>3. CASE k # n
    <3>1. ~Queued(task.n)'
      BY <1>10, <2>2, <2>3 DEF Queued, HostStands, host
    <3>2. \A j \in DOMAIN out : ~About(out[j], n) /\ (IsNote(out[j]) => n \notin ended)
      BY <1>1, <1>8, <2>3
    <3> QED
      BY <1>1, <1>2, <1>3, <1>7, <1>8, <1>10, <1>11, <2>2, <3>1, <3>2,
         0 \in {0, 1}, 1 \in {0, 1}, OtherKeepsCourse
  <2>4. CASE k = n
    <3>1. Requested(n) /\ Await /\ ~Told(n)
      BY <1>2, <1>3, <2>1, <2>4 DEF Requested, Course, Asked
    <3>2. \A j \in DOMAIN stdin : stdin[j].what = "turn" => j <= 1
      BY <1>2, <1>3, <2>1, <2>4 DEF Course, Asked
    <3>3. \A j \in DOMAIN stdin' : stdin'[j].what # "turn"
      BY <1>1, <1>2, <3>2
    <3>4. Await' /\ ~task.got.final /\ ~task.got.ok /\ task' = task /\ pending' = pending
          /\ seen' = seen /\ (Codex' <=> Codex) /\ (Acp' <=> Acp)
      BY <3>1 DEF HostStands, host, Await, NoReply, Codex, Acp
    <3>5. ~Requested(n)'
      BY <3>3 DEF Requested, IsTurn
    <3>6. Asked(n)'
      BY <2>1, <3>1, <3>3, <3>4, <3>5 DEF Course, Asked, IsTurn
    <3>7. \A i \in DOMAIN stdout : ~About(stdout[i], n)
      BY <3>1 DEF Told
    <3>8. \A i \in DOMAIN stdout' : About(stdout'[i], n) =>
             \E j \in DOMAIN out : i = Len(stdout) + j /\ stdout'[i] = out[j]
      BY <1>1, <1>7, <1>8, <3>7, CatFacts
    <3>9. \A j \in DOMAIN out : Len(stdout) + j \in DOMAIN stdout'
                                /\ stdout'[Len(stdout) + j] = out[j]
      BY <1>1, <1>7, <1>8, CatFacts
    <3>10. Served(n)'
      <4>1. CASE server' = server
        BY <2>2, <4>1 DEF Served, Queued
      <4>2. CASE server' # server
        <5>1. PICK a \in BOOLEAN : /\ server' = [server EXCEPT !.queue = Append(@, e(a))]
                                   /\ e(a) \in Entries /\ e(a).n = k /\ e(a).acked = a
                                   /\ Codex => a
                                   /\ Acp => ~a
                                   /\ out = IF a THEN <<yes>> ELSE <<>>
          BY <1>9, <4>2
        <5>2. server'.queue = Append(server.queue, e(a))
          BY <1>1, <5>1
        <5>3. \A i \in DOMAIN server'.queue : server'.queue[i].n = n =>
                 i = Len(server'.queue) /\ server'.queue[i] = e(a)
          BY <1>1, <2>2, <5>1, <5>2, AppendFacts DEF Queued
        <5>4. \A j \in DOMAIN stdout' : Answers(stdout'[j], n) => a /\ stdout'[j] = yes
          BY <3>8, <5>1 DEF About
        <5>5. \A j \in DOMAIN stdout' : ~Closes(stdout'[j], n)
          BY <5>4, <1>6 DEF Closes
        <5>6. a => \E j \in DOMAIN stdout' : Answers(stdout'[j], n)
          <6> SUFFICES ASSUME a PROVE \E j \in DOMAIN stdout' : Answers(stdout'[j], n)
            OBVIOUS
          <6>1. 1 \in DOMAIN out /\ out[1] = yes
            BY <5>1
          <6> QED
            BY <1>6, <2>4, <3>9, <6>1
        <5> QED
          BY <1>3, <2>2, <3>1, <3>3, <3>4, <5>1, <5>3, <5>4, <5>5, <5>6
             DEF Served, Closes, Answers
      <4> QED
        BY <4>1, <4>2
    <3>11. Heard(n)'
      <4>1. \A j \in DOMAIN out : Answers(out[j], n)
        BY <1>6, <1>8, <2>4
      <4>2. \A j \in DOMAIN out : Closes(out[j], n) => ~Queued(n)'
        <5> SUFFICES ASSUME NEW j \in DOMAIN out, Closes(out[j], n) PROVE ~Queued(n)'
          OBVIOUS
        <5>1. out[j] = no
          BY <1>6, <1>8 DEF Closes
        <5> QED
          BY <1>8, <2>2, <5>1 DEF Queued
      <4>3. \A i \in DOMAIN stdout, j \in DOMAIN out : Follows(stdout[i], out[j], n)
        BY <3>7 DEF Follows
      <4>4. \A i \in DOMAIN stdout : ~Closes(stdout[i], n)
        BY <3>7 DEF About, Closes
      <4>5. UNCHANGED <<plan, task>>
        BY DEF HostStands, host
      <4>6. \A i, j \in DOMAIN out : ~(i < j)
        BY <1>8
      <4> QED
        BY <1>1, <1>7, <1>8, <2>1, <3>1, <4>1, <4>2, <4>3, <4>4, <4>5, <4>6, HeardGrows
           DEF Course
    <3>12. Over(n)'
      BY <1>3, <2>2, <3>4 DEF Over
    <3>13. Course(n)' /\ n = task'.n
      BY <3>4, <3>6, <3>10, <3>11, <3>12 DEF Course
    <3> QED
      BY <3>13
  <2> QED
    BY <2>3, <2>4
<1>12. \A x \in Nat : /\ Requested(x)' => Left(x)
                      /\ Queued(x)' => Left(x)
                      /\ \A j \in DOMAIN out : About(out[j], x) => Left(x)
  <2>1. \A x \in Nat : Requested(x)' => Left(x)
    BY <1>1, <1>2, 1 \in {0, 1}, RequestsShift DEF Left
  <2> QED
    BY <1>4, <1>8, <1>10, <2>1 DEF Left
<1>13. \A x \in ended' : x \in ended
  BY <1>3
<1> QED
  BY <1>2, <1>3, <1>7, <1>8, <1>10, <1>11, <1>12, <1>13, ServerKeeps

LEMMA RunningLeft ==
  ASSUME SessionInv, Running # 0
  PROVE  /\ server.queue # <<>> /\ Head(server.queue) \in Entries
         /\ 1 \in DOMAIN server.queue /\ Head(server.queue) = server.queue[1]
         /\ server.queue[1].n = Running /\ Running \in Turns /\ Left(Running)
         /\ server.queue \in Seq(Entries) /\ ~Idling
<1>1. server.queue # <<>> /\ server.queue \in Seq(Entries)
  BY DEF Running, SessionInv, SessionTypeOK
<1>2. /\ Head(server.queue) \in Entries /\ 1 \in DOMAIN server.queue
      /\ Head(server.queue) = server.queue[1]
  BY <1>1, TailFacts
<1>3. server.queue[1].n = Running /\ Running \in Turns
  BY <1>1, <1>2 DEF Running, Entries
<1> QED
  BY <1>1, <1>2, <1>3 DEF Left, Queued, Idling

(* A turn speaks.                                                          *)
LEMMA TurnSpeaks ==
  ASSUME SessionInv, server.at = "up", HostStands, stdin' = stdin, Running # 0,
         server' = [server EXCEPT !.told = TRUE], ended' = ended,
         NEW out \in Seq(Messages), stdout' = stdout \o out,
         \A j \in DOMAIN out : out[j].m \in {"started", "text"} /\ out[j].n = Running,
         NEW n, n = task.n
  PROVE  SessionInv'
<1>1. /\ stdin \in Seq(Requests) /\ stdout \in Seq(Messages) /\ n \in Nat
      /\ server.queue \in Seq(Entries) /\ server'.queue = server.queue
      /\ server' \in [at : {"up"}, queue : Seq(Entries), told : BOOLEAN]
  <2>1. /\ stdin \in Seq(Requests) /\ stdout \in Seq(Messages) /\ task.n \in Nat
        /\ server \in [at : {"up"}, queue : Seq(Entries), told : BOOLEAN]
    BY DEF SessionInv, SessionTypeOK
  <2> QED
    BY <2>1
<1>2. /\ 1 \in DOMAIN server.queue /\ server.queue[1].n = Running /\ Running \in Turns
      /\ Left(Running) /\ ~Idling
  BY RunningLeft
<1>3. \A k \in Nat : (Requested(k)' <=> Requested(k)) /\ (Queued(k)' <=> Queued(k))
  BY <1>1 DEF Requested, Queued
<1>4. \A j \in DOMAIN out : /\ ~Announces(out[j], n) /\ Truthful(out[j], ended')
                            /\ \A k \in Nat : /\ ~Answers(out[j], k) /\ ~Closes(out[j], k)
                                              /\ About(out[j], k) => k = Running
  BY DEF About, Answers, Closes, Announces, Truthful, Turns
<1>5. Idling' <=> Idling
  BY <1>1 DEF Idling
<1>6. ASSUME InTurn, task.n \notin overdue PROVE Course(task.n)'
  <2>1. Course(n) /\ n \notin ended
    BY <1>2, <1>6 DEF SessionInv, CourseHolds, GoneIsGone, Course, Over
  <2>2. CASE Running # n
    <3>1. /\ Len(server'.queue) = Len(server.queue) - 0
          /\ \A i \in DOMAIN server'.queue :
               i + 0 \in DOMAIN server.queue /\ server'.queue[i] = server.queue[i + 0]
      BY <1>1
    <3>2. /\ Len(stdin') = Len(stdin) - 0
          /\ \A i \in DOMAIN stdin' : i + 0 \in DOMAIN stdin /\ stdin'[i] = stdin[i + 0]
      BY <1>1
    <3>3. \A j \in DOMAIN out : ~About(out[j], task.n)
      BY <1>1, <1>4, <2>2
    <3>4. task.n \in ended' <=> task.n \in ended
      OBVIOUS
    <3> QED
      BY <1>1, <1>5, <1>6, <2>1, <3>1, <3>2, <3>3, <3>4, 0 \in {0, 1}, OtherKeepsCourse
  <2>3. CASE Running = n
    <3>1. /\ \A i \in DOMAIN stdout : ~Closes(stdout[i], n)
          /\ Codex /\ Await => \E i \in DOMAIN stdout : Answers(stdout[i], n)
          /\ \A j \in DOMAIN stdin : stdin[j].what # "turn"
          /\ n \notin seen /\ ~task.got.final
      BY <1>2, <2>1, <2>3 DEF Course, Served, SessionInv, InOrder
    <3>2. /\ (Await' <=> Await) /\ (Codex' <=> Codex) /\ (Acp' <=> Acp)
          /\ UNCHANGED <<plan, task, pending, seen>>
      BY DEF HostStands, host, Await, Codex, Acp
    <3>3. \A i \in DOMAIN stdout : ~Announces(stdout[i], n)
      BY <2>1 DEF Announces, SessionInv, InOrder
    <3>4. \A i \in DOMAIN stdout' : Answers(stdout'[i], n) =>
             i \in DOMAIN stdout /\ stdout'[i] = stdout[i]
      BY <1>1, <1>4, CatFacts
    <3>5. \A i \in DOMAIN stdout : i \in DOMAIN stdout' /\ stdout'[i] = stdout[i]
      BY <1>1, CatFacts
    <3>6. ~Requested(n)
      BY <3>1 DEF Requested, IsTurn
    <3>7. Asked(n)'
      BY <1>1, <1>3, <2>1, <3>2, <3>6 DEF Course, Asked, IsTurn
    <3>8. Served(n)'
      <4> SUFFICES ASSUME NEW i \in DOMAIN server'.queue, server'.queue[i].n = n
                   PROVE
        /\ i = Len(server'.queue) /\ (\A j \in DOMAIN stdin' : stdin'[j].what # "turn")
        /\ n \notin ended' /\ ~task.got.final
        /\ Acp => ~server'.queue[i].acked
        /\ ~server'.queue[i].acked =>
             Await /\ (\A j \in DOMAIN stdout' : ~Answers(stdout'[j], n)) /\ ~Codex
        /\ \A j \in DOMAIN stdout' : ~Closes(stdout'[j], n)
        /\ Codex /\ Await => \E j \in DOMAIN stdout' : Answers(stdout'[j], n)
        BY <3>2 DEF Served, Answers, Closes
      <4>1. /\ i = Len(server.queue)
            /\ Acp => ~server.queue[i].acked
            /\ ~server.queue[i].acked =>
                 Await /\ (\A j \in DOMAIN stdout : ~Answers(stdout[j], n)) /\ ~Codex
        BY <1>1, <2>1 DEF Course, Served
      <4>2. \A j \in DOMAIN stdout' : ~Closes(stdout'[j], n)
        BY <3>1, <3>4 DEF Closes
      <4>3. Codex /\ Await => \E j \in DOMAIN stdout' : Answers(stdout'[j], n)
        BY <3>1, <3>5
      <4> QED
        BY <1>1, <2>1, <3>1, <3>4, <4>1, <4>2, <4>3
    <3>9. Heard(n)'
      <4>1. \A i \in DOMAIN stdout, j \in DOMAIN out : Follows(stdout[i], out[j], n)
        BY <1>1, <1>4, <3>1, <3>3 DEF Follows
      <4>2. \A i, j \in DOMAIN out : Follows(out[i], out[j], n)
        BY <1>1, <1>4 DEF Follows
      <4> QED
        BY <1>1, <1>4, <2>1, <3>1, <3>2, <4>1, <4>2, HeardGrows DEF Course
    <3>10. Over(n)'
      BY <2>1, <3>1, <3>2 DEF Over
    <3>11. Course(n)' /\ n = task'.n
      BY <3>2, <3>7, <3>8, <3>9, <3>10 DEF Course
    <3> QED
      BY <3>11
  <2> QED
    BY <2>2, <2>3
<1>7. \A k \in Nat : \A j \in DOMAIN out : About(out[j], k) => Left(k)
  BY <1>2, <1>4
<1>8. \A k \in ended' : k \in ended
  OBVIOUS
<1> QED
  BY <1>1, <1>3, <1>4, <1>6, <1>7, <1>8, ServerKeeps DEF Left

(* A turn ends.                                                            *)
IsEnd(m, q)  == m.m = "ended" /\ m.n = q.n
IsLast(m, q) == /\ m.m = "reply" /\ m.id = <<"turn", q.n>> /\ m.reply.final
                /\ ~Codex /\ (Acp \/ ~q.acked)

LEMMA EndShape ==
  ASSUME NEW q \in Entries, NEW how \in Hows, NEW out \in End(q, how)
  PROVE  /\ out \in Seq(Messages)
         /\ \A j \in DOMAIN out : IsEnd(out[j], q) \/ IsLast(out[j], q)
         /\ \A i, j \in DOMAIN out : i < j => IsEnd(out[i], q) /\ IsLast(out[j], q)
<1> DEFINE note == [m |-> "ended", n |-> q.n, how |-> how]
           reply == [ok |-> how # "failed", final |-> TRUE, how |-> how]
           last == [m |-> "reply", id |-> <<"turn", q.n>>, reply |-> reply]
<1>1. q.n \in Nat
  BY DEF Entries, Turns
<1>2. note \in Messages /\ IsEnd(note, q)
  BY <1>1 DEF Messages, IsEnd
<1>3. last \in Messages /\ (~Codex /\ (Acp \/ ~q.acked) => IsLast(last, q))
  <2>1. reply \in Replies /\ reply # NoReply
    BY DEF Replies, NoReply
  <2>2. <<"turn", q.n>> \in Ids
    BY <1>1 DEF Ids
  <2> QED
    BY <2>1, <2>2 DEF Messages, IsLast
<1>4. \/ out = <<note>>
      \/ ~Codex /\ (Acp \/ ~q.acked) /\ (out = <<last>> \/ out = <<note>> \o <<last>>)
  BY DEF End, Note, Reply
<1> HIDE DEF note, last
<1>5. CASE out = <<note>>
  BY <1>2, <1>5
<1>6. CASE ~Codex /\ (Acp \/ ~q.acked) /\ out = <<last>>
  BY <1>3, <1>6
<1>7. CASE ~Codex /\ (Acp \/ ~q.acked) /\ out = <<note>> \o <<last>>
  <2>1. <<note>> \in Seq(Messages) /\ <<last>> \in Seq(Messages)
        /\ Len(<<note>>) = 1 /\ Len(<<last>>) = 1 /\ <<note>>[1] = note /\ <<last>>[1] = last
        /\ DOMAIN <<note>> = {1} /\ DOMAIN <<last>> = {1}
    BY <1>2, <1>3
  <2>2. out \in Seq(Messages) /\ DOMAIN out = 1 .. 2 /\ out[1] = note /\ out[2] = last
    <3>1. out \in Seq(Messages) /\ DOMAIN out = 1 .. 1 + 1
      BY <1>7, <2>1, CatFacts
    <3>2. out[1] = <<note>>[1] /\ out[1 + 1] = <<last>>[1]
      BY <1>7, <2>1, CatFacts
    <3> QED
      BY <2>1, <3>1, <3>2
  <2>3. \A j \in DOMAIN out : j = 1 \/ j = 2
    BY <2>2
  <2>4. \A i, j \in DOMAIN out : i < j => i = 1 /\ j = 2
    BY <2>2, <2>3
  <2>5. IsEnd(out[1], q) /\ IsLast(out[2], q)
    BY <1>2, <1>3, <1>7, <2>2
  <2> QED
    BY <2>2, <2>3, <2>4, <2>5
<1> QED
  BY <1>4, <1>5, <1>6, <1>7

LEMMA TurnOver ==
  ASSUME SessionInv, server.at = "up", HostStands, Running # 0,
         NEW how \in Hows, NEW before \in Seq(Messages),
         \A j \in DOMAIN before : Neutral(before[j]), Ends(how, before),
         stdin' \in Seq(Requests), NEW s \in {0, 1}, Len(stdin') = Len(stdin) - s,
         \A i \in DOMAIN stdin' : i + s \in DOMAIN stdin /\ stdin'[i] = stdin[i + s],
         NEW n, n = task.n
  PROVE  SessionInv'
<1> DEFINE q == Head(server.queue)
           k == Running
<1>1. /\ stdin \in Seq(Requests) /\ stdout \in Seq(Messages) /\ n \in Nat
      /\ server \in [at : {"up"}, queue : Seq(Entries), told : BOOLEAN]
  BY DEF SessionInv, SessionTypeOK
<1>2. /\ server.queue # <<>> /\ q \in Entries /\ server.queue \in Seq(Entries)
      /\ 1 \in DOMAIN server.queue /\ q = server.queue[1]
      /\ q.n = k /\ k \in Turns /\ k \in Nat /\ Left(k) /\ ~Idling
  BY RunningLeft DEF Turns
<1>3. PICK e \in End(q, how) : stdout' = stdout \o (before \o e)
  BY DEF Ends, Writes
<1> DEFINE out == before \o e
<1>4. /\ server' = [server EXCEPT !.queue = Tail(@), !.told = FALSE]
      /\ ended' = ended \cup {k}
  BY DEF Ends
<1>5. /\ e \in Seq(Messages)
      /\ \A j \in DOMAIN e : IsEnd(e[j], q) \/ IsLast(e[j], q)
      /\ \A i, j \in DOMAIN e : i < j => IsEnd(e[i], q) /\ IsLast(e[j], q)
  BY <1>2, EndShape
<1> HIDE DEF k, q
<1>6. /\ out \in Seq(Messages)
      /\ \A j \in DOMAIN out : Neutral(out[j]) \/ IsEnd(out[j], q) \/ IsLast(out[j], q)
      /\ \A i, j \in DOMAIN out : i < j => Neutral(out[i]) \/ Neutral(out[j])
                                    \/ (IsEnd(out[i], q) /\ IsLast(out[j], q))
  <2>1. /\ out \in Seq(Messages) /\ Len(before) \in Nat /\ Len(e) \in Nat
        /\ DOMAIN out = 1 .. Len(before) + Len(e)
    BY <1>5, CatFacts
  <2>2. \A i \in DOMAIN out : \/ i \in DOMAIN before /\ out[i] = before[i]
                              \/ /\ i > Len(before) /\ i - Len(before) \in DOMAIN e
                                 /\ out[i] = e[i - Len(before)]
    BY <1>5, CatFacts
  <2> HIDE DEF out
  <2>3. ASSUME NEW i \in DOMAIN out, NEW j \in DOMAIN out, i < j,
               ~Neutral(out[i]), ~Neutral(out[j])
        PROVE  IsEnd(out[i], q) /\ IsLast(out[j], q)
    <3>1. /\ i - Len(before) \in DOMAIN e /\ out[i] = e[i - Len(before)]
          /\ j - Len(before) \in DOMAIN e /\ out[j] = e[j - Len(before)]
      BY <2>2, <2>3
    <3>2. i - Len(before) < j - Len(before)
      BY <2>1, <2>3
    <3> QED
      BY <1>5, <3>1, <3>2
  <2> QED
    BY <1>5, <2>1, <2>2, <2>3
<1>7. stdout' = stdout \o out
  BY <1>3
<1> HIDE DEF out
<1>8. \A j \in DOMAIN out :
        /\ \A x \in Nat : About(out[j], x) => x = k
        /\ \A x \in Nat : Answers(out[j], x) \/ Closes(out[j], x) => IsLast(out[j], q)
        /\ IsNote(out[j]) => IsEnd(out[j], q)
        /\ Truthful(out[j], ended')
  <2> TAKE j \in DOMAIN out
  <2>1. CASE Neutral(out[j])
    BY <2>1 DEF Neutral, About, IsNote, Closes, Truthful, Turns
  <2>2. CASE IsEnd(out[j], q)
    BY <1>2, <1>4, <2>2 DEF IsEnd, About, IsNote, Closes, Answers, Truthful
  <2>3. CASE IsLast(out[j], q)
    BY <1>2, <1>4, <2>3 DEF IsLast, About, IsNote, Closes, Answers, Truthful, Turns
  <2> QED
    BY <1>6, <2>1, <2>2, <2>3
<1>9. /\ server'.queue = Tail(server.queue) /\ server'.queue \in Seq(Entries)
      /\ Len(server'.queue) = Len(server.queue) - 1
      /\ \A i \in DOMAIN server'.queue :
           i + 1 \in DOMAIN server.queue /\ server'.queue[i] = server.queue[i + 1]
      /\ server' \in [at : {"up"}, queue : Seq(Entries), told : BOOLEAN]
  <2>1. server'.queue = Tail(server.queue) /\ server'.queue \in Seq(Entries)
    BY <1>1, <1>2, <1>4, TailFacts
  <2>2. server' \in [at : {"up"}, queue : Seq(Entries), told : BOOLEAN]
    BY <1>1, <1>4, <2>1
  <2> QED
    BY <1>2, <2>1, <2>2, TailFacts, SMTT(30)
<1>10. \A x \in Nat : /\ Requested(x)' => Requested(x)
                      /\ Queued(x)' => Queued(x)
  <2>1. \A x \in Nat : Requested(x)' => Requested(x)
    BY <1>1, RequestsShift
  <2>2. \A x \in Nat : Queued(x)' => Queued(x)
    BY <1>9 DEF Queued
  <2> QED
    BY <2>1, <2>2
<1>11. (\A j \in DOMAIN stdin : stdin[j].what # "turn") =>
          \A j \in DOMAIN stdin' : stdin'[j].what # "turn"
  BY <1>1, RequestsShift
<1>12. ASSUME InTurn, task.n \notin overdue PROVE Course(task.n)'
  <2>1. Course(n) /\ n \notin ended
    BY <1>2, <1>12 DEF SessionInv, CourseHolds, GoneIsGone, Course, Over
  <2>2. CASE k # n
    <3>1. task.n \in ended' <=> task.n \in ended
      BY <1>4, <2>2
    <3>2. \A j \in DOMAIN out : ~About(out[j], task.n)
      BY <1>1, <1>8, <2>2
    <3> QED
      BY <1>1, <1>2, <1>6, <1>7, <1>9, <1>12, <2>1, <3>1, <3>2, 1 \in {0, 1},
         OtherKeepsCourse
  <2>3. CASE k = n
    <3>1. /\ 1 = Len(server.queue) /\ (\A j \in DOMAIN stdin : stdin[j].what # "turn")
          /\ ~task.got.final
          /\ Acp => ~q.acked
          /\ ~q.acked => Await /\ (\A j \in DOMAIN stdout : ~Answers(stdout[j], n)) /\ ~Codex
          /\ \A i \in DOMAIN stdout : ~Closes(stdout[i], n)
          /\ Codex /\ Await => \E i \in DOMAIN stdout : Answers(stdout[i], n)
      BY <1>2, <2>1, <2>3 DEF Course, Served
    <3>2. /\ (Await' <=> Await) /\ (Codex' <=> Codex) /\ (Acp' <=> Acp)
          /\ UNCHANGED <<plan, task, pending, seen>>
      BY DEF HostStands, host, Await, Codex, Acp
    <3>3. \A i \in DOMAIN stdout : ~Announces(stdout[i], n)
      BY <2>1 DEF Announces, SessionInv, InOrder
    <3>4. DOMAIN server'.queue = {} /\ ~Queued(n)'
      BY <1>9, <3>1 DEF Queued
    <3>5. ~Requested(n)'
      BY <1>11, <3>1 DEF Requested, IsTurn
    <3>6. Asked(n)'
      BY <1>11, <2>1, <3>1, <3>2, <3>5 DEF Course, Asked, IsTurn
    <3>7. Served(n)'
      BY <3>4 DEF Served
    <3>8. \A j \in DOMAIN out : Answers(out[j], n) =>
             ~Codex /\ Await /\ \A i \in DOMAIN stdout : ~Answers(stdout[i], n)
      BY <1>1, <1>8, <3>1 DEF IsLast
    <3>9. Heard(n)'
      <4>1. \A i \in DOMAIN stdout, j \in DOMAIN out : Follows(stdout[i], out[j], n)
        BY <3>1, <3>3, <3>8 DEF Follows
      <4>2. \A i, j \in DOMAIN out : i < j => Follows(out[i], out[j], n)
        <5> SUFFICES ASSUME NEW i \in DOMAIN out, NEW j \in DOMAIN out, i < j
                     PROVE  Follows(out[i], out[j], n)
          OBVIOUS
        <5>1. CASE Neutral(out[i]) \/ Neutral(out[j])
          BY <1>1, <5>1 DEF Neutral, Follows, About, Closes
        <5>2. CASE IsEnd(out[i], q) /\ IsLast(out[j], q)
          BY <1>2, <2>3, <5>2
             DEF IsEnd, IsLast, Follows, About, Closes, Answers, Announces, IsNote
        <5> QED
          BY <1>6, <5>1, <5>2
      <4>3. \A j \in DOMAIN out : Codex /\ Await /\ About(out[j], n) =>
               \E i \in DOMAIN stdout : Answers(stdout[i], n)
        BY <3>1
      <4> QED
        BY <1>1, <1>6, <1>7, <2>1, <3>1, <3>2, <3>4, <3>8, <4>1, <4>2, <4>3, HeardGrows
           DEF Course
    <3>10. Over(n)'
      <4>1. server'.queue = <<>>
        BY <1>9, <3>1
      <4>2. Idling' /\ n \in ended' /\ n \notin seen
        BY <1>4, <1>11, <2>1, <2>3, <3>1, <4>1 DEF Idling, SessionInv, InOrder
      <4> QED
        BY <3>1, <3>2, <4>2 DEF Over
    <3>11. Course(n)' /\ n = task'.n
      BY <3>2, <3>6, <3>7, <3>9, <3>10 DEF Course
    <3> QED
      BY <3>11
  <2> QED
    BY <2>2, <2>3
<1>13. \A x \in Nat : /\ Requested(x)' => Left(x)
                      /\ Queued(x)' => Left(x)
                      /\ \A j \in DOMAIN out : About(out[j], x) => Left(x)
  BY <1>2, <1>8, <1>10 DEF Left
<1>14. ended \subseteq ended' /\ \A x \in ended' : x \in ended \/ (x \in Nat /\ Left(x))
  BY <1>2, <1>4
<1> QED
  BY <1>6, <1>7, <1>8, <1>9, <1>12, <1>13, <1>14, ServerKeeps

LEMMA InterruptAnswered ==
  ASSUME SessionInv, server.at = "up", HostStands, stdin # <<>>, stdin' = Tail(stdin),
         Interrupt(Head(stdin))
  PROVE  SessionInv'
<1> DEFINE r == Head(stdin)
           hit == Running # 0 /\ (Codex => Running = r.n)
           reply == IF hit \/ ~Codex THEN Accept ELSE Refusal
           answer == IF Acp THEN <<>> ELSE Reply(r.id, reply)
<1>1. r \in Requests /\ r.what \in {"steer", "interrupt"} /\ reply \in {Accept, Refusal}
  BY TailFacts DEF Interrupt, SessionInv, SessionTypeOK
<1>2. stdin \in Seq(Requests)
  BY DEF SessionInv, SessionTypeOK
<1>3. /\ stdin' \in Seq(Requests) /\ Len(stdin') = Len(stdin) - 1
      /\ \A i \in DOMAIN stdin' : i + 1 \in DOMAIN stdin /\ stdin'[i] = stdin[i + 1]
  BY <1>2, TailFacts
<1>4. IF hit THEN Ends("interrupted", answer)
      ELSE stdout' = stdout \o answer /\ UNCHANGED <<server, ended>>
  BY DEF Interrupt, Writes
<1>5. answer \in Seq(Messages) /\ \A j \in DOMAIN answer : Neutral(answer[j])
  <2> HIDE DEF r, reply
  <2>1. CASE Acp
    BY <2>1
  <2>2. CASE ~Acp
    BY <1>1, <2>2, CallAnswered
  <2> QED
    BY <2>1, <2>2
<1>6. hit => Running # 0
  OBVIOUS
<1> HIDE DEF hit, answer
<1>7. CASE hit
  BY <1>3, <1>4, <1>5, <1>6, <1>7, "interrupted" \in Hows, 1 \in {0, 1}, TurnOver DEF Hows
<1>8. CASE ~hit
  BY <1>4, <1>5, <1>8, AsideAnswered
<1> QED
  BY <1>7, <1>8

LEMMA ServeKeeps ==
  ASSUME SessionInv, Serve
  PROVE  SessionInv'
<1>1. server.at = "up" /\ HostStands /\ stdin # <<>> /\ stdin' = Tail(stdin)
  BY DEF Serve, HostStands
<1>2. \/ Setup(Head(stdin), <<Head(stdin).what, Head(stdin).n>>)
      \/ TakeTurn(Head(stdin), <<Head(stdin).what, Head(stdin).n>>)
      \/ Steer(Head(stdin)) \/ Interrupt(Head(stdin))
  BY DEF Serve
<1> QED
  BY <1>1, <1>2, SetupAnswered, TurnTaken, SteerAnswered, InterruptAnswered

LEMMA WorkKeeps ==
  ASSUME SessionInv, Work
  PROVE  SessionInv'
<1> DEFINE started == [m |-> "started", n |-> Running, how |-> "none"]
           text == [m |-> "text", n |-> Running, how |-> "none"]
           out == (IF Acp THEN <<>> ELSE <<started>>) \o <<text>>
<1>1. server.at = "up" /\ HostStands /\ Running # 0 /\ stdin' = stdin
  BY DEF Work, HostStands
<1>2. CASE ~server.told /\ server' = [server EXCEPT !.told = TRUE] /\ stdout' = stdout \o out
           /\ UNCHANGED ended
  <2>1. Running \in Nat
    BY <1>1, RunningLeft DEF Turns
  <2>2. started \in Messages /\ text \in Messages
    BY <2>1 DEF Messages, Hows
  <2>3. /\ started.m \in {"started", "text"} /\ started.n = Running
        /\ text.m \in {"started", "text"} /\ text.n = Running
    OBVIOUS
  <2> HIDE DEF started, text
  <2>4. /\ <<started>> \in Seq(Messages) /\ <<text>> \in Seq(Messages)
    BY <2>2
  <2>5. /\ \A j \in DOMAIN <<started>> : <<started>>[j] = started
        /\ \A j \in DOMAIN <<text>> : <<text>>[j] = text
        /\ <<>> \o <<text>> = <<text>>
    BY SingleFacts
  <2>6. /\ out \in Seq(Messages)
        /\ \A j \in DOMAIN out : out[j] \in {started, text}
    <3>1. CASE Acp
      BY <2>4, <2>5, <3>1
    <3>2. CASE ~Acp
      BY <2>4, <2>5, <3>2, CatFacts
    <3> QED
      BY <3>1, <3>2
  <2> HIDE DEF out
  <2>7. \A j \in DOMAIN out : out[j].m \in {"started", "text"} /\ out[j].n = Running
    BY <2>3, <2>6
  <2> QED
    BY <1>1, <1>2, <2>6, <2>7, TurnSpeaks
<1>3. CASE Ends("completed", <<>>) \/ Ends("failed", <<>>)
  <2>1. /\ stdin' \in Seq(Requests) /\ Len(stdin') = Len(stdin) - 0
        /\ \A i \in DOMAIN stdin' : i + 0 \in DOMAIN stdin /\ stdin'[i] = stdin[i + 0]
    BY <1>1 DEF SessionInv, SessionTypeOK
  <2>2. /\ <<>> \in Seq(Messages) /\ \A j \in DOMAIN <<>> : Neutral(<<>>[j])
        /\ "completed" \in Hows /\ "failed" \in Hows /\ 0 \in {0, 1}
    BY DEF Hows
  <2> QED
    BY <1>1, <1>3, <2>1, <2>2, TurnOver
<1> QED
  BY <1>2, <1>3 DEF Work, Writes, Note

-----------------------------------------------------------------------------
(* The supervisor takes a message.                                         *)

Receives ==
  /\ stdout # <<>> /\ stdout' = Tail(stdout) /\ chunk' \in Nat
  /\ UNCHANGED <<plan, server, stdin, ended, overdue, mishaps>>

LEMMA PipeShortens ==
  ASSUME SessionInv, Receives
  PROVE  /\ stdout \in Seq(Messages) /\ stdout' \in Seq(Messages)
         /\ Head(stdout) \in Messages /\ Head(stdout) = stdout[1] /\ 1 \in DOMAIN stdout
         /\ Len(stdout') = Len(stdout) - 1 /\ DOMAIN stdout' = 1 .. Len(stdout) - 1
         /\ \A i \in DOMAIN stdout' : i + 1 \in DOMAIN stdout /\ stdout'[i] = stdout[i + 1]
         /\ \A i \in DOMAIN stdout : i = 1 \/ (i - 1 \in DOMAIN stdout'
                                               /\ stdout'[i - 1] = stdout[i])
         /\ \A k \in Nat : /\ Requested(k)' <=> Requested(k)
                           /\ Queued(k)' <=> Queued(k)
                           /\ Told(k)' => Told(k)
                           /\ Left(k)' => Left(k)
                           /\ About(stdout[1], k) => Left(k)
<1>1. stdout \in Seq(Messages) /\ stdout # <<>> /\ stdout' = Tail(stdout)
  BY DEF SessionInv, SessionTypeOK, Receives
<1>2. /\ stdout' \in Seq(Messages)
      /\ Head(stdout) \in Messages /\ Head(stdout) = stdout[1] /\ 1 \in DOMAIN stdout
      /\ Len(stdout') = Len(stdout) - 1 /\ DOMAIN stdout' = 1 .. Len(stdout) - 1
      /\ \A i \in DOMAIN stdout' : i + 1 \in DOMAIN stdout /\ stdout'[i] = stdout[i + 1]
  BY <1>1, TailFacts
<1>3. \A i \in DOMAIN stdout : i = 1 \/ (i - 1 \in DOMAIN stdout'
                                         /\ stdout'[i - 1] = stdout[i])
  BY <1>1, <1>2
<1>4. \A k \in Nat : /\ Requested(k)' <=> Requested(k)
                     /\ Queued(k)' <=> Queued(k)
  BY DEF Requested, Queued, Receives
<1>5. \A k \in Nat : Told(k)' => Told(k)
  BY <1>2 DEF Told, About, IsNote, Answers
<1>6. \A k \in Nat : About(stdout[1], k) => Told(k)
  BY <1>2 DEF Told
<1> QED
  BY <1>1, <1>2, <1>3, <1>4, <1>5, <1>6 DEF Left

(* The course of the awaited turn, when what is taken is not its reply.    *)
LEMMA CourseShortens ==
  ASSUME SessionInv, Receives, NEW n \in Nat, Course(n), task' = task,
         ~Answers(stdout[1], n),
         <<"turn", n>> \in pending => <<"turn", n>> \in pending',
         n \in seen' => /\ \A i \in DOMAIN stdout' : ~IsNote(stdout'[i])
                        /\ Codex => n \in joined'
  PROVE  Course(n)'
<1>1. /\ DOMAIN stdout' = 1 .. Len(stdout) - 1
      /\ 1 \in DOMAIN stdout
      /\ \A i \in DOMAIN stdout' : i + 1 \in DOMAIN stdout /\ stdout'[i] = stdout[i + 1]
      /\ \A i \in DOMAIN stdout : i = 1 \/ (i - 1 \in DOMAIN stdout'
                                            /\ stdout'[i - 1] = stdout[i])
      /\ Requested(n)' <=> Requested(n)
      /\ Queued(n)' <=> Queued(n)
      /\ Told(n)' => Told(n)
      /\ Left(n)' => Left(n)
  BY PipeShortens
<1>2. /\ UNCHANGED <<plan, server, stdin, ended>>
      /\ (Await' <=> Await) /\ (Codex' <=> Codex) /\ (Acp' <=> Acp) /\ (Idling' <=> Idling)
  BY DEF Receives, Await, Codex, Acp, Idling
<1>3. \A i \in DOMAIN stdout : Answers(stdout[i], n) =>
         i - 1 \in DOMAIN stdout' /\ stdout'[i - 1] = stdout[i]
  BY <1>1
<1>4. Asked(n)'
  BY <1>1, <1>2 DEF Course, Asked, IsTurn
<1>5. Served(n)'
  <2> SUFFICES ASSUME NEW i \in DOMAIN server.queue, server.queue[i].n = n
               PROVE
    /\ ~server.queue[i].acked =>
         Await /\ (\A j \in DOMAIN stdout' : ~Answers(stdout'[j], n)) /\ ~Codex
    /\ \A j \in DOMAIN stdout' : ~Closes(stdout'[j], n)
    /\ Codex /\ Await => \E j \in DOMAIN stdout' : Answers(stdout'[j], n)
    BY <1>2 DEF Course, Served, Answers, Closes
  <2>1. /\ ~server.queue[i].acked =>
             Await /\ (\A j \in DOMAIN stdout : ~Answers(stdout[j], n)) /\ ~Codex
        /\ \A j \in DOMAIN stdout : ~Closes(stdout[j], n)
        /\ Codex /\ Await => \E j \in DOMAIN stdout : Answers(stdout[j], n)
    BY DEF Course, Served
  <2> QED
    BY <1>1, <1>3, <2>1
<1>6. Heard(n)'
  <2>1. \A i, j \in DOMAIN stdout' : i < j => Follows(stdout'[i], stdout'[j], n)
    BY <1>1 DEF Course, Heard
  <2>2. \A i, j \in DOMAIN stdout' : i < j => Follows(stdout[i], stdout[j], n)'
    <3> TAKE i, j \in DOMAIN stdout'
    <3> HAVE i < j
    <3>1. Follows(stdout'[i], stdout'[j], n)
      BY <2>1
    <3> QED
      BY <1>2, <3>1 DEF Follows, About, Closes, Answers, Announces, IsNote
  <2>3. ASSUME Codex, Await, NEW i \in DOMAIN stdout', About(stdout'[i], n)
        PROVE  \E j \in DOMAIN stdout' : j <= i /\ Answers(stdout'[j], n)
    <3>1. i + 1 \in DOMAIN stdout /\ About(stdout[i + 1], n)
      BY <1>1, <2>3
    <3>2. PICK j \in DOMAIN stdout : j <= i + 1 /\ Answers(stdout[j], n)
      BY <2>3, <3>1 DEF Course, Heard
    <3>3. j - 1 \in DOMAIN stdout' /\ stdout'[j - 1] = stdout[j] /\ j - 1 <= i
      BY <1>1, <1>3, <3>2, SMTT(30)
    <3> QED
      BY <3>2, <3>3
  <2>4. \A i \in DOMAIN stdout' : /\ Closes(stdout'[i], n) => ~Queued(n)
                                  /\ ~Await => ~Answers(stdout'[i], n)
    BY <1>1 DEF Course, Heard
  <2> QED
    BY <1>1, <1>2, <2>2, <2>3, <2>4 DEF Heard, About, Closes, Answers, IsNote
<1>7. Over(n)'
  BY <1>1, <1>2 DEF Course, Over, IsNote
<1> QED
  BY <1>4, <1>5, <1>6, <1>7 DEF Course

(* What a message that is taken leaves as it was.                          *)
LEMMA ReceiptKeeps ==
  ASSUME SessionInv, Receives, SessionTypeOK',
         task'.at = task.at, task'.n = task.n, task.at # "collect" \/ task' = task,
         task'.got = task.got \/ task.at \notin {"idle", "collect"},
         handle'.exit = handle.exit, UNCHANGED result,
         seen \subseteq seen', seen' \subseteq ended,
         PromptAwaited', GoneIsGone', CourseHolds', HandleKnows', NoWaitIsVain'
  PROVE  SessionInv'
<1>1. /\ \A k \in Nat : Left(k)' => Left(k)
      /\ \A i \in DOMAIN stdout' : i + 1 \in DOMAIN stdout /\ stdout'[i] = stdout[i + 1]
  BY PipeShortens
<1>2. UNCHANGED <<ended, overdue>>
  BY DEF Receives
<1>3. InOrder'
  <2>1. \A i \in DOMAIN stdout' :
          /\ stdout'[i].m = "ended" => stdout'[i].n \in ended
          /\ \A k \in Turns : Closes(stdout[i], k)' /\ stdout'[i].reply.ok => k \in ended
    BY <1>1 DEF SessionInv, InOrder, Closes, Answers
  <2>2. task'.at \in {"idle", "collect"} => task'.got = NoReply
    BY DEF SessionInv, InOrder
  <2>3. task.n \in Nat
    BY DEF SessionInv, SessionTypeOK
  <2> QED
    BY <1>1, <1>2, <2>1, <2>2, <2>3 DEF SessionInv, InOrder
<1>4. NothingStale'
  BY <1>1, <1>2 DEF SessionInv, NothingStale, Dead, Foul, InTurn
<1>5. ResultsHold'
  BY <1>2 DEF SessionInv, ResultsHold, OwnAnswer
<1> QED
  BY <1>3, <1>4, <1>5 DEF SessionInv

LEMMA TakeReplyKeeps ==
  ASSUME SessionInv, Receives, TakeReply(Head(stdout)), NEW n, n = task.n
  PROVE  SessionInv'
<1> DEFINE m == stdout[1]
<1>1. /\ m \in Messages /\ Head(stdout) = m /\ 1 \in DOMAIN stdout /\ n \in Nat
      /\ UNCHANGED <<plan, server, stdin, ended, overdue>>
      /\ stdout' \in Seq(Messages)
  BY PipeShortens DEF Receives, SessionInv, SessionTypeOK
<1>2. \A k \in Nat : /\ Requested(k)' <=> Requested(k)
                     /\ Queued(k)' <=> Queued(k)
                     /\ Told(k)' => Told(k)
                     /\ Left(k)' => Left(k)
  BY PipeShortens
<1>3. m.m = "reply" /\ m.id \in Ids /\ m.reply \in Replies /\ m.reply # NoReply
  <2>1. m.m = "reply"
    BY <1>1 DEF TakeReply
  <2> HIDE DEF m
  <2> QED
    BY <1>1, <2>1 DEF Messages
<1>4. /\ UNCHANGED <<handle, result, seen, joined>>
      /\ IF m.id \in pending THEN pending' = pending \ {m.id} /\ Settle(m.id, m.reply)
         ELSE UNCHANGED <<pending, task, call>>
  BY <1>1 DEF TakeReply
<1> HIDE DEF m
<1>5. \/ task' = task
      \/ /\ task' = [task EXCEPT !.got = m.reply] /\ m.id = <<task.at, task.n>>
         /\ m.id \in pending /\ task.at \notin {"idle", "collect"}
  BY <1>3, <1>4 DEF Settle, Ids
<1>6. task'.at = task.at /\ task'.n = task.n /\ (Codex' <=> Codex) /\ (Foul' <=> Foul)
      /\ (Dead' <=> Dead) /\ (InTurn' <=> InTurn) /\ (Acp' <=> Acp) /\ (Idling' <=> Idling)
  BY <1>1, <1>4, <1>5 DEF SessionInv, SessionTypeOK, Codex, Foul, Dead, InTurn, Acp, Idling
<1>7. SessionTypeOK'
  <2>1. task' \in [at : {"idle", "init", "session", "mode", "turn", "collect"},
                   n : 0 .. MaxTurns, got : Replies]
    BY <1>3, <1>5 DEF SessionInv, SessionTypeOK
  <2>2. call' \in [at : {"idle", "wait"}, n : Nat, got : Replies] /\ pending' \subseteq Ids
    BY <1>3, <1>4 DEF SessionInv, SessionTypeOK, Settle
  <2>3. chunk' \in Nat /\ mishaps' = mishaps
    BY DEF Receives
  <2> QED
    BY <1>1, <1>4, <2>1, <2>2, <2>3 DEF SessionInv, SessionTypeOK
<1>8. \A k \in Nat : <<"turn", k>> \in pending' => <<"turn", k>> \in pending /\ task' = task
  <2> SUFFICES ASSUME NEW k \in Nat, <<"turn", k>> \in pending'
               PROVE  <<"turn", k>> \in pending /\ task' = task
    OBVIOUS
  <2>1. <<"turn", k>> \in pending /\ k = task.n /\ task.at = "turn"
    BY <1>4 DEF SessionInv, PromptAwaited, Await
  <2>2. m.id \in pending => m.id # <<task.at, task.n>>
    BY <1>4, <2>1
  <2> QED
    BY <1>5, <2>1, <2>2
<1>9. PromptAwaited'
  BY <1>8 DEF SessionInv, PromptAwaited, Await
(* The reply to the prompt.                                                *)
<1>10. ASSUME task.at = "turn", task' # task
       PROVE  /\ Answers(m, n) /\ Await /\ ~Dead /\ n \notin overdue /\ Course(n)
              /\ task'.got = m.reply /\ ~Await'
  <2>1. Answers(m, n) /\ Await /\ task'.got = m.reply
    <3>1. task' = [task EXCEPT !.got = m.reply] /\ m.id = <<"turn", n>> /\ m.id \in pending
      BY <1>5, <1>10
    <3>2. Await
      BY <1>1, <3>1 DEF SessionInv, PromptAwaited
    <3> QED
      BY <1>3, <3>1, <3>2 DEF Answers, SessionInv, SessionTypeOK
  <2>2. Told(n)
    BY <1>1, <2>1 DEF Told, About, m
  <2>3. ~Dead /\ n \notin overdue
    BY <2>1, <2>2 DEF Await, SessionInv, GoneIsGone, InTurn, NoReply, Refusal
  <2>4. Course(n)
    BY <1>10, <2>3 DEF SessionInv, CourseHolds, InTurn
  <2> QED
    BY <1>3, <2>1, <2>3, <2>4 DEF Await
<1>11. GoneIsGone'
  <2>1. CASE task' = task
    BY <1>1, <1>2, <1>4, <1>6, <2>1, n \in Nat DEF SessionInv, GoneIsGone
  <2>2. CASE task' # task /\ task.at = "turn"
    BY <1>1, <1>6, <1>10, <2>2 DEF GoneIsGone, InTurn
  <2>3. CASE task' # task /\ task.at # "turn"
    BY <1>1, <1>4, <1>5, <1>6, <2>3 DEF SessionInv, GoneIsGone, InTurn
  <2> QED
    BY <2>1, <2>2, <2>3
<1>12. CourseHolds'
  <2> SUFFICES ASSUME InTurn, n \notin overdue, ~Dead PROVE Course(n)'
    <3>1. n = task'.n
      BY <1>6
    <3> QED
      BY <1>1, <1>6, <3>1 DEF CourseHolds
  <2>1. Course(n)
    BY DEF SessionInv, CourseHolds
  <2>2. CASE task' = task
    <3>1. ~Answers(m, n)
      <4> SUFFICES ASSUME Answers(m, n) PROVE FALSE
        OBVIOUS
      <4>1. Await
        BY <1>1, <2>1 DEF Course, Heard, m
      <4>2. m.id = <<"turn", n>> /\ m.id \in pending /\ task.at = "turn" /\ task.got = NoReply
        BY <2>1, <4>1 DEF Course, Asked, Answers, Await
      <4>3. task' = [task EXCEPT !.got = m.reply]
        BY <1>4, <4>2 DEF Settle
      <4> QED
        BY <1>3, <2>2, <4>2, <4>3 DEF SessionInv, SessionTypeOK
    <3>2. <<"turn", n>> \in pending => <<"turn", n>> \in pending'
      BY <1>3, <1>4, <3>1 DEF Answers
    <3>3. n \in seen' => /\ \A i \in DOMAIN stdout' : ~IsNote(stdout'[i])
                         /\ Codex => n \in joined'
      BY <1>4, <2>1, PipeShortens DEF Course, Over
    <3> QED
      BY <1>1, <2>1, <2>2, <3>1, <3>2, <3>3, CourseShortens DEF m
  <2>3. CASE task' # task
    <3>1. task.at = "turn"
      BY <1>5, <2>3 DEF InTurn
    <3>2. Answers(m, n) /\ Await /\ task'.got = m.reply /\ ~Await'
      BY <1>10, <2>3, <3>1
    <3>3. Told(n) /\ ~Requested(n)
      BY <1>1, <2>1, <3>2 DEF Told, About, m, Course, Asked
    <3>4. \A j \in DOMAIN stdout' : Follows(m, stdout'[j], n)
      <4> TAKE j \in DOMAIN stdout'
      <4>1. j + 1 \in DOMAIN stdout /\ stdout'[j] = stdout[j + 1] /\ 1 < j + 1
        BY PipeShortens
      <4> QED
        BY <1>1, <2>1, <4>1 DEF Course, Heard, m
    <3>5. \A j \in DOMAIN stdout' : ~Answers(stdout'[j], n)
      BY <3>2, <3>4 DEF Follows, About
    <3>6. Asked(n)'
      <4>1. ~Requested(n)' /\ \A i \in DOMAIN stdin : ~IsTurn(stdin[i], n)
        BY <1>1, <1>2, <3>3 DEF Requested
      <4> QED
        BY <1>1, <3>2, <4>1 DEF Asked, IsTurn
    <3>7. Served(n)'
      <4> SUFFICES ASSUME NEW i \in DOMAIN server.queue, server.queue[i].n = n
                   PROVE  ~m.reply.final /\ server.queue[i].acked
        BY <1>1, <1>6, <2>1, <3>2, <3>5 DEF Course, Served, Answers, Closes
      <4>1. ~Closes(m, n) /\ server.queue[i].acked
        BY <1>1, <2>1, <3>2 DEF Course, Served, m
      <4> QED
        BY <3>2, <4>1 DEF Closes
    <3>8. Heard(n)'
      <4>1. \A i, j \in DOMAIN stdout' : i < j => Follows(stdout'[i], stdout'[j], n)
        <5> TAKE i, j \in DOMAIN stdout'
        <5> HAVE i < j
        <5>1. /\ i + 1 \in DOMAIN stdout /\ j + 1 \in DOMAIN stdout /\ i + 1 < j + 1
              /\ stdout'[i] = stdout[i + 1] /\ stdout'[j] = stdout[j + 1]
          BY PipeShortens
        <5> QED
          BY <2>1, <5>1 DEF Course, Heard
      <4>2. \A i, j \in DOMAIN stdout' : i < j => Follows(stdout[i], stdout[j], n)'
        <5> TAKE i, j \in DOMAIN stdout'
        <5> HAVE i < j
        <5>1. Follows(stdout'[i], stdout'[j], n)
          BY <4>1
        <5> QED
          BY <1>6, <5>1 DEF Follows, About, Closes, Answers, Announces, IsNote
      <4> QED
        BY <3>2, <3>5, <4>2 DEF Heard, Closes, Answers
    <3>9. Over(n)'
      <4>1. m.reply.final => ~Left(n)'
        <5> SUFFICES ASSUME m.reply.final PROVE ~Left(n)'
          OBVIOUS
        <5>1. Closes(m, n)
          BY <3>2 DEF Closes
        <5>2. ~Queued(n)
          BY <1>1, <2>1, <5>1 DEF Course, Heard, m
        <5>3. \A j \in DOMAIN stdout' : ~About(stdout'[j], n)
          BY <3>2, <3>4, <5>1 DEF Follows, About
        <5> QED
          BY <1>1, <1>2, <3>3, <5>2, <5>3 DEF Left, Told, About, IsNote, Answers
      <4>2. m.reply.ok /\ m.reply.final => n \in ended
        <5>1. n \in Turns
          BY <1>1, PlansAssumption DEF SessionInv, SessionTypeOK, InOrder, InTurn, Turns
        <5> QED
          BY <1>1, <3>2, <5>1 DEF SessionInv, InOrder, Closes, m
      <4>3. n \in seen => \A j \in DOMAIN stdout' : ~IsNote(stdout'[j])
        BY <2>1, PipeShortens DEF Course, Over
      <4> QED
        BY <1>1, <1>4, <1>6, <2>1, <3>2, <4>1, <4>2, <4>3 DEF Course, Over, IsNote
    <3> QED
      BY <3>6, <3>7, <3>8, <3>9 DEF Course
  <2> QED
    BY <2>2, <2>3
<1>13. HandleKnows' /\ NoWaitIsVain'
  BY <1>1, <1>4, <1>6 DEF SessionInv, HandleKnows, NoWaitIsVain
<1>14. seen' \subseteq ended
  BY <1>4 DEF SessionInv, InOrder
<1> QED
  BY <1>4, <1>5, <1>6, <1>7, <1>9, <1>11, <1>12, <1>13, <1>14, ReceiptKeeps

(* Unless an earlier turn was given up, a note is about the turn awaited.  *)
LEMMA NoteIsOwn ==
  ASSUME SessionInv, Receives, IsNote(stdout[1]), ~Dead, ~Foul, task.n \notin overdue
  PROVE  stdout[1].n = task.n /\ InTurn
<1>1. stdout[1] \in Messages /\ task.n \in Nat
  BY PipeShortens DEF SessionInv, SessionTypeOK
<1>2. stdout[1].n \in Nat
  BY <1>1 DEF Messages, IsNote
<1>3. Left(stdout[1].n)
  BY <1>2, PipeShortens DEF About
<1>4. overdue \subseteq 1 .. task.n
  BY DEF SessionInv, InOrder
<1>5. stdout[1].n \notin overdue
  BY <1>1, <1>2, <1>4 DEF Foul
<1> QED
  BY <1>2, <1>3, <1>5 DEF SessionInv, NothingStale

LEMMA TakeNoteKeeps ==
  ASSUME SessionInv, Receives, TakeNote(Head(stdout)), NEW n, n = task.n
  PROVE  SessionInv'
<1> DEFINE m == stdout[1]
<1>1. /\ m \in Messages /\ Head(stdout) = m /\ n \in Nat /\ 1 \in DOMAIN stdout
      /\ UNCHANGED <<plan, server, stdin, ended, overdue>>
      /\ stdout' \in Seq(Messages)
  BY PipeShortens DEF Receives, SessionInv, SessionTypeOK
<1>2. /\ m.m \in {"opened", "started", "text"} /\ m.n \in Nat
      /\ UNCHANGED <<pending, task, call, result, seen, joined>>
      /\ m.m = "opened"  => handle' = [handle EXCEPT !.session = TRUE]
      /\ m.m = "started" => handle' = [handle EXCEPT !.status = "running", !.turn = m.n,
                                                     !.text = {}]
      /\ m.m = "text"    => handle' = [handle EXCEPT !.text = @ \cup {m.n}]
  <2>1. TakeNote(m)
    BY <1>1
  <2>2. m.m \in {"opened", "started", "text"}
    BY <2>1 DEF TakeNote
  <2> HIDE DEF m
  <2>3. m.n \in Nat
    BY <1>1, <2>2 DEF Messages
  <2> QED
    BY <2>1, <2>2, <2>3 DEF TakeNote
<1> HIDE DEF m
<1>3. handle \in Handles /\ {} \in SUBSET Nat
  BY DEF SessionInv, SessionTypeOK
<1>4. /\ handle' \in Handles /\ handle'.exit = handle.exit
      /\ handle'.status = handle.status \/ (m.m = "started" /\ handle'.status = "running")
      /\ handle'.text \subseteq handle.text \/ (m.m = "text" /\ handle'.text = handle.text \cup {m.n})
  <2>1. CASE m.m = "opened"
    BY <1>2, <1>3, <2>1 DEF Handles
  <2>2. CASE m.m = "started"
    BY <1>2, <1>3, <2>2 DEF Handles, Statuses
  <2>3. CASE m.m = "text"
    BY <1>2, <1>3, <2>3 DEF Handles
  <2> QED
    BY <1>2, <2>1, <2>2, <2>3
<1>5. /\ (Codex' <=> Codex) /\ (Foul' <=> Foul) /\ (Dead' <=> Dead) /\ (InTurn' <=> InTurn)
      /\ \A k \in Nat : Told(k)' => Told(k)
  BY <1>1, <1>2, <1>4, PipeShortens DEF Codex, Foul, Dead, InTurn
<1>6. SessionTypeOK'
  BY <1>1, <1>2, <1>4 DEF SessionInv, SessionTypeOK, Receives
<1>7. PromptAwaited'
  BY <1>2 DEF SessionInv, PromptAwaited, Await
<1>8. GoneIsGone'
  <2>1. handle.status = "running" => handle'.status = "running"
    BY <1>4
  <2> QED
    BY <1>1, <1>2, <1>5, <2>1 DEF SessionInv, GoneIsGone
<1>9. ASSUME InTurn, n \notin overdue, ~Dead
      PROVE  Course(n) /\ Course(n)' /\ (n \in seen => m.m = "opened")
  <2>1. Course(n)
    BY <1>9 DEF SessionInv, CourseHolds
  <2>2. ~Answers(m, n)
    BY <1>2 DEF Answers
  <2>3. n \in seen' => /\ \A i \in DOMAIN stdout' : ~IsNote(stdout'[i])
                       /\ Codex => n \in joined'
    BY <1>2, <2>1, PipeShortens DEF Course, Over
  <2>4. n \in seen => m.m = "opened"
    BY <1>1, <1>2, <2>1 DEF Course, Over, IsNote, m
  <2> QED
    BY <1>1, <1>2, <2>1, <2>2, <2>3, <2>4, CourseShortens DEF m
<1>10. CourseHolds'
  <2>1. n = task'.n
    BY <1>2
  <2> QED
    BY <1>1, <1>5, <1>9, <2>1 DEF CourseHolds
<1>11. HandleKnows'
  <2> SUFFICES ASSUME ~Dead, n \notin overdue
               PROVE
    /\ ~Codex /\ task.at = "turn" =>
         /\ handle'.status \in {"running", "completed", "failed"}
         /\ n \in seen => handle'.status # "running"
         /\ ~Foul /\ handle'.status # "running" => n \in seen
    /\ ~Foul /\ (task.at = "collect" \/ (~Codex /\ task.at = "turn")) =>
         handle'.text \subseteq {n}
    BY <1>1, <1>2, <1>5 DEF SessionInv, HandleKnows
  <2>1. ASSUME ~Codex, task.at = "turn"
        PROVE  /\ handle'.status \in {"running", "completed", "failed"}
               /\ n \in seen => handle'.status # "running"
               /\ ~Foul /\ handle'.status # "running" => n \in seen
    <3>1. n \in seen => m.m = "opened"
      BY <1>9, <2>1 DEF InTurn
    <3> QED
      BY <1>4, <2>1, <3>1 DEF SessionInv, HandleKnows
  <2>2. ASSUME ~Foul, task.at = "collect" \/ (~Codex /\ task.at = "turn")
        PROVE  handle'.text \subseteq {n}
    <3>1. handle.text \subseteq {n}
      BY <2>2 DEF SessionInv, HandleKnows
    <3>2. m.m = "text" => m.n = n
      BY <2>2, NoteIsOwn DEF IsNote, m
    <3> QED
      BY <1>4, <3>1, <3>2
  <2> QED
    BY <2>1, <2>2
<1>12. seen' \subseteq ended /\ NoWaitIsVain'
  BY <1>2 DEF SessionInv, InOrder, NoWaitIsVain
<1> QED
  BY <1>2, <1>4, <1>6, <1>7, <1>8, <1>10, <1>11, <1>12, ReceiptKeeps

LEMMA TakeEndKeeps ==
  ASSUME SessionInv, Receives, TakeEnd(Head(stdout)), NEW n, n = task.n
  PROVE  SessionInv'
<1> DEFINE m == stdout[1]
           s == IF m.how = "failed" THEN "failed" ELSE "completed"
           h == [handle EXCEPT !.status = s]
<1>1. /\ m \in Messages /\ Head(stdout) = m /\ n \in Nat /\ 1 \in DOMAIN stdout
      /\ UNCHANGED <<plan, server, stdin, ended, overdue>>
      /\ stdout' \in Seq(Messages)
  BY PipeShortens DEF Receives, SessionInv, SessionTypeOK
<1>2. TakeEnd(m)
  BY <1>1
<1>3. /\ m.m = "ended" /\ IsNote(m) /\ handle' = h
      /\ IF task.at = "collect" THEN Finish(h, h.status) ELSE UNCHANGED <<task, result>>
      /\ seen' = seen \cup {m.n} /\ UNCHANGED <<pending, call>>
      /\ joined' = IF Codex /\ task.at = "turn" /\ task.n = m.n /\ Answered(task)
                   THEN joined \cup {m.n} ELSE joined
  BY <1>2 DEF TakeEnd, Report, Finish, IsNote
<1>4. m.n \in ended
  BY <1>1, <1>3 DEF SessionInv, InOrder
<1>5. s \in {"completed", "failed"} /\ s \in Statuses
  BY DEF Statuses
<1>6. h \in Handles /\ h.exit = handle.exit /\ h.status = s /\ h.text = handle.text
  <2> HIDE DEF s
  <2>1. handle \in Handles
    BY DEF SessionInv, SessionTypeOK
  <2> QED
    BY <1>5, <2>1 DEF Handles
<1>7. ~Dead /\ ~Foul /\ n \notin overdue => m.n = n
  BY <1>3, NoteIsOwn
<1> HIDE DEF h, s, m
<1>8. seen' \subseteq ended
  BY <1>3, <1>4 DEF SessionInv, InOrder
<1>9. (Foul' <=> Foul) /\ (Codex' <=> Codex) /\ (Dead' <=> Dead)
      /\ task'.n = task.n
  BY <1>1, <1>3, <1>6 DEF Foul, Codex, Dead, Finish, SessionInv, SessionTypeOK
<1>10. \A k \in Nat : Left(k)' => Left(k)
  BY PipeShortens
<1>11. CASE task.at = "collect"
  <2> DEFINE o == [status |-> s, text |-> IF s = "failed" THEN {} ELSE handle.text]
  <2>1. task' = [task EXCEPT !.at = "idle", !.got = NoReply]
        /\ result' = [result EXCEPT ![n] = o]
    BY <1>3, <1>6, <1>11 DEF Finish
  <2>2. ~Dead /\ n \notin overdue /\ ~Await /\ InTurn
    BY <1>11 DEF SessionInv, GoneIsGone, Await, InTurn
  <2>3. n \in Turns /\ o \in Outputs
    <3>1. n \in Turns
      BY <1>1, <1>11, PlansAssumption DEF SessionInv, SessionTypeOK, InOrder, Turns
    <3>2. handle.text \in SUBSET Nat /\ {} \in SUBSET Nat
      BY DEF SessionInv, SessionTypeOK, Handles
    <3> QED
      BY <1>5, <3>1, <3>2 DEF Outputs
  <2>4. o.status = s /\ (s = "completed" => o.text = handle.text)
    OBVIOUS
  <2> HIDE DEF o
  <2>5. task'.at = "idle" /\ task'.got = NoReply
    BY <2>1 DEF SessionInv, SessionTypeOK
  <2>6. SessionTypeOK'
    <3>1. task' \in [at : {"idle", "init", "session", "mode", "turn", "collect"},
                     n : 0 .. MaxTurns, got : Replies]
      BY <2>1 DEF SessionInv, SessionTypeOK, Replies
    <3>2. result' \in [Turns -> Outputs]
      BY <2>1, <2>3 DEF SessionInv, SessionTypeOK
    <3> QED
      BY <1>1, <1>3, <1>6, <3>1, <3>2 DEF SessionInv, SessionTypeOK, Receives
  <2>7. ~Foul => ~Left(n)' /\ n \in ended
    <3> SUFFICES ASSUME ~Foul PROVE ~Left(n)' /\ n \in ended
      OBVIOUS
    <3>1. m.n = n /\ n \in ended /\ Course(n)
      BY <1>4, <1>7, <2>2 DEF SessionInv, CourseHolds
    <3>2. Idling
      BY <3>1 DEF Course, Over
    <3>3. ~Requested(n) /\ ~Queued(n)
      BY <3>2 DEF Idling, Requested, Queued, IsTurn
    <3>4. ASSUME NEW j \in DOMAIN stdout', About(stdout'[j], n) PROVE FALSE
      <4>1. j + 1 \in DOMAIN stdout /\ stdout'[j] = stdout[j + 1] /\ 1 < j + 1
        BY PipeShortens
      <4>2. Follows(m, stdout'[j], n) /\ ~Answers(stdout'[j], n)
        BY <1>1, <2>2, <3>1, <4>1 DEF Course, Heard, m
      <4> QED
        BY <1>3, <3>1, <3>4, <4>2 DEF Follows, About, Announces
    <3>5. ~Told(n)'
      BY <3>4 DEF Told, About, IsNote, Answers
    <3> QED
      BY <1>1, <3>1, <3>3, <3>5, PipeShortens DEF Left
  <2>8. NothingStale'
    <3> SUFFICES ASSUME ~Dead, ~Foul, NEW k \in Nat, Left(k)' PROVE k \in overdue
      BY <1>1, <1>9 DEF NothingStale
    <3>1. k # n
      BY <2>7
    <3> QED
      BY <1>10, <3>1 DEF SessionInv, NothingStale
  <2>9. PromptAwaited'
    BY <1>3, <2>2 DEF SessionInv, PromptAwaited
  <2>10. ResultsHold'
    <3>1. /\ \A k \in Turns \ {n} : result'[k] = result[k]
          /\ result'[n] = o
      BY <2>1, <2>3 DEF SessionInv, SessionTypeOK
    <3> SUFFICES ASSUME NEW k \in Turns
                 PROVE  /\ result'[k].status # "none" => k <= n
                        /\ result'[k].status = "completed" /\ ~(\E x \in overdue : x < k)
                             => k \in ended /\ result'[k].text \subseteq {k}
      BY <1>1, <1>9, <2>5 DEF ResultsHold, OwnAnswer, Turns
    <3>2. CASE k = n
      <4>1. ~Foul => handle.text \subseteq {n}
        BY <1>11, <2>2 DEF SessionInv, HandleKnows
      <4> QED
        BY <1>1, <2>4, <2>7, <3>1, <3>2, <4>1 DEF Foul
    <3>3. CASE k # n
      BY <1>1, <3>1, <3>3 DEF SessionInv, ResultsHold, OwnAnswer, Turns
    <3> QED
      BY <3>2, <3>3
  <2>11. \A i \in DOMAIN stdout' : \E j \in DOMAIN stdout : stdout'[i] = stdout[j]
    BY PipeShortens
  <2>12. overdue' \subseteq 1 .. task.n /\ ended' = ended
    BY <1>1 DEF SessionInv, InOrder
  <2> QED
    BY <1>8, <1>9, <1>10, <2>2, <2>5, <2>6, <2>8, <2>9, <2>10, <2>11, <2>12, IdleStep
<1>12. CASE task.at # "collect"
  <2>1. UNCHANGED <<task, result, pending, call>>
    BY <1>3, <1>12
  <2>2. SessionTypeOK'
    BY <1>1, <1>3, <1>6, <1>8, <2>1 DEF SessionInv, SessionTypeOK, Receives
  <2>3. PromptAwaited'
    BY <2>1 DEF SessionInv, PromptAwaited, Await
  <2>4. GoneIsGone'
    BY <1>1, <1>9, <1>12, <2>1, PipeShortens DEF SessionInv, GoneIsGone, InTurn
  <2>5. CourseHolds'
    <3> SUFFICES ASSUME InTurn, n \notin overdue, ~Dead PROVE Course(n)'
      <4>1. n = task'.n /\ (InTurn' <=> InTurn)
        BY <2>1 DEF InTurn
      <4> QED
        BY <1>1, <1>9, <4>1 DEF CourseHolds
    <3>1. Course(n) /\ task.at = "turn"
      BY <1>12 DEF SessionInv, CourseHolds, InTurn
    <3>2. ~Answers(m, n)
      BY <1>3 DEF Answers
    <3>3. \A j \in DOMAIN stdout' : Follows(m, stdout'[j], n)
      <4> TAKE j \in DOMAIN stdout'
      <4>1. j + 1 \in DOMAIN stdout /\ stdout'[j] = stdout[j + 1] /\ 1 < j + 1
        BY PipeShortens
      <4> QED
        BY <1>1, <3>1, <4>1 DEF Course, Heard, m
    <3>4. m.n = n => /\ \A i \in DOMAIN stdout' : ~IsNote(stdout'[i])
                     /\ Codex => n \in joined'
      <4> SUFFICES ASSUME m.n = n
                   PROVE  /\ \A i \in DOMAIN stdout' : ~IsNote(stdout'[i])
                          /\ Codex => n \in joined'
        OBVIOUS
      <4>1. \A i \in DOMAIN stdout' : ~IsNote(stdout'[i])
        BY <1>3, <3>3 DEF Follows, About, Announces
      <4>2. Codex => ~Await
        <5> SUFFICES ASSUME Codex, Await PROVE FALSE
          OBVIOUS
        <5>1. About(m, n)
          BY <1>3 DEF About
        <5>2. PICK j \in DOMAIN stdout : j <= 1 /\ Answers(stdout[j], n)
          BY <1>1, <3>1, <5>1 DEF Course, Heard, m
        <5>3. j = 1
          BY <1>1, <5>2, PipeShortens
        <5> QED
          BY <3>2, <5>2, <5>3 DEF m
      <4> QED
        BY <1>3, <3>1, <4>1, <4>2 DEF Await, Answered
    <3>5. n \in seen => /\ \A i \in DOMAIN stdout' : ~IsNote(stdout'[i])
                        /\ Codex => n \in joined'
      BY <1>3, <3>1, PipeShortens DEF Course, Over
    <3>6. n \in seen' => /\ \A i \in DOMAIN stdout' : ~IsNote(stdout'[i])
                         /\ Codex => n \in joined'
      BY <1>3, <3>4, <3>5
    <3> QED
      BY <1>1, <2>1, <3>1, <3>2, <3>6, CourseShortens DEF m
  <2>6. HandleKnows'
    <3> SUFFICES ASSUME ~Dead, n \notin overdue, ~Codex, task.at = "turn"
                 PROVE  /\ handle'.status \in {"completed", "failed"}
                        /\ ~Foul => n \in seen'
                        /\ ~Foul => handle'.text \subseteq {n}
      BY <1>1, <1>9, <1>12, <2>1 DEF HandleKnows
    <3>1. handle'.status = s /\ handle'.text = handle.text
      BY <1>3, <1>6
    <3>2. ~Foul => n \in seen'
      BY <1>3, <1>7
    <3> QED
      BY <1>5, <3>1, <3>2 DEF SessionInv, HandleKnows
  <2>7. NoWaitIsVain'
    BY <1>12, <2>1 DEF NoWaitIsVain
  <2> QED
    BY <1>3, <1>6, <1>8, <2>1, <2>2, <2>3, <2>4, <2>5, <2>6, <2>7, ReceiptKeeps
<1> QED
  BY <1>11, <1>12

LEMMA DeliverKeeps ==
  ASSUME SessionInv, Deliver
  PROVE  SessionInv'
<1>1. stdout \in Seq(Messages) /\ chunk \in Nat
  BY DEF SessionInv, SessionTypeOK
<1>2. chunk' \in Nat
  BY <1>1 DEF Deliver
<1>3. Receives
  BY <1>2 DEF Deliver, Receives
<1>4. TakeReply(Head(stdout)) \/ TakeNote(Head(stdout)) \/ TakeEnd(Head(stdout))
  BY DEF Deliver
<1> QED
  BY <1>3, <1>4, TakeReplyKeeps, TakeNoteKeeps, TakeEndKeeps

-----------------------------------------------------------------------------
LEMMA SessionStep ==
  ASSUME SessionInv, [SessionNext]_sessionVars
  PROVE  SessionInv'
<1>1. CASE SessionNext
  BY <1>1, TaskKeeps, CommandKeeps, CommandDoneKeeps, ServeKeeps, WorkKeeps, LostKeeps,
     DeliverKeeps, ExitedKeeps, RequestTimeoutKeeps, CallTimeoutKeeps, TurnTimeoutKeeps
     DEF SessionNext, Timeout
<1>2. CASE UNCHANGED sessionVars
  <2>1. UNCHANGED <<plan, server, stdin, stdout, chunk, handle, pending, task, call, result,
                    history, mishaps>>
    BY <1>2 DEF sessionVars, pipes, host
  <2>2. SessionTypeOK'
    BY <2>1 DEF SessionInv, SessionTypeOK
  <2> QED
    BY <2>1, <2>2, AsideKeeps
<1> QED
  BY <1>1, <1>2

(* What the supervisor knows of its session stays true of the server's     *)
(* turns: the inductive invariant.                                         *)
THEOREM SessionInvariant == SessionSpec => []SessionInv
<1>1. SessionInit => SessionInv
  BY SessionStarts
<1>2. SessionInv /\ [SessionNext]_sessionVars => SessionInv'
  BY SessionStep
<1> QED
  BY <1>1, <1>2, PTL DEF SessionSpec

(* A completed assignment carries its own turn's output, after its end,    *)
(* whatever is late, lost or repeated (OwnAnswer).                         *)
THEOREM AnswersAreOwn == SessionSpec => []OwnAnswer
<1>1. SessionInv => OwnAnswer
  BY DEF SessionInv, ResultsHold
<1> QED
  BY <1>1, SessionInvariant, PTL

(* Nobody waits for the end of a turn that was already delivered           *)
(* (EndIsSeen).                                                            *)
THEOREM NoEndIsMissed == SessionSpec => []EndIsSeen
<1>1. SessionInv => EndIsSeen
  BY DEF SessionInv, NoWaitIsVain, EndIsSeen
<1> QED
  BY <1>1, SessionInvariant, PTL
=============================================================================
