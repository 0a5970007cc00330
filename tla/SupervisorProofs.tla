-------------------------- MODULE SupervisorProofs --------------------------
(***************************************************************************)
(* Proofs of the supervisor's safety properties, for every tree of DNs,    *)
(* every choice of groups and every bound on the runs in flight.           *)
(***************************************************************************)
EXTENDS Supervisor, Integers, TLAPS

(* What the proofs use of the tree of DNs: a DN is on its own path, its    *)
(* parent is, and whatever else is on the path is on the parent's.         *)
LEMMA PathFacts ==
    /\ \A d \in DN : d \in Path[d] /\ Path[d] \subseteq DN
    /\ \A d \in DN \ {Root} :
          /\ Parent[d] \in DN
          /\ Parent[d] \in Path[d]
          /\ \A a \in Path[d] : a # d => a \in Path[Parent[d]]
    /\ \A c \in DN : \A d \in Path[c] : \A a \in Path[d] : a \in Path[c]
    /\ \A c \in DN : \A a, b \in Path[c] : a \in Path[b] \/ b \in Path[a]
    /\ \A d \in DN : \A a \in Path[d] : d \in Path[a] => a = d
<1>1. \A d \in DN : d \in Path[d] /\ Path[d] \subseteq DN
  BY TreeAssumption, ZenonT(30)
<1>2. ASSUME NEW d \in DN \ {Root}
      PROVE  /\ Parent[d] \in DN
             /\ Parent[d] \in Path[d]
             /\ \A a \in Path[d] : a # d => a \in Path[Parent[d]]
  BY <1>1, TreeAssumption
<1>3. \A c \in DN : \A d \in Path[c] : \A a \in Path[d] : a \in Path[c]
  BY TreeAssumption
<1>4. \A c \in DN : \A a, b \in Path[c] : a \in Path[b] \/ b \in Path[a]
  BY TreeAssumption
<1>5. ASSUME NEW d \in DN, NEW a \in Path[d], d \in Path[a], a # d
      PROVE  FALSE
  <2>1. d # Root
    BY <1>5, TreeAssumption
  <2>2. a \in Path[Parent[d]] /\ Parent[d] \in DN
    BY <1>2, <1>5, <2>1
  <2>3. d \in Path[Parent[d]]
    BY <1>3, <1>5, <2>2
  <2>4. QED
    BY <2>1, <2>3, TreeAssumption
<1>6. QED
  BY <1>1, <1>2, <1>3, <1>4, <1>5

-----------------------------------------------------------------------------

(* Collecting or sending one died request keeps the type of the counts. *)
LEMMA DiedCount ==
    ASSUME NEW x \in [DN -> [Err -> Nat]], NEW d \in DN, NEW e \in Err
    PROVE  /\ [x EXCEPT ![d][e] = @ + 1] \in [DN -> [Err -> Nat]]
           /\ x[d][e] > 0 => [x EXCEPT ![d][e] = @ - 1] \in [DN -> [Err -> Nat]]
<1>1. x[d] \in [Err -> Nat] /\ x[d][e] \in Nat
  OBVIOUS
<1>2. [x[d] EXCEPT ![e] = @ + 1] \in [Err -> Nat]
  BY <1>1
<1>3. x[d][e] > 0 => [x[d] EXCEPT ![e] = @ - 1] \in [Err -> Nat]
  BY <1>1
<1>4. QED
  BY <1>2, <1>3

LEMMA InitType == Init => TypeOK
  BY TreeAssumption DEF Init, TypeOK, NodeState, Err

LEMMA NextType == TypeOK /\ [Next]_vars => TypeOK'
<1> SUFFICES ASSUME TypeOK, [Next]_vars
             PROVE  TypeOK'
  OBVIOUS
<1> USE DEF TypeOK, NodeState
<1>1. ASSUME NEW p \in DN, NEW g \in Groups[p], RunGroup(p, g)
      PROVE  TypeOK'
  BY <1>1, GroupsAssumption DEF RunGroup, RequestSchedule
<1>2. ASSUME NEW d \in DN, SignalHealthy(d) \/ SignalDone(d)
      PROVE  TypeOK'
  BY <1>2 DEF SignalHealthy, SignalDone
<1>3. ASSUME NEW d \in DN, NEW e \in Err, Return(d, e) \/ ReturnStale(d, e)
      PROVE  TypeOK'
  <2>1. died' \in [DN -> [Err -> Nat]]
    <3>1. died' = [died EXCEPT ![d][e] = @ + 1]
      BY <1>3 DEF Return, ReturnStale
    <3>2. died \in [DN -> [Err -> Nat]]
      OBVIOUS
    <3>3. QED
      BY <1>3, <3>1, <3>2, DiedCount
  <2>2. CASE Return(d, e)
    BY <2>1, <2>2 DEF Return
  <2>3. CASE ReturnStale(d, e)
    BY <2>1, <2>3 DEF ReturnStale
  <2>4. QED
    BY <1>3, <2>2, <2>3
<1>4. ASSUME NEW d \in DN, FromContextPanic(d)
      PROVE  TypeOK'
  <2>1. "err" \in Err
    BY DEF Err
  <2>2. died' \in [DN -> [Err -> Nat]]
    BY <1>4, <2>1, DiedCount DEF FromContextPanic
  <2>3. QED
    BY <1>4, <2>2 DEF FromContextPanic
<1>5. ASSUME Crash
      PROVE  TypeOK'
  BY <1>5 DEF Crash
<1>6. ASSUME NEW d \in DN, ProcessSchedule(d)
      PROVE  TypeOK'
  <2>1. CASE d \notin tree
    BY <1>5, <1>6, <2>1 DEF ProcessSchedule
  <2>2. CASE d \in tree
    <3>1. sched' \in [DN -> Nat] /\ run' \in [DN -> Nat] /\ gc' = "dirty"
      BY <1>6, <2>2 DEF ProcessSchedule, StartRunnable, MarkDirty, Scheduled
    <3>2. UNCHANGED <<tree, state, canceled, group, stale, died, proc, mu, race>>
      BY <1>6, <2>2 DEF ProcessSchedule, StartRunnable
    <3>3. QED
      BY <3>1, <3>2
  <2>3. QED
    BY <2>1, <2>2
<1>7. ASSUME NEW d \in DN, NEW e \in Err, ProcessDied(d, e)
      PROVE  TypeOK'
  <2>1. CASE d \notin tree
    BY <1>5, <1>7, <2>1 DEF ProcessDied
  <2>2. CASE d \in tree
    <3>1. Outcome(d, e) \in NodeState
      BY DEF Outcome
    <3>2. canceled' \in SUBSET tree
      BY <1>7, <2>2 DEF ProcessDied, RecordResult, Cancel
    <3>3. died' \in [DN -> [Err -> Nat]]
      <4>1. died' = [died EXCEPT ![d][e] = @ - 1] /\ died[d][e] > 0
        BY <1>7, <2>2 DEF ProcessDied, RecordResult
      <4>2. died \in [DN -> [Err -> Nat]]
        OBVIOUS
      <4>3. QED
        BY <1>7, <4>1, <4>2, DiedCount
    <3>4. state' \in [DN -> NodeState] /\ gc' = "dirty"
      BY <1>7, <2>2, <3>1 DEF ProcessDied, RecordResult, MarkDirty
    <3>5. UNCHANGED <<tree, group, sched, run, stale, proc, mu, race>>
      BY <1>7, <2>2 DEF ProcessDied, RecordResult
    <3>6. QED
      BY <3>2, <3>3, <3>4, <3>5
  <2>3. QED
    BY <2>1, <2>2
<1>8. ASSUME ProcessGC
      PROVE  TypeOK'
  <2>1. Can \subseteq tree /\ Can \cap Dropped(Can) = {}
    BY DEF Can, Restartable, Dropped
  <2>2. tree' \in SUBSET DN /\ canceled' \in SUBSET tree'
    BY <1>8, <2>1 DEF ProcessGC, Reset
  <2>3. /\ state' \in [DN -> NodeState]
        /\ group' \in [DN -> SUBSET DN]
    BY <1>8 DEF ProcessGC, Reset
  <2>4. /\ run' \in [DN -> Nat]
        /\ stale' \in [DN -> Nat]
        /\ sched' \in [DN -> Nat]
    BY <1>8 DEF ProcessGC, Reset, RequestSchedule
  <2>5. QED
    BY <1>8, <2>2, <2>3, <2>4 DEF ProcessGC
<1>9. ASSUME ProcessKill
      PROVE  TypeOK'
  BY <1>9 DEF ProcessKill, Cancel
<1>10. ASSUME NEW d \in DN, LiquidateSchedule(d)
       PROVE  TypeOK'
  BY <1>5, <1>10 DEF LiquidateSchedule, Liquidate, Scheduled
<1>11. ASSUME NEW d \in DN, NEW e \in Err, LiquidateDied(d, e)
       PROVE  TypeOK'
  <2>1. CASE d \notin tree
    BY <1>5, <1>11, <2>1 DEF LiquidateDied
  <2>2. CASE d \in tree
    <3>1. died' \in [DN -> [Err -> Nat]]
      <4>1. died' = [died EXCEPT ![d][e] = @ - 1] /\ died[d][e] > 0
        BY <1>11, <2>2 DEF LiquidateDied
      <4>2. died \in [DN -> [Err -> Nat]]
        OBVIOUS
      <4>3. QED
        BY <1>11, <4>1, <4>2, DiedCount
    <3>2. QED
      BY <1>11, <2>2, <3>1 DEF LiquidateDied, Liquidate
  <2>3. QED
    BY <2>1, <2>2
<1>12. CASE UNCHANGED vars
  BY <1>12 DEF vars
<1>13. QED
  BY <1>1, <1>2, <1>3, <1>4, <1>6, <1>7, <1>8, <1>9, <1>10, <1>11, <1>12
  DEF Next, Runnables, Processor

(* The variables of the supervisor keep their types (TypeOK). *)
THEOREM TypeCorrect == Spec => []TypeOK
<1>1. QED
  BY InitType, NextType, PTL DEF Spec

-----------------------------------------------------------------------------
(* The shape of the tree.                                                  *)

TreeInv ==
    TypeOK /\ CancelPropagates /\ StoppedIsCanceled /\ GroupsDisjoint /\ KillReachesAll

(* The nodes the GC picks lie on different branches, so its traversal loses *)
(* nothing by not looking below them: processGC restarts every restartable *)
(* subtree in one pass.                                                    *)
LEMMA CanIsRestartable == TreeInv => Can = Restartable
<1> SUFFICES ASSUME TreeInv, NEW d \in Restartable, NEW r \in Path[d], r \in Restartable
             PROVE  r = d
  BY PathFacts DEF Can, TreeInv, TypeOK, Restartable
<1>1. d \in tree /\ r \in tree /\ d \in DN /\ r \in DN
  BY DEF Restartable, TreeInv, TypeOK
<1>2. r \in canceled
  BY DEF Restartable, TreeInv, StoppedIsCanceled
<1>3. SUFFICES ASSUME r # d PROVE FALSE
  OBVIOUS
<1>4. d # Root
  BY <1>3, TreeAssumption
<1>5. r \in Path[Parent[d]] /\ Parent[d] \in tree
  BY <1>1, <1>3, <1>4, PathFacts DEF TreeInv, CancelPropagates
<1>6. Parent[d] \in canceled
  BY <1>2, <1>5 DEF TreeInv, CancelPropagates
<1>7. QED
  BY <1>4, <1>6 DEF Restartable, BornCanceled

LEMMA RunGroupTree ==
    ASSUME TreeInv, TypeOK', NEW p \in DN, NEW g \in Groups[p], RunGroup(p, g)
    PROVE  TreeInv'
<1> USE DEF TreeInv
<1>1. /\ p \in tree
      /\ g \cap tree = {}
      /\ tree' = tree \union g
      /\ canceled' = canceled \union {d \in g : BornCanceled(d)}
      /\ g \subseteq DN \ {Root}
      /\ \A c \in g : Parent[c] = p
  BY GroupsAssumption DEF RunGroup, FromContext
<1>2. CancelPropagates'
  <2> SUFFICES ASSUME NEW d \in tree', NEW a \in Path[d]
               PROVE  a \in tree' /\ (a \in canceled' => d \in canceled')
    BY DEF CancelPropagates
  <2>1. CASE d \in tree
    BY <1>1, <2>1 DEF CancelPropagates
  <2>2. CASE d \in g
    <3>1. a = d \/ a \in Path[p]
      BY <1>1, <2>2, PathFacts
    <3>2. CASE a = d
      BY <1>1, <2>2, <3>2
    <3>3. CASE a \in Path[p]
      <4>1. a \in tree /\ (a \in canceled => p \in canceled)
        BY <1>1, <3>3 DEF CancelPropagates
      <4>2. QED
        BY <1>1, <2>2, <4>1 DEF BornCanceled
    <3>4. QED
      BY <3>1, <3>2, <3>3
  <2>3. QED
    BY <1>1, <2>1, <2>2
<1>3. StoppedIsCanceled'
  <2>1. \A d \in tree' : Want(d)' => d \in tree /\ Want(d)
    BY <1>1 DEF RunGroup, Want, TypeOK
  <2>2. QED
    BY <1>1, <2>1 DEF StoppedIsCanceled
<1>4. GroupsDisjoint'
  <2>1. \A d \in DN : group'[d] = IF d \in g THEN g ELSE group[d]
    BY DEF RunGroup
  <2>2. QED
    BY <1>1, <2>1 DEF GroupsDisjoint, TypeOK
<1>5. KillReachesAll'
  <2>1. proc' = proc
    BY DEF RunGroup
  <2>2. QED
    BY <1>1, <2>1 DEF KillReachesAll, BornCanceled
<1>6. QED
  BY <1>2, <1>3, <1>4, <1>5

LEMMA CancelTree ==
    ASSUME TreeInv, NEW S, Cancel(S), tree' = tree
    PROVE  CancelPropagates' /\ canceled \subseteq canceled' /\ tree \cap S \subseteq canceled'
<1> USE DEF TreeInv
<1>1. canceled' = canceled \union {c \in tree : Path[c] \cap S # {}}
  BY DEF Cancel
<1>2. ASSUME NEW d \in tree, NEW a \in Path[d], a \in canceled'
      PROVE  d \in canceled'
  <2>1. CASE a \in canceled
    BY <1>1, <2>1 DEF CancelPropagates
  <2>2. CASE Path[a] \cap S # {}
    <3>1. Path[a] \subseteq Path[d]
      BY PathFacts DEF TypeOK
    <3>2. QED
      BY <1>1, <2>2, <3>1
  <2>3. QED
    BY <1>1, <1>2, <2>1, <2>2
<1>3. CancelPropagates'
  BY <1>2 DEF CancelPropagates
<1>4. QED
  BY <1>1, <1>3, PathFacts DEF TypeOK

LEMMA ProcessDiedTree ==
    ASSUME TreeInv, TypeOK', NEW d \in DN, NEW e \in Err,
           d \in tree, proc = "running", RecordResult(d, e)
    PROVE  TreeInv'
<1> USE DEF TreeInv
<1>1. tree' = tree /\ group' = group
  BY DEF RecordResult
<1>2. /\ state' = [state EXCEPT ![d] = Outcome(d, e)]
      /\ Outcome(d, e) \in {"done", "canceled", "dead"}
      /\ Outcome(d, e) = "canceled" => d \in canceled
  BY DEF RecordResult, Outcome
<1>3. GroupsDisjoint' /\ KillReachesAll'
  BY <1>1 DEF GroupsDisjoint, KillReachesAll, RecordResult
<1>4. CASE Outcome(d, e) = "dead"
  <2>1. Cancel({d} \union group[d])
    BY <1>4 DEF RecordResult
  <2>2. CancelPropagates' /\ canceled \subseteq canceled' /\ d \in canceled'
    BY <1>1, <2>1, CancelTree
  <2>3. StoppedIsCanceled'
    BY <1>1, <1>2, <2>2 DEF StoppedIsCanceled, Want, TypeOK
  <2>4. QED
    BY <1>3, <2>2, <2>3
<1>5. CASE Outcome(d, e) # "dead"
  <2>1. canceled' = canceled
    BY <1>5 DEF RecordResult
  <2>2. CancelPropagates'
    BY <1>1, <2>1 DEF CancelPropagates
  <2>3. StoppedIsCanceled'
    BY <1>1, <1>2, <1>5, <2>1 DEF StoppedIsCanceled, Want, TypeOK
  <2>4. QED
    BY <1>3, <2>2, <2>3
<1>6. QED
  BY <1>4, <1>5

LEMMA ProcessGCTree ==
    ASSUME TreeInv, TypeOK', ProcessGC
    PROVE  TreeInv'
<1> USE DEF TreeInv
<1>1. /\ tree' = tree \ Dropped(Can)
      /\ \A d \in DN : state'[d] = IF d \in Can \union Dropped(Can) THEN "new" ELSE state[d]
      /\ \A d \in DN : group'[d] = IF d \in Dropped(Can) THEN {} ELSE group[d]
      /\ canceled' = (canceled \ (Can \union Dropped(Can))) \union {d \in Can : BornCanceled(d)}
  BY DEF ProcessGC, Reset
<1>2. /\ Can \subseteq tree
      /\ \A d \in Can : ~BornCanceled(d)
      /\ \A d \in Can : \A r \in Path[d] : r \in Can => r = d
  BY DEF Can, Restartable
<1>3. \A d \in tree : d \in Can \/ d \in Dropped(Can) \/ Path[d] \cap Can = {}
  BY DEF Dropped
<1>4. \A d \in Dropped(Can) : d \in tree \ Can /\ Path[d] \cap Can # {}
  BY DEF Dropped
<1>5. CancelPropagates'
  <2> SUFFICES ASSUME NEW d \in tree', NEW a \in Path[d]
               PROVE  a \in tree' /\ (a \in canceled' => d \in canceled')
    BY DEF CancelPropagates
  <2>1. d \in tree /\ d \in DN /\ a \in tree /\ a \in DN /\ d \notin Dropped(Can)
    BY <1>1 DEF CancelPropagates, TypeOK
  <2>2. a \notin Dropped(Can)
    <3> SUFFICES ASSUME a \in Dropped(Can) PROVE FALSE
      OBVIOUS
    <3>1. PICK r \in Path[a] : r \in Can
      BY <1>4
    <3>2. r \in Path[d]
      BY <2>1, PathFacts
    <3>3. r = d
      BY <1>2, <1>3, <2>1, <3>1, <3>2
    <3>4. a = d
      BY <2>1, <3>3, PathFacts
    <3>5. QED
      BY <2>1, <3>4
  <2>3. ASSUME a \in canceled' PROVE d \in canceled'
    <3>1. a \in canceled /\ a \notin Can
      BY <1>1, <1>2, <2>3
    <3>2. d \in canceled
      BY <2>1, <3>1 DEF CancelPropagates
    <3>3. d \notin Can
      <4> SUFFICES ASSUME d \in Can PROVE FALSE
        OBVIOUS
      <4>1. a # d /\ d # Root
        BY <3>1, TreeAssumption
      <4>2. Parent[d] \in tree /\ a \in Path[Parent[d]]
        BY <2>1, <4>1, PathFacts DEF CancelPropagates
      <4>3. Parent[d] \in canceled
        BY <3>1, <4>2 DEF CancelPropagates
      <4>4. QED
        BY <1>2, <4>1, <4>3 DEF BornCanceled
    <3>4. QED
      BY <1>1, <2>1, <3>2, <3>3
  <2>4. QED
    BY <1>1, <2>1, <2>2, <2>3
<1>6. StoppedIsCanceled'
  <2>1. \A d \in tree' : Want(d)' => d \in canceled /\ d \notin Can /\ d \notin Dropped(Can)
    BY <1>1 DEF StoppedIsCanceled, Want, TypeOK
  <2>2. QED
    BY <1>1, <2>1 DEF StoppedIsCanceled
<1>7. GroupsDisjoint'
  <2> SUFFICES ASSUME NEW d \in tree' \ {Root}
               PROVE  /\ d \in group'[d]
                      /\ \A s \in group'[d] :
                            /\ s \in tree' \ {Root}
                            /\ Parent[s] = Parent[d]
                            /\ group'[s] = group'[d]
    BY DEF GroupsDisjoint
  <2>1. d \in tree /\ d \in DN /\ d \notin Dropped(Can) /\ group'[d] = group[d]
    BY <1>1 DEF TypeOK
  <2>2. ASSUME NEW s \in group[d]
        PROVE  s \in tree' \ {Root} /\ Parent[s] = Parent[d] /\ group'[s] = group[d]
    <3>1. s \in tree \ {Root} /\ Parent[s] = Parent[d] /\ group[s] = group[d] /\ s \in DN
      BY <2>1 DEF GroupsDisjoint, TypeOK
    <3>2. s \notin Dropped(Can)
      <4> SUFFICES ASSUME s \in Dropped(Can) PROVE FALSE
        OBVIOUS
      <4>1. PICK r \in Path[s] : r \in Can
        BY <1>4
      <4>2. r # s
        BY <1>4, <4>1
      <4>3. r \in Path[Parent[d]]
        BY <3>1, <4>2, PathFacts
      <4>4. r \in Path[d] /\ r # d
        BY <2>1, <4>3, TreeAssumption
      <4>5. QED
        BY <1>2, <1>3, <2>1, <4>1, <4>4
    <3>3. QED
      BY <1>1, <3>1, <3>2
  <2>3. QED
    BY <2>1, <2>2 DEF GroupsDisjoint
<1>8. KillReachesAll'
  BY DEF KillReachesAll, ProcessGC, Processing
<1>9. QED
  BY <1>5, <1>6, <1>7, <1>8

LEMMA LiquidateTree ==
    ASSUME TreeInv, TypeOK', NEW d \in tree, proc = "liquidating", Liquidate(d)
    PROVE  TreeInv'
<1> USE DEF TreeInv
<1>1. /\ tree' = tree /\ canceled' = canceled /\ group' = group
      /\ state' = [state EXCEPT ![d] = "dead"]
  BY DEF Liquidate
<1>2. StoppedIsCanceled'
  BY <1>1 DEF StoppedIsCanceled, KillReachesAll, Want, TypeOK
<1>3. QED
  BY <1>1, <1>2 DEF CancelPropagates, GroupsDisjoint, KillReachesAll

LEMMA InitTree == Init => TreeInv
  BY InitType, TreeAssumption
  DEF Init, TreeInv, CancelPropagates, StoppedIsCanceled, GroupsDisjoint, KillReachesAll, Want

LEMMA NextTree == TreeInv /\ [Next]_vars => TreeInv'
<1> SUFFICES ASSUME TreeInv, [Next]_vars
             PROVE  TreeInv'
  OBVIOUS
<1>0. TypeOK /\ TypeOK'
  BY NextType DEF TreeInv
<1>1. ASSUME NEW p \in DN, NEW g \in Groups[p], RunGroup(p, g)
      PROVE  TreeInv'
  BY <1>0, <1>1, RunGroupTree
<1>2. ASSUME NEW d \in DN, SignalHealthy(d) \/ SignalDone(d)
      PROVE  TreeInv'
  <2>1. /\ UNCHANGED <<tree, canceled, group, proc>>
        /\ \A c \in DN : Want(c)' => Want(c)
    BY <1>0, <1>2 DEF SignalHealthy, SignalDone, Want, TypeOK
  <2>2. QED
    BY <1>0, <2>1
    DEF TreeInv, CancelPropagates, StoppedIsCanceled, GroupsDisjoint, KillReachesAll, TypeOK
<1>3. ASSUME UNCHANGED <<tree, state, canceled, group>>, proc' = proc \/ proc' = "crashed"
      PROVE  TreeInv'
  BY <1>0, <1>3
  DEF TreeInv, CancelPropagates, StoppedIsCanceled, GroupsDisjoint, KillReachesAll, Want
<1>4. ASSUME NEW d \in DN, NEW e \in Err, Return(d, e) \/ ReturnStale(d, e)
      PROVE  TreeInv'
  BY <1>3, <1>4 DEF Return, ReturnStale
<1>5. ASSUME Crash
      PROVE  TreeInv'
  BY <1>3, <1>5 DEF Crash
<1>6. ASSUME NEW d \in DN, ProcessSchedule(d)
      PROVE  TreeInv'
  BY <1>3, <1>5, <1>6 DEF ProcessSchedule, StartRunnable
<1>7. ASSUME NEW d \in DN, NEW e \in Err, ProcessDied(d, e)
      PROVE  TreeInv'
  BY <1>0, <1>5, <1>7, ProcessDiedTree DEF ProcessDied, Processing
<1>8. ASSUME ProcessGC
      PROVE  TreeInv'
  BY <1>0, <1>8, ProcessGCTree
<1>9. ASSUME ProcessKill
      PROVE  TreeInv'
  <2>1. /\ UNCHANGED <<tree, state, group>>
        /\ Cancel(tree)
    BY <1>9 DEF ProcessKill
  <2>2. CancelPropagates' /\ canceled \subseteq canceled' /\ tree \subseteq canceled'
    BY <2>1, CancelTree
  <2>3. QED
    BY <1>0, <2>1, <2>2
    DEF TreeInv, StoppedIsCanceled, GroupsDisjoint, KillReachesAll, Want, TypeOK
<1>10. ASSUME NEW d \in DN, LiquidateSchedule(d)
       PROVE  TreeInv'
  BY <1>0, <1>5, <1>10, LiquidateTree DEF LiquidateSchedule
<1>11. ASSUME NEW d \in DN, NEW e \in Err, LiquidateDied(d, e)
       PROVE  TreeInv'
  BY <1>0, <1>5, <1>11, LiquidateTree DEF LiquidateDied
<1>12. ASSUME NEW d \in DN, FromContextPanic(d)
       PROVE  TreeInv'
  BY <1>3, <1>12 DEF FromContextPanic
<1>13. CASE UNCHANGED vars
  BY <1>3, <1>13 DEF vars
<1>14. QED
  BY <1>1, <1>2, <1>4, <1>6, <1>7, <1>8, <1>9, <1>10, <1>11, <1>12, <1>13
  DEF Next, Runnables, Processor

(* Whatever runnables do, and in whatever order their returns are received: *)
(* the tree has no orphans and cancellation reaches everything below       *)
(* (CancelPropagates), DEAD and CANCELED nodes are canceled                *)
(* (StoppedIsCanceled), groups do not overlap (GroupsDisjoint) and the     *)
(* kill reaches every node (KillReachesAll).                               *)
THEOREM TreeSafe ==
    Spec => [](CancelPropagates /\ StoppedIsCanceled /\ GroupsDisjoint /\ KillReachesAll)
<1>1. Init => TreeInv
  BY InitTree
<1>2. TreeInv => CancelPropagates /\ StoppedIsCanceled /\ GroupsDisjoint /\ KillReachesAll
  BY DEF TreeInv
<1>3. QED
  BY <1>1, <1>2, NextTree, PTL DEF Spec

-----------------------------------------------------------------------------
(* How the runs in flight of a DN change.                                  *)

LEMMA LivesType ==
    ASSUME TypeOK, NEW d \in DN
    PROVE  /\ sched[d] \in Nat /\ run[d] \in Nat /\ stale[d] \in Nat /\ Returned(d) \in Nat
           /\ Lives(d) \in Nat
           /\ \A e \in Err : Returned(d) >= died[d][e]
<1>1. sched[d] \in Nat /\ run[d] \in Nat /\ stale[d] \in Nat
  BY DEF TypeOK
<1>2. died[d]["nil"] \in Nat /\ died[d]["ctx"] \in Nat /\ died[d]["err"] \in Nat
  BY DEF TypeOK, Err
<1>3. Returned(d) \in Nat
  BY <1>2 DEF Returned
<1>4. Lives(d) \in Nat
  BY <1>1, <1>3 DEF Lives
<1>5. ASSUME NEW e \in Err PROVE Returned(d) >= died[d][e]
  BY <1>2 DEF Returned, Err
<1>6. QED
  BY <1>1, <1>3, <1>4, <1>5

LEMMA ReturnedChange ==
    ASSUME TypeOK, NEW d \in DN, NEW e \in Err, NEW k \in {-1, 1},
           died' = [died EXCEPT ![d][e] = @ + k]
    PROVE  /\ Returned(d)' = Returned(d) + k
           /\ \A c \in DN \ {d} : Returned(c)' = Returned(c)
<1>1. died'[d] = [died[d] EXCEPT ![e] = @ + k] /\ \A c \in DN \ {d} : died'[c] = died[c]
  BY DEF TypeOK
<1>2. died[d] \in [Err -> Nat]
  BY DEF TypeOK
<1>3. Returned(d)' = Returned(d) + k
  <2>1. CASE e = "nil"
    BY <1>1, <1>2, <2>1 DEF Err, Returned
  <2>2. CASE e = "ctx"
    BY <1>1, <1>2, <2>2 DEF Err, Returned
  <2>3. CASE e = "err"
    BY <1>1, <1>2, <2>3 DEF Err, Returned
  <2>4. QED
    BY <2>1, <2>2, <2>3 DEF Err
<1>4. QED
  BY <1>1, <1>3 DEF Returned

LEMMA ReturnLives ==
    ASSUME TypeOK, NEW d \in DN, NEW e \in Err, sched' = sched,
           died' = [died EXCEPT ![d][e] = @ + 1],
           \/ run' = [run EXCEPT ![d] = @ - 1] /\ stale' = stale
           \/ stale' = [stale EXCEPT ![d] = @ - 1] /\ run' = run
    PROVE  \A c \in DN : Lives(c)' = Lives(c)
<1>1. /\ Returned(d)' = Returned(d) + 1
      /\ \A c \in DN \ {d} : Returned(c)' = Returned(c)
  BY ReturnedChange
<1>2. \A c \in DN \ {d} : Lives(c)' = Lives(c)
  <2>1. \A c \in DN \ {d} : run'[c] = run[c] /\ stale'[c] = stale[c]
    BY DEF TypeOK
  <2>2. QED
    BY <1>1, <2>1 DEF Lives
<1>3. sched[d] \in Nat /\ run[d] \in Nat /\ stale[d] \in Nat /\ Returned(d) \in Nat
  BY LivesType
<1>4. CASE run' = [run EXCEPT ![d] = @ - 1] /\ stale' = stale
  <2>1. Lives(d)' = sched[d] + (run[d] - 1) + stale[d] + (Returned(d) + 1)
    BY <1>1, <1>4 DEF Lives, TypeOK
  <2>2. \A s, r, t, x \in Nat : s + (r - 1) + t + (x + 1) = s + r + t + x
    OBVIOUS
  <2>3. Lives(d)' = Lives(d)
    BY <1>3, <2>1, <2>2 DEF Lives
  <2>4. QED
    BY <1>2, <2>3
<1>5. CASE stale' = [stale EXCEPT ![d] = @ - 1] /\ run' = run
  <2> DEFINE m == sched[d] + run[d]
  <2>1. /\ Lives(d)' = m + (stale[d] - 1) + (Returned(d) + 1)
        /\ Lives(d) = m + stale[d] + Returned(d)
    BY <1>1, <1>5 DEF Lives, TypeOK
  <2>2. m \in Nat
    BY <1>3
  <2>3. \A s, t, x \in Nat : s + (t - 1) + (x + 1) = s + t + x
    OBVIOUS
  <2> HIDE DEF m
  <2>4. Lives(d)' = Lives(d)
    BY <1>3, <2>1, <2>2, <2>3
  <2>5. QED
    BY <1>2, <2>4
<1>6. QED
  BY <1>4, <1>5

LEMMA CollectLives ==
    ASSUME TypeOK, NEW d \in DN, NEW e \in Err, UNCHANGED <<sched, run, stale>>,
           died' = [died EXCEPT ![d][e] = @ - 1]
    PROVE  /\ Lives(d)' = Lives(d) - 1
           /\ \A c \in DN \ {d} : Lives(c)' = Lives(c)
<1>1. died' = [died EXCEPT ![d][e] = @ + (-1)]
  BY DEF TypeOK
<1>2. /\ Returned(d)' = Returned(d) + (-1)
      /\ \A c \in DN \ {d} : Returned(c)' = Returned(c)
  BY <1>1, ReturnedChange
<1>3. QED
  BY <1>2, LivesType DEF Lives

LEMMA ScheduleLives ==
    ASSUME TypeOK, NEW d \in DN, StartRunnable(d)
    PROVE  \A c \in DN : Lives(c)' = Lives(c)
<1>1. stale' = stale /\ \A c \in DN : Returned(c)' = Returned(c)
  BY DEF StartRunnable, Returned
<1>2. /\ \A c \in DN \ {d} : sched'[c] = sched[c] /\ run'[c] = run[c]
      /\ sched'[d] = sched[d] - 1 /\ run'[d] = run[d] + 1
  BY DEF StartRunnable, TypeOK
<1>3. Lives(d)' = Lives(d)
  BY <1>1, <1>2, LivesType DEF Lives
<1>4. QED
  BY <1>1, <1>2, <1>3 DEF Lives

LEMMA LivesUnchanged ==
    ASSUME UNCHANGED <<sched, run, stale, died>>
    PROVE  \A c \in DN : Lives(c)' = Lives(c)
  BY DEF Lives, Returned

-----------------------------------------------------------------------------
(* The GC leaves nothing behind that it could have restarted.              *)

LEMMA GCRestartsAll ==
    ASSUME TreeInv, ProcessGC
    PROVE  Restartable' = {}
<1> USE DEF TreeInv
<1>1. /\ tree' = tree \ Dropped(Can)
      /\ \A d \in DN : state'[d] = IF d \in Can \union Dropped(Can) THEN "new" ELSE state[d]
      /\ canceled' = (canceled \ (Can \union Dropped(Can))) \union {d \in Can : BornCanceled(d)}
  BY DEF ProcessGC, Reset
<1>2. Can = Restartable /\ Can \subseteq tree /\ Can \cap Dropped(Can) = {}
  BY CanIsRestartable DEF Can, Restartable, Dropped
<1>3. \A d \in tree : Path[d] \cap Can # {} => d \in Can \/ d \in Dropped(Can)
  BY DEF Dropped
<1> SUFFICES ASSUME NEW d \in Restartable'
             PROVE  FALSE
  OBVIOUS
<1>4. /\ d \in tree /\ d \in tree' /\ d \in DN /\ Want(d)
      /\ d \notin Can /\ d \notin Dropped(Can)
  BY <1>1 DEF Restartable, Want, TypeOK
<1>5. Path[d] \cap Can = {}
  BY <1>3, <1>4
<1>6. ~BornCanceled(d)
  <2> SUFFICES ASSUME BornCanceled(d) PROVE FALSE
    OBVIOUS
  <2>1. d # Root /\ Parent[d] \in canceled
    BY DEF BornCanceled
  <2>2. Parent[d] \notin canceled'
    BY <2>1 DEF Restartable, BornCanceled
  <2>3. Parent[d] \in Can \union Dropped(Can)
    BY <1>1, <2>1, <2>2
  <2>4. Path[Parent[d]] \cap Can # {} /\ Parent[d] \in DN
    BY <1>4, <2>1, <2>3, PathFacts DEF Dropped
  <2>5. QED
    BY <1>4, <1>5, <2>1, <2>4, TreeAssumption
<1>7. Ready(d)
  <2> SUFFICES ASSUME NEW c \in Under(d)
               PROVE  state[c] \in Stopped
    BY DEF Ready
  <2>1. c \in tree /\ c \in DN /\ d \in Path[c]
    BY DEF Under, TypeOK
  <2>2. \A x \in tree' : d \in Path[x] => state'[x] \in Stopped
    BY DEF Restartable, Ready, Under
  <2>3. Path[c] \cap Can = {}
    <3> SUFFICES ASSUME NEW r \in Path[c], r \in Can PROVE FALSE
      OBVIOUS
    <3>1. r \in tree' /\ r \in DN /\ state'[r] = "new"
      BY <1>1, <1>2 DEF TypeOK
    <3>2. CASE r \in Path[d]
      BY <1>5, <3>2
    <3>3. CASE d \in Path[r]
      BY <2>2, <3>1, <3>3 DEF Stopped
    <3>4. QED
      BY <2>1, <3>2, <3>3, PathFacts
  <2>4. c \notin Can /\ c \notin Dropped(Can)
    BY <2>1, <2>3, PathFacts DEF Dropped
  <2>5. QED
    BY <1>1, <2>1, <2>2, <2>4
<1>8. QED
  BY <1>2, <1>4, <1>6, <1>7 DEF Restartable

(* A node that becomes restartable while the tree is not marked dirty does *)
(* so through a Signal(DONE) below it.                                     *)
LEMMA NextQuiescent ==
    ASSUME TreeInv, TreeInv', GCQuiescent, [Next]_vars
    PROVE  GCQuiescent'
<1> USE DEF TreeInv
<1>1. ASSUME NEW p \in DN, NEW g \in Groups[p], RunGroup(p, g)
      PROVE  GCQuiescent'
  <2>1. /\ g \cap tree = {} /\ tree' = tree \union g /\ gc' = gc /\ proc' = proc
        /\ canceled \subseteq canceled'
        /\ \A d \in DN : state'[d] = IF d \in g THEN "new" ELSE state[d]
    BY <1>1 DEF RunGroup
  <2>2. \A c \in DN \ g : Lives(c)' = Lives(c)
    BY <1>1 DEF RunGroup, RequestSchedule, Lives, Returned
  <2>3. ASSUME NEW d \in Restartable'
        PROVE  d \in Restartable
    <3>1. d \in tree /\ Want(d) /\ ~BornCanceled(d)
      BY <2>1, <2>3 DEF Restartable, Want, BornCanceled, TypeOK
    <3>2. Ready(d)
      BY <2>1, <2>3 DEF Restartable, Ready, Under, TypeOK
    <3>3. QED
      BY <3>1, <3>2 DEF Restartable
  <2>4. \A d \in DN : \A c \in Under(d) :
            state[c] = "done" /\ Lives(c) > 0 =>
                c \in Under(d)' /\ state'[c] = "done" /\ Lives(c)' > 0
    BY <2>1, <2>2 DEF Under, TypeOK
  <2>5. QED
    <3> SUFFICES ASSUME NEW d \in Restartable', proc = "running", gc = "clean"
                 PROVE  \E c \in Under(d)' : state'[c] = "done" /\ Lives(c)' > 0
      BY <2>1 DEF GCQuiescent
    <3>1. d \in Restartable /\ d \in DN
      BY <2>3 DEF Restartable, TypeOK
    <3>2. PICK c \in Under(d) : state[c] = "done" /\ Lives(c) > 0
      BY <3>1 DEF GCQuiescent
    <3>3. QED
      BY <2>4, <3>1, <3>2
<1>2. ASSUME NEW d \in DN, SignalHealthy(d) \/ SignalDone(d)
      PROVE  GCQuiescent'
  <2>1. /\ UNCHANGED <<tree, canceled, gc, proc>>
        /\ state[d] \in {"new", "healthy"}
        /\ d \in tree
        /\ \A c \in DN \ {d} : state'[c] = state[c]
        /\ state'[d] = "healthy" \/ state'[d] = "done"
    BY <1>2 DEF SignalHealthy, SignalDone, FromContext, TypeOK
  <2>2. \A c \in DN : Lives(c)' = Lives(c)
    BY <1>2, LivesUnchanged DEF SignalHealthy, SignalDone
  <2>3. Lives(d) > 0
    <3>1. run[d] + stale[d] > 0
      BY <1>2 DEF SignalHealthy, SignalDone, FromContext, Running
    <3>2. QED
      BY <3>1, LivesType DEF Lives
  <2>4. ASSUME NEW a \in Restartable', proc = "running", gc = "clean"
        PROVE  \E c \in Under(a)' : state'[c] = "done" /\ Lives(c)' > 0
    <3>1. a \in tree /\ a \in DN /\ a # d /\ Want(a) /\ ~BornCanceled(a)
      BY <2>1, <2>4 DEF Restartable, Want, BornCanceled, TypeOK
    <3>2. CASE a \in Path[d]
      <4>1. d \in Under(a)' /\ state'[d] \in Stopped
        BY <2>1, <2>4, <3>2 DEF Restartable, Ready, Under
      <4>2. QED
        BY <2>1, <2>2, <2>3, <4>1 DEF Stopped
    <3>3. CASE a \notin Path[d]
      <4>1. Ready(a)
        BY <2>1, <2>4, <3>3 DEF Restartable, Ready, Under, TypeOK
      <4>2. PICK c \in Under(a) : state[c] = "done" /\ Lives(c) > 0
        BY <2>4, <3>1, <4>1 DEF Restartable, GCQuiescent
      <4>3. c # d /\ c \in DN /\ c \in Under(a)'
        BY <2>1, <3>3 DEF Under, TypeOK
      <4>4. QED
        BY <2>1, <2>2, <4>2, <4>3
    <3>4. QED
      BY <3>2, <3>3
  <2>5. QED
    BY <2>1, <2>4 DEF GCQuiescent
<1>3. ASSUME UNCHANGED <<tree, state, canceled, gc, proc>>,
             \A c \in DN : Lives(c)' = Lives(c)
      PROVE  GCQuiescent'
  <2>1. Restartable' = Restartable
    BY <1>3 DEF Restartable, Want, Ready, Under, BornCanceled
  <2>2. \A d \in DN : Under(d)' = Under(d) /\ Under(d) \subseteq DN
    BY <1>3 DEF Under, TypeOK
  <2>3. ASSUME NEW d \in Restartable, proc = "running", gc = "clean"
        PROVE  \E c \in Under(d)' : state'[c] = "done" /\ Lives(c)' > 0
    <3>1. d \in DN
      BY DEF Restartable, TypeOK
    <3>2. PICK c \in Under(d) : state[c] = "done" /\ Lives(c) > 0
      BY <2>3 DEF GCQuiescent
    <3>3. QED
      BY <1>3, <2>2, <3>1, <3>2
  <2>4. QED
    BY <1>3, <2>1, <2>3 DEF GCQuiescent
<1>4. ASSUME NEW d \in DN, NEW e \in Err, Return(d, e) \/ ReturnStale(d, e)
      PROVE  GCQuiescent'
  <2>1. \A c \in DN : Lives(c)' = Lives(c)
    BY <1>4, ReturnLives DEF Return, ReturnStale
  <2>2. QED
    BY <1>3, <1>4, <2>1 DEF Return, ReturnStale
<1>5. ASSUME NEW d \in DN, FromContextPanic(d)
      PROVE  GCQuiescent'
  <2>1. \A c \in DN : Lives(c)' = Lives(c)
    BY <1>5, ReturnLives DEF FromContextPanic, Err
  <2>2. QED
    BY <1>3, <1>5, <2>1 DEF FromContextPanic
<1>6. ASSUME ProcessGC
      PROVE  GCQuiescent'
  BY <1>6, GCRestartsAll DEF GCQuiescent
<1>7. ASSUME gc' = "dirty" \/ proc' # "running"
      PROVE  GCQuiescent'
  BY <1>7 DEF GCQuiescent
<1>8. ASSUME NEW d \in DN, NEW e \in Err, ProcessSchedule(d) \/ ProcessDied(d, e)
      PROVE  GCQuiescent'
  BY <1>7, <1>8
  DEF ProcessSchedule, StartRunnable, ProcessDied, RecordResult, MarkDirty, Crash
<1>9. ASSUME NEW d \in DN, NEW e \in Err, LiquidateSchedule(d) \/ LiquidateDied(d, e) \/ ProcessKill
      PROVE  GCQuiescent'
  BY <1>7, <1>9 DEF LiquidateSchedule, LiquidateDied, Liquidate, Crash, ProcessKill
<1>10. CASE UNCHANGED vars
  BY <1>3, <1>10, LivesUnchanged DEF vars
<1>11. QED
  <2>1. "nil" \in Err /\ Root \in DN
    BY TreeAssumption DEF Err
  <2>2. QED
    BY <1>1, <1>2, <1>4, <1>5, <1>6, <1>8, <1>9, <1>10, <2>1 DEF Next, Runnables, Processor

(* The GC misses nothing (GCQuiescent): whenever processGC is skipped      *)
(* because the tree is clean, nothing can be restarted, or a DONE runnable *)
(* below has yet to return.                                                *)
THEOREM NothingMissed == Spec => []GCQuiescent
<1>1. Init => GCQuiescent
  BY TreeAssumption DEF Init, GCQuiescent, Restartable, Want
<1>2. Init => TreeInv
  BY InitTree
<1>3. QED
  BY <1>1, <1>2, NextTree, NextQuiescent, PTL DEF Spec

-----------------------------------------------------------------------------
(* Runs in flight, until the GC overtakes the return of a DONE runnable.   *)

LifeInv == TreeInv /\ OneRunEach /\ AllResolve

(* What the GC is about to reset has no run in flight. *)
LEMMA ReadyIsStopped ==
    ASSUME LifeInv, ProcessGC, Overtaken = {}, NEW r \in Can, NEW c \in DN, r \in Path[c]
    PROVE  Lives(c) = 0
<1> USE DEF LifeInv, TreeInv
<1>1. Lives(c) \in Nat
  BY LivesType
<1>2. CASE c \notin tree
  BY <1>1, <1>2 DEF AllResolve
<1>3. CASE c \in tree
  <2>1. state[c] \in Stopped
    BY <1>3 DEF Can, Restartable, Ready, Under
  <2>2. CASE state[c] = "done"
    BY <1>1, <1>3, <2>2 DEF Overtaken
  <2>3. CASE state[c] \in {"dead", "canceled"}
    BY <1>3, <2>3 DEF OneRunEach
  <2>4. QED
    BY <2>1, <2>2, <2>3 DEF Stopped
<1>4. QED
  BY <1>2, <1>3

LEMMA ProcessGCLife ==
    ASSUME LifeInv, TreeInv', ProcessGC, Overtaken = {}
    PROVE  OneRunEach' /\ AllResolve'
<1> USE DEF LifeInv, TreeInv
<1> DEFINE gone == Can \union Dropped(Can)
<1>1. /\ tree' = tree \ Dropped(Can)
      /\ \A d \in DN : state'[d] = IF d \in gone THEN "new" ELSE state[d]
      /\ \A d \in DN : stale'[d] = IF d \in gone THEN stale[d] + run[d] ELSE stale[d]
      /\ \A d \in DN : run'[d] = IF d \in gone THEN 0 ELSE run[d]
      /\ \A d \in DN : sched'[d] = IF d \in Can THEN sched[d] + 1 ELSE sched[d]
      /\ UNCHANGED <<died, mu, proc>>
  BY DEF ProcessGC, Reset, RequestSchedule
<1>2. \A d \in DN : Returned(d)' = Returned(d)
  BY <1>1 DEF Returned
<1>3. Can \subseteq tree /\ Can \cap Dropped(Can) = {} /\ gone \subseteq DN
  BY DEF Can, Restartable, Dropped, TypeOK
<1>4. ASSUME NEW d \in gone
      PROVE  sched[d] = 0 /\ run[d] = 0 /\ stale[d] = 0 /\ Returned(d) = 0
  <2>1. PICK r \in Can : r \in Path[d]
    BY <1>3, PathFacts DEF Dropped
  <2>2. Lives(d) = 0
    BY <1>3, <2>1, ReadyIsStopped
  <2>3. sched[d] \in Nat /\ run[d] \in Nat /\ stale[d] \in Nat /\ Returned(d) \in Nat
    BY <1>3, LivesType
  <2>4. \A s, y, t, x \in Nat : s + y + t + x = 0 => s = 0 /\ y = 0 /\ t = 0 /\ x = 0
    OBVIOUS
  <2>5. QED
    BY <2>2, <2>3, <2>4 DEF Lives
<1>5. \A d \in Can : Lives(d)' = 1 /\ stale'[d] = 0
  BY <1>1, <1>2, <1>3, <1>4 DEF Lives
<1>6. \A d \in Dropped(Can) : Lives(d)' = 0 /\ stale'[d] = 0
  BY <1>1, <1>2, <1>3, <1>4 DEF Lives
<1>7. \A d \in DN \ gone : Lives(d)' = Lives(d) /\ stale'[d] = stale[d]
  BY <1>1, <1>2 DEF Lives
<1>8. OneRunEach'
  <2> SUFFICES ASSUME NEW d \in tree'
               PROVE  /\ state'[d] \in {"new", "healthy"} => Lives(d)' = 1
                      /\ state'[d] \in {"dead", "canceled"} => Lives(d)' = 0
                      /\ state'[d] = "done" => Lives(d)' <= 1
    BY DEF OneRunEach
  <2>1. d \in tree /\ d \in DN /\ d \notin Dropped(Can)
    BY <1>1 DEF TypeOK
  <2>2. CASE d \in Can
    BY <1>1, <1>5, <2>1, <2>2
  <2>3. CASE d \notin Can
    BY <1>1, <1>7, <2>1, <2>3 DEF OneRunEach
  <2>4. QED
    BY <2>2, <2>3
<1>9. AllResolve'
  <2>1. \A d \in DN : stale'[d] = 0
    BY <1>5, <1>6, <1>7 DEF AllResolve
  <2>2. \A d \in DN : Lives(d)' > 0 => d \in tree'
    BY <1>1, <1>3, <1>6, <1>7 DEF AllResolve
  <2>3. QED
    BY <1>1, <2>1, <2>2 DEF AllResolve
<1>10. QED
  BY <1>8, <1>9

LEMMA NextLife ==
    ASSUME LifeInv, TreeInv', [Next]_vars, race' = "no"
    PROVE  LifeInv'
<1> USE DEF LifeInv, TreeInv
<1>1. ASSUME NEW p \in DN, NEW g \in Groups[p], RunGroup(p, g)
      PROVE  LifeInv'
  <2>1. /\ g \cap tree = {} /\ tree' = tree \union g /\ g \subseteq DN
        /\ UNCHANGED <<run, stale, died, proc, mu>>
        /\ \A d \in DN : state'[d] = IF d \in g THEN "new" ELSE state[d]
        /\ \A d \in DN : sched'[d] = IF d \in g THEN sched[d] + 1 ELSE sched[d]
    BY <1>1, GroupsAssumption DEF RunGroup, RequestSchedule
  <2>2. \A d \in DN : Returned(d)' = Returned(d)
    BY <2>1 DEF Returned
  <2>3. \A d \in DN \ g : Lives(d)' = Lives(d)
    BY <2>1, <2>2 DEF Lives
  <2>4. ASSUME NEW d \in g
        PROVE  Lives(d)' = 1
    <3>1. Lives(d) = 0 /\ d \in DN
      BY <2>1, LivesType DEF AllResolve
    <3>2. sched[d] \in Nat /\ run[d] \in Nat /\ stale[d] \in Nat /\ Returned(d) \in Nat
      BY <3>1, LivesType
    <3>3. \A s, r, t, x \in Nat : s + r + t + x = 0 => (s + 1) + r + t + x = 1
      OBVIOUS
    <3>4. QED
      BY <2>1, <2>2, <3>1, <3>2, <3>3 DEF Lives
  <2>5. OneRunEach'
    BY <2>1, <2>3, <2>4 DEF OneRunEach, TypeOK
  <2>6. AllResolve'
    BY <2>1, <2>3 DEF AllResolve
  <2>7. QED
    BY <2>5, <2>6
<1>2. ASSUME NEW d \in DN, SignalHealthy(d) \/ SignalDone(d)
      PROVE  LifeInv'
  <2>1. /\ UNCHANGED <<tree, stale, proc, mu>>
        /\ d \in tree
        /\ state[d] \in {"new", "healthy"}
        /\ state'[d] \in {"healthy", "done"}
        /\ \A c \in DN \ {d} : state'[c] = state[c]
    BY <1>2 DEF SignalHealthy, SignalDone, FromContext, TypeOK
  <2>2. \A c \in DN : Lives(c)' = Lives(c)
    BY <1>2, LivesUnchanged DEF SignalHealthy, SignalDone
  <2>3. Lives(d) = 1
    BY <2>1 DEF OneRunEach
  <2>4. OneRunEach'
    BY <2>1, <2>2, <2>3 DEF OneRunEach, TypeOK
  <2>5. AllResolve'
    BY <2>1, <2>2 DEF AllResolve
  <2>6. QED
    BY <2>4, <2>5
<1>3. ASSUME UNCHANGED <<tree, state, stale, proc, mu>>, \A c \in DN : Lives(c)' = Lives(c)
      PROVE  LifeInv'
  BY <1>3 DEF OneRunEach, AllResolve, TypeOK
<1>4. ASSUME NEW d \in DN, NEW e \in Err, Return(d, e)
      PROVE  LifeInv'
  <2>1. \A c \in DN : Lives(c)' = Lives(c)
    BY <1>4, ReturnLives DEF Return
  <2>2. QED
    BY <1>3, <1>4, <2>1, ZenonT(30) DEF Return
<1>5. ASSUME NEW d \in DN, NEW e \in Err, ReturnStale(d, e) \/ FromContextPanic(d)
      PROVE  FALSE
  BY <1>5 DEF ReturnStale, FromContextPanic, AllResolve
<1>6. ASSUME NEW d \in DN, sched[d] > 0
      PROVE  d \in tree /\ Lives(d) > 0
  <2>1. Lives(d) > 0
    BY <1>6, LivesType DEF Lives
  <2>2. QED
    BY <2>1 DEF AllResolve
<1>7. ASSUME NEW d \in DN, NEW e \in Err, died[d][e] > 0
      PROVE  d \in tree /\ Lives(d) > 0
  <2>1. Returned(d) > 0
    BY <1>7, LivesType DEF TypeOK
  <2>2. Lives(d) > 0
    BY <2>1, LivesType DEF Lives
  <2>3. QED
    BY <2>2 DEF AllResolve
<1>8. ASSUME NEW d \in DN, ProcessSchedule(d)
      PROVE  LifeInv'
  <2>1. StartRunnable(d)
    BY <1>6, <1>8 DEF ProcessSchedule, Scheduled
  <2>2. QED
    BY <1>3, <2>1, ScheduleLives DEF StartRunnable
<1>9. ASSUME NEW d \in tree, Lives(d) > 0,
             UNCHANGED <<tree, stale, mu>>, proc' # "crashed",
             \A c \in DN \ {d} : state'[c] = state[c] /\ Lives(c)' = Lives(c),
             Lives(d)' = Lives(d) - 1,
             state'[d] \in Stopped, state'[d] = "done" => state[d] = "done"
      PROVE  LifeInv'
  <2>1. d \in DN /\ Lives(d) = 1
    BY <1>9, LivesType, SMTT(30) DEF OneRunEach, TypeOK, NodeState
  <2>2. OneRunEach'
    BY <1>9, <2>1, SMTT(30) DEF OneRunEach, TypeOK, Stopped
  <2>3. AllResolve'
    BY <1>9, <2>1 DEF AllResolve
  <2>4. QED
    BY <2>2, <2>3
<1>10. ASSUME NEW d \in DN, NEW e \in Err, ProcessDied(d, e)
       PROVE  LifeInv'
  <2>1. d \in tree /\ Lives(d) > 0 /\ RecordResult(d, e) /\ proc = "running"
    BY <1>7, <1>10 DEF ProcessDied, Processing
  <2>2. /\ Lives(d)' = Lives(d) - 1
        /\ \A c \in DN \ {d} : Lives(c)' = Lives(c)
    BY <2>1, CollectLives DEF RecordResult
  <2>3. Outcome(d, e) \in Stopped /\ (Outcome(d, e) = "done" => state[d] = "done")
    BY DEF Outcome, Stopped
  <2>4. /\ state'[d] = Outcome(d, e)
        /\ \A c \in DN \ {d} : state'[c] = state[c]
        /\ UNCHANGED <<tree, stale, mu, proc>>
    BY <2>1 DEF RecordResult, TypeOK
  <2>5. QED
    BY <1>9, <2>1, <2>2, <2>3, <2>4
<1>11. ASSUME ProcessGC
       PROVE  LifeInv'
  <2>1. Overtaken = {}
    BY <1>11 DEF ProcessGC
  <2>2. QED
    BY <1>11, <2>1, ProcessGCLife
<1>12. ASSUME ProcessKill
       PROVE  LifeInv'
  <2>1. \A c \in DN : Lives(c)' = Lives(c)
    BY <1>12, LivesUnchanged DEF ProcessKill
  <2>2. QED
    BY <1>12, <2>1 DEF ProcessKill, OneRunEach, AllResolve, TypeOK
<1>13. ASSUME NEW d \in tree, proc = "liquidating", Liquidate(d)
       PROVE  /\ UNCHANGED <<tree, stale, mu>> /\ proc' # "crashed"
              /\ state'[d] = "dead"
              /\ \A c \in DN \ {d} : state'[c] = state[c]
  BY <1>13 DEF Liquidate, TypeOK
<1>14. ASSUME NEW d \in DN, LiquidateSchedule(d)
       PROVE  LifeInv'
  <2>1. /\ d \in tree /\ Lives(d) > 0 /\ proc = "liquidating" /\ Liquidate(d)
        /\ sched' = [sched EXCEPT ![d] = @ - 1] /\ UNCHANGED <<run, stale, died>>
    BY <1>6, <1>14 DEF LiquidateSchedule, Scheduled, Liquidate
  <2>2. \A c \in DN : Returned(c)' = Returned(c)
    BY <2>1 DEF Returned
  <2>3. \A c \in DN \ {d} : Lives(c)' = Lives(c)
    BY <2>1, <2>2 DEF Lives, TypeOK
  <2>4. Lives(d)' = Lives(d) - 1
    BY <2>1, <2>2, LivesType DEF Lives, TypeOK
  <2>5. QED
    BY <1>9, <1>13, <2>1, <2>3, <2>4 DEF Stopped
<1>15. ASSUME NEW d \in DN, NEW e \in Err, LiquidateDied(d, e)
       PROVE  LifeInv'
  <2>1. /\ d \in tree /\ Lives(d) > 0 /\ proc = "liquidating" /\ Liquidate(d)
        /\ died' = [died EXCEPT ![d][e] = @ - 1] /\ UNCHANGED <<sched, run, stale>>
    BY <1>7, <1>15 DEF LiquidateDied, Liquidate
  <2>2. /\ Lives(d)' = Lives(d) - 1
        /\ \A c \in DN \ {d} : Lives(c)' = Lives(c)
    BY <2>1, CollectLives
  <2>3. QED
    BY <1>9, <1>13, <2>1, <2>2 DEF Stopped
<1>16. CASE UNCHANGED vars
  BY <1>3, <1>16, LivesUnchanged DEF vars
<1>17. QED
  <2>1. "nil" \in Err
    BY DEF Err
  <2>2. QED
    BY <1>1, <1>2, <1>4, <1>5, <1>8, <1>10, <1>11, <1>12, <1>14, <1>15, <1>16, <2>1
    DEF Next, Runnables, Processor

LEMMA InitLife == Init => LifeInv
<1> SUFFICES ASSUME Init PROVE OneRunEach /\ AllResolve
  BY InitTree DEF LifeInv
<1>1. /\ tree = {Root} /\ Root \in DN /\ proc = "running" /\ mu = "free"
      /\ \A d \in DN : run[d] = 0 /\ stale[d] = 0 /\ state[d] = "new"
      /\ \A d \in DN : sched[d] = IF d = Root THEN 1 ELSE 0
  BY TreeAssumption DEF Init
<1>2. ASSUME NEW d \in DN PROVE Returned(d) = 0
  <2>1. died[d] = [e \in Err |-> 0]
    BY DEF Init
  <2>2. died[d]["nil"] = 0 /\ died[d]["ctx"] = 0 /\ died[d]["err"] = 0
    BY <2>1 DEF Err
  <2>3. QED
    BY <2>2 DEF Returned
<1>3. ASSUME NEW d \in DN PROVE Lives(d) = IF d = Root THEN 1 ELSE 0
  BY <1>1, <1>2 DEF Lives
<1>4. QED
  BY <1>1, <1>3 DEF OneRunEach, AllResolve

(* A race is never undone. *)
LEMMA RaceStays == ASSUME [Next]_vars, race' = "no" PROVE race = "no"
<1>1. CASE ProcessGC
  BY <1>1 DEF ProcessGC
<1>2. CASE ProcessKill \/ UNCHANGED vars
  BY <1>2 DEF ProcessKill, vars
<1>3. ASSUME NEW d \in DN, Runnables(d)
      PROVE  race = "no"
  BY <1>3 DEF Runnables, RunGroup, SignalHealthy, SignalDone, FromContextPanic, Return, ReturnStale
<1>4. ASSUME NEW d \in DN, Processor(d)
      PROVE  race = "no"
  <2>1. CASE Crash
    BY <2>1 DEF Crash
  <2>2. CASE StartRunnable(d) \/ Liquidate(d)
    BY <2>2 DEF StartRunnable, Liquidate
  <2>3. ASSUME NEW e \in Err, RecordResult(d, e)
        PROVE  race = "no"
    BY <2>3 DEF RecordResult
  <2>4. QED
    BY <1>4, <2>1, <2>2, <2>3
    DEF Processor, ProcessSchedule, ProcessDied, LiquidateSchedule, LiquidateDied
<1>5. QED
  BY <1>1, <1>2, <1>3, <1>4 DEF Next

OrderlyInv == TreeInv /\ (race = "no" => LifeInv)

LEMMA InitOrderly == Init => OrderlyInv
  BY InitTree, InitLife DEF OrderlyInv

LEMMA StepOrderly == OrderlyInv /\ [Next]_vars => OrderlyInv'
<1> SUFFICES ASSUME OrderlyInv, [Next]_vars PROVE OrderlyInv'
  OBVIOUS
<1>1. TreeInv'
  BY NextTree DEF OrderlyInv
<1>2. ASSUME race' = "no" PROVE LifeInv'
  BY <1>1, <1>2, RaceStays, NextLife DEF OrderlyInv
<1>3. QED
  BY <1>1, <1>2 DEF OrderlyInv

(* Once the liquidator has exited every node is DEAD or DONE, and stays so *)
(* as runGroup and signal ask for a node that is NEW or HEALTHY.           *)
LEMMA StepLiquidator == TypeOK /\ LiquidatorComplete /\ [Next]_vars => LiquidatorComplete'
<1> SUFFICES ASSUME TypeOK, LiquidatorComplete, [Next]_vars, proc' = "exited"
             PROVE  LiveRunnables(state)' = {}
  BY DEF LiquidatorComplete
<1>1. CASE proc = "exited"
  <2>1. \A d \in tree : state[d] \in {"dead", "done"}
    BY <1>1 DEF LiquidatorComplete, LiveRunnables
  <2>2. UNCHANGED <<tree, state>>
    <3>1. ASSUME NEW d \in DN, Runnables(d) PROVE UNCHANGED <<tree, state>>
      BY <2>1, <3>1
      DEF Runnables, RunGroup, SignalHealthy, SignalDone, FromContext, FromContextPanic, Return,
          ReturnStale
    <3>2. ASSUME NEW d \in DN PROVE ~Processor(d)
      BY <1>1
      DEF Processor, ProcessSchedule, ProcessDied, LiquidateSchedule, LiquidateDied, Processing
    <3>3. ~ProcessGC /\ ~ProcessKill
      BY <1>1 DEF ProcessGC, ProcessKill, Processing
    <3>4. QED
      BY <3>1, <3>2, <3>3 DEF Next, vars
  <2>3. QED
    BY <2>1, <2>2 DEF LiveRunnables
<1>2. CASE proc # "exited"
  <2>1. PICK d \in DN : Liquidate(d)
    <3>1. ASSUME NEW d \in DN PROVE ~Runnables(d)
      BY <1>2
      DEF Runnables, RunGroup, SignalHealthy, SignalDone, FromContextPanic, Return, ReturnStale
    <3>2. ~ProcessGC /\ ~ProcessKill /\ ~UNCHANGED vars
      BY <1>2 DEF ProcessGC, ProcessKill, vars
    <3>3. PICK d \in DN : Processor(d)
      BY <3>1, <3>2 DEF Next
    <3>4. ~Crash
      BY DEF Crash
    <3>5. QED
      BY <1>2, <3>3, <3>4
      DEF Processor, ProcessSchedule, StartRunnable, ProcessDied, RecordResult,
          LiquidateSchedule, LiquidateDied
  <2>2. QED
    BY <1>2, <2>1 DEF Liquidate, LiveRunnables
<1>3. QED
  BY <1>1, <1>2

(* Until the GC overtakes the return of a DONE runnable, every node has    *)
(* the runs its state stands for, and no request ever refers to a node     *)
(* that is gone (OneLife): nodeByDN cannot panic.  When the liquidator has *)
(* exited, no node that counts as live is left or made.                    *)
THEOREM RunsSafe == Spec => []OneLife
<1>1. Init => OrderlyInv /\ LiquidatorComplete
  BY InitOrderly DEF Init, LiquidatorComplete
<1>2. OrderlyInv /\ LiquidatorComplete /\ [Next]_vars => OrderlyInv' /\ LiquidatorComplete'
  BY StepOrderly, StepLiquidator DEF OrderlyInv, TreeInv
<1>3. OrderlyInv /\ LiquidatorComplete => OneLife
  BY DEF OrderlyInv, LifeInv, OneLife
<1>4. QED
  BY <1>1, <1>2, <1>3, PTL DEF Spec

(* Unless it overtakes the return of a DONE runnable, the GC puts a node   *)
(* back to NEW only when no run at or below it is in flight                *)
(* (RestartStopped).                                                       *)
THEOREM RestartsAreClean == Spec => RestartStopped
<1> DEFINE Clean ==
      race' = "no" => \A d \in tree :
          (d \in tree' /\ state[d] # "new" /\ state'[d] = "new")
          => \A c \in DN : d \in Path[c] => Lives(c) = 0
<1>1. OrderlyInv /\ [Next]_vars => [Clean]_vars
  <2> SUFFICES ASSUME OrderlyInv, Next, race' = "no", NEW d \in tree, d \in tree',
                      state[d] # "new", state'[d] = "new", NEW c \in DN, d \in Path[c]
               PROVE  Lives(c) = 0
    OBVIOUS
  <2>0. LifeInv
    BY RaceStays DEF OrderlyInv
  <2>1. TypeOK /\ d \in DN
    BY <2>0 DEF LifeInv, TreeInv, TypeOK
  <2>2. \A x \in DN, e \in Err : Outcome(x, e) # "new"
    BY DEF Outcome
  <2>3. ProcessGC
    <3>1. \A p \in DN : \A g \in Groups[p] : ~RunGroup(p, g)
      BY <2>1 DEF RunGroup, TypeOK
    <3>2. \A x \in DN : ~SignalHealthy(x) /\ ~SignalDone(x)
      BY <2>1 DEF SignalHealthy, SignalDone, TypeOK
    <3>3. \A x \in DN, e \in Err : ~Return(x, e) /\ ~ReturnStale(x, e) /\ ~FromContextPanic(x)
      BY <2>1 DEF Return, ReturnStale, FromContextPanic
    <3>4. \A x \in DN : ~ProcessSchedule(x)
      BY <2>1 DEF ProcessSchedule, StartRunnable, Crash
    <3>5. \A x \in DN, e \in Err : ~ProcessDied(x, e)
      BY <2>1, <2>2 DEF ProcessDied, RecordResult, Crash, TypeOK
    <3>6. \A x \in DN, e \in Err : ~LiquidateSchedule(x) /\ ~LiquidateDied(x, e)
      BY <2>1 DEF LiquidateSchedule, LiquidateDied, Liquidate, Crash, TypeOK
    <3>7. ~ProcessKill
      BY DEF ProcessKill
    <3>8. "nil" \in Err
      BY DEF Err
    <3>9. QED
      BY <3>1, <3>2, <3>3, <3>4, <3>5, <3>6, <3>7, <3>8 DEF Next, Runnables, Processor
  <2>4. d \in Can
    BY <2>1, <2>3 DEF ProcessGC, Reset
  <2>5. Overtaken = {}
    BY <2>3 DEF ProcessGC
  <2>6. QED
    BY <2>0, <2>3, <2>4, <2>5, ReadyIsStopped
<1>2. QED
  BY <1>1, InitOrderly, StepOrderly, PTL DEF Spec, RestartStopped

=============================================================================
