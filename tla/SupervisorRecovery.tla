------------------------- MODULE SupervisorRecovery -------------------------
(***************************************************************************)
(* The supervisor with runnables that keep the contract of a Runnable:     *)
(* they start their groups, Signal(HEALTHY), possibly Signal(DONE) and     *)
(* return nil, and return their context's error once it is canceled.       *)
(* Besides that, runnables fail MaxFailures times, at any moment and with  *)
(* any result.  A DONE runnable returns before the GC resets it.  The      *)
(* supervisor's own context is never canceled.  MCSupervisor has the trees *)
(* it is checked on.                                                       *)
(***************************************************************************)
EXTENDS MCSupervisor

CONSTANT MaxFailures    \* bound on the failures of a behaviour

ASSUME FailuresAssumption == MaxFailures \in Nat

VARIABLE failures

rvars == <<vars, failures>>

RInit == Init /\ failures = 0

WellBehaved(d) ==
    /\ \/ \E g \in Groups[d] : RunGroup(d, g)
       \/ (\A g \in Groups[d] : g \subseteq tree) /\ SignalHealthy(d)
       \/ d \in DoneDN /\ SignalDone(d)
       \/ d \in canceled /\ Return(d, "ctx")
       \/ state[d] = "done" /\ Return(d, "nil")
    /\ UNCHANGED failures

Fails(d) ==
    /\ failures < MaxFailures
    /\ \E e \in Err : Return(d, e)
    /\ failures' = failures + 1

RProcessor(d) == Processor(d) /\ UNCHANGED failures

RProcessGC == Overtaken = {} /\ ProcessGC /\ UNCHANGED failures

RNext ==
    \/ \E d \in DN : WellBehaved(d) \/ Fails(d) \/ RProcessor(d)
    \/ RProcessGC

RSpec ==
    /\ RInit
    /\ [][RNext]_rvars
    /\ WF_rvars(RProcessGC)
    /\ \A d \in DN : WF_rvars(WellBehaved(d)) /\ WF_rvars(RProcessor(d))

(* Once failures cease, the tree heals: from some point on every runnable  *)
(* is there, is HEALTHY or DONE, and has a context that is not canceled    *)
(* (runGroup, processDied and processGC together).                         *)
Recovers ==
    <>[](tree = DN /\ canceled = {} /\ \A d \in DN : state[d] \in {"healthy", "done"})

=============================================================================
