----------------------------- MODULE MCShepherd -----------------------------
(***************************************************************************)
(* One machine, an Initializer and a Recoverer in one shepherd process and *)
(* a second Initializer in another, four sessions and four agent keys.     *)
(***************************************************************************)
EXTENDS Shepherd

CONSTANTS m1, init1, init2, rec1, s1, s2, s3, s4, k1, k2, k3, k4

MachineSet == {m1}
WorkerSet == {init1, init2, rec1}
SessionSet == {s1, s2, s3, s4}
KeySet == {k1, k2, k3, k4}
ProcessSet == {"AgentStart", "Recovery"}
WorkerProcess == [w \in WorkerSet |-> IF w = rec1 THEN "Recovery" ELSE "AgentStart"]
WorkerInstance == [w \in WorkerSet |-> IF w = init2 THEN "second" ELSE "first"]
Descriptors == [p \in ProcessSet |-> [initial |-> 1, maximum |-> 2, num |-> 6, den |-> 5]]

(* Either what is outside of the database fails, or the database does:     *)
(* with both the state space is ten times as large.                        *)
MCInit ==
    /\ SInit
    /\ \/ faults = MaxFaults /\ mishaps = 0
       \/ faults = 0 /\ mishaps = MaxMishaps

MCSpec == MCInit /\ [][SNext]_vars /\ SFairness

=============================================================================
