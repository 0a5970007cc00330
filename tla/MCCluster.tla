----------------------------- MODULE MCCluster ------------------------------
(***************************************************************************)
(* Five instances of the cluster in one model.  Each behaviour belongs to  *)
(* one part, which says what happens in it:                                *)
(*   calls       every call on two nodes, of which one bootstrapped;       *)
(*   networking  three nodes compete for WireGuard keys;                   *)
(*   members     three nodes become etcd members;                          *)
(*   register    two machines register with a cluster;                     *)
(*   bootstrap   one machine bootstraps the cluster, one registers.        *)
(***************************************************************************)
EXTENDS Enrolment

CONSTANTS n0, n1, n2, n3, k1, k2, l1, m0, m1, m2, Parts

VARIABLE part

mcVars == <<part, allVars>>

Nodes == {n0, n1, n2, n3}

Keys == {k1, k2}

Labels == {l1}

Machines == {m0, m1, m2}

Bootstrappers == {m0}

DeletableNodes == {n1}

AllRequests == [cm : Wish, kc : Wish, kw : {"keep"}]

CertainOutcomes == {"ok", "failed"}

AllOutcomes == {"ok", "failed", "unknown"}

CrashesOnly == {{"crash"}}

AllFaults == {{"crash"}, {"crash", "unseal", "buffer"}}

MachineParts == {"register", "bootstrap"}

(* The cluster after its bootstrap, and machines that stay off. *)
CuratorInit ==
    /\ NodesInit
    /\ nodes[Boot].cuk = Boot
    /\ kinds = {"crash"}
    /\ pc = [m \in Machine |-> "boot"]
    /\ id = [m \in Machine |-> Nobody]
    /\ used = {}
    /\ disk = [m \in Machine |-> EmptyDisk]
    /\ synced = [m \in Machine |-> EmptyDisk]

MCInit ==
    /\ part \in Parts
    /\ IF part \in MachineParts THEN EnrolmentInit ELSE CuratorInit

CallsNext ==
    \/ \E n \in {n0, n1}, out \in CallOutcome :
           \/ \E labels \in SUBSET Label : RegisterNode(n, labels, out)
           \/ \E cuk \in {n0, n1} : CommitNode(n, cuk, out)
           \/ UpdateNodeStatus(n, out)
           \/ ManagementCall(n, out)
    \/ \E n \in {n0, n1} : MemberStart(n) \/ MemberPromote(n)

(* Every transaction that is applied is acknowledged. *)
NetworkingNext ==
    \/ \E n \in {n0, n1, n2}, out \in {"ok", "failed"} :
           \/ RegisterNode(n, {}, out)
           \/ ApproveNode(n, out)
           \/ CommitNode(n, n, out)
           \/ UpdateNodeStatus(n, out)
           \/ \E k \in WgKey : UpdateNodeClusterNetworking(n, k, out)
           \/ DeleteNode(n, TRUE, TRUE, out)
    \/ LeaderChange

MembersNext ==
    \E n \in {n0, n1, n2} :
        \/ RegisterNode(n, {}, "ok")
        \/ ApproveNode(n, "ok")
        \/ CommitNode(n, n, "ok")
        \/ UpdateNodeRoles(n, MemberReq, "ok")
        \/ DeleteNode(n, TRUE, TRUE, "ok")
        \/ MemberStart(n)
        \/ MemberPromote(n)

(* Which of the unused nodes an attempt is for makes no difference, except *)
(* that one may be deleted.                                                *)
Ordered == used' \in {{}, {n1}, {n1, n2}, {n1, n2, n3}, {n1, n2, n3, n0}}

MachinesNext ==
    /\ EnrolmentNext
    /\ Ordered
    /\ part = "register" => pc'[m0] = "boot"
    /\ part = "bootstrap" => pc'[m2] = "boot"

MCNext ==
    /\ UNCHANGED part
    /\ \/ part = "calls" /\ CallsNext /\ UNCHANGED machineVars
       \/ part = "networking" /\ NetworkingNext /\ UNCHANGED machineVars
       \/ part = "members" /\ MembersNext /\ UNCHANGED machineVars
       \/ part \in MachineParts /\ MachinesNext

MCSpec == MCInit /\ [][MCNext]_mcVars

(* The fairness of NodesFairSpec for the part it is about, and likewise that of *)
(* EnrolmentFairSpec.                                                      *)
Curating(A) == part = "members" /\ A /\ UNCHANGED <<part, machineVars>>

Enrolling(A) == part = "register" /\ A /\ Ordered /\ UNCHANGED part

MCFairness ==
    /\ \A n \in {n0, n1, n2} :
           /\ SF_mcVars(Curating(GrantMember(n)))
           /\ WF_mcVars(Curating(MemberStart(n)))
           /\ WF_mcVars(Curating(MemberPromote(n)))
    /\ \A m \in {m1, m2} :
           /\ WF_mcVars(Enrolling(MachineStep(m)))
           /\ WF_mcVars(Enrolling(Commit(m) /\ pc'[m] # "commit"))
    /\ \A n \in Node : WF_mcVars(Enrolling(Approve(n)))

MCFairSpec == MCSpec /\ MCFairness

(* RoleGranted, in the part where operators ask UpdateNodeRoles for roles. *)
MembersGranted == part = "members" => RoleGranted

(* Whatever crashes and failed calls happen, every machine that takes part *)
(* ends up as a node of the cluster: register starts over, join finds what *)
(* it needs.                                                               *)
MachinesEnrol == part = "register" => \A m \in {m1, m2} : <>[](pc[m] = "up")

=============================================================================
