---------------------------- MODULE CuratorNodes ----------------------------
(***************************************************************************)
(* The nodes of a cluster as the curator leader keeps them in etcd: the    *)
(* calls of the Curator and Management services that change a node, the    *)
(* leader's cache of WireGuard keys, and the etcd members that belong to   *)
(* the ConsensusMember role.                                               *)
(*                                                                         *)
(* A handler is one action: muNodes and the leadership comparison exclude  *)
(* all others between its transactions (CuratorElection).  Its last        *)
(* transaction is applied and acknowledged, not applied, or applied        *)
(* although the handler sees an error.  A handler that fails without an    *)
(* effect is a stuttering step.  A node is identified by its public key;   *)
(* its join key is as unique, so the join key index is a set of nodes.     *)
(***************************************************************************)
EXTENDS Naturals, FiniteSets

CONSTANTS
    Node,       \* node IDs
    Boot,       \* the node that bootstrapped the cluster
    WgKey,      \* WireGuard public keys
    NoKey,      \* no WireGuard key
    Nobody,     \* no node
    Cuk,        \* cluster unlock keys
    NoCuk,      \* no cluster unlock key
    Label,      \* label keys
    MaxLabels,  \* MaxLabelsPerNode
    RoleReq,    \* requests to UpdateNodeRoles
    CallOutcome,    \* outcomes of a handler's last transaction
    MaxFaults   \* bound on the transactions that fail

Wish == {"keep", "no", "yes"}

ASSUME NodesAssumption ==
    /\ Boot \in Node
    /\ NoKey \notin WgKey
    /\ Nobody \notin Node
    /\ NoCuk \notin Cuk
    /\ IsFiniteSet(Label)
    /\ MaxLabels \in Nat
    /\ RoleReq \subseteq [cm : Wish, kc : Wish, kw : Wish]
    /\ CallOutcome \subseteq {"ok", "failed", "unknown"}
    /\ MaxFaults \in Nat

VARIABLES
    nodes,      \* the nodes in etcd, in state "absent" if there is none
    index,      \* nodes whose join key leads to them
    certs,      \* nodes that got a certificate
    members,    \* etcd members by the node they are for
    cacheState, \* "nil" until the leader has built its clusternetCache
    cache,      \* leaderState.clusternetCache
    faults      \* transactions that failed so far

nodesVars == <<nodes, index, certs, members, cacheState, cache, faults>>

Role == {"no", "yes"}

Record ==
    [state  : {"absent", "NEW", "STANDBY", "UP"},
     cuk    : Cuk \union {NoCuk},
     status : {"none", "set"},
     cm     : Role,     \* ConsensusMember
     kc     : Role,     \* KubernetesController
     kw     : Role,     \* KubernetesWorker
     wg     : WgKey \union {NoKey},
     labels : SUBSET Label]

Cache == [WgKey -> Node \union {Nobody}]

NodesTypeOK ==
    /\ nodes \in [Node -> Record]
    /\ index \subseteq Node
    /\ certs \subseteq Node
    /\ members \in [Node -> {"none", "added", "started", "voter"}]
    /\ cacheState \in {"nil", "built"}
    /\ cache \in Cache
    /\ faults \in Nat

Fresh(st, cuk, role, labels) ==
    [state |-> st, cuk |-> cuk, status |-> "none", cm |-> role, kc |-> role,
     kw |-> "no", wg |-> NoKey, labels |-> labels]

Absent == Fresh("absent", NoCuk, "no", {})

(* BootstrapNodeFinish: the first node is UP and runs the control plane. *)
Bootstrapped(cuk) == Fresh("UP", cuk, "yes", {})

NodesInit ==
    /\ \E cuk \in Cuk :
           nodes = [n \in Node |-> IF n = Boot THEN Bootstrapped(cuk) ELSE Absent]
    /\ index = {Boot}
    /\ certs = {Boot}
    /\ members = [n \in Node |-> IF n = Boot THEN "voter" ELSE "none"]
    /\ cacheState = "nil"
    /\ cache = [k \in WgKey |-> Nobody]
    /\ faults = 0

Exists(n) == nodes[n].state # "absent"

-----------------------------------------------------------------------------
(* state_node.go *)

Ended(out) ==
    /\ out \in CallOutcome
    /\ IF out = "ok"
       THEN UNCHANGED faults
       ELSE faults < MaxFaults /\ faults' = faults + 1

(* One transaction for the node and the index of its join key. *)
nodeSave(n, rec, out) ==
    /\ Ended(out)
    /\ IF out = "failed"
       THEN UNCHANGED <<nodes, index>>
       ELSE /\ nodes' = [nodes EXCEPT ![n] = rec]
            /\ index' = index \union {n}

nodeDestroy(n, out) ==
    /\ Ended(out)
    /\ IF out = "failed"
       THEN UNCHANGED <<nodes, index>>
       ELSE /\ nodes' = [nodes EXCEPT ![n] = Absent]
            /\ index' = index \ {n}

-----------------------------------------------------------------------------
(* Curator service. *)

(* A retry finds the node NEW and changes nothing; other states refuse. *)
RegisterNode(n, labels, out) ==
    /\ ~Exists(n)
    /\ Cardinality(labels) <= MaxLabels     \* further ones are dropped
    /\ nodeSave(n, Fresh("NEW", NoCuk, "no", labels), out)
    /\ UNCHANGED <<certs, members, cacheState, cache>>

CommittableFault(n) == nodes[n].state \in {"STANDBY", "UP"}

Committable(n) == nodes[n].state = "STANDBY"

CommitNode(n, cuk, out) ==
    /\ Committable(n)
    /\ nodeSave(n, [nodes[n] EXCEPT !.state = "UP", !.cuk = cuk], out)
    /\ certs' = IF out = "ok" THEN certs \union {n} ELSE certs
    /\ UNCHANGED <<members, cacheState, cache>>

UpdateNodeStatus(n, out) ==
    /\ n \in certs
    /\ Exists(n)
    /\ nodeSave(n, [nodes[n] EXCEPT !.status = "set"], out)
    /\ UNCHANGED <<certs, members, cacheState, cache>>

Users(k) == {n \in Node : Exists(n) /\ nodes[n].wg = k}

PreparedFault == {cache}

(* prepareClusternetCacheUnlocked. *)
Prepared ==
    IF cacheState = "built"
    THEN {cache}
    ELSE {c \in Cache : \A k \in WgKey :
             IF Users(k) = {} THEN c[k] = Nobody ELSE c[k] \in Users(k)}

Taken(c, k, n) == c[k] \notin {Nobody, n}

UpdateNodeClusterNetworking(n, k, out) ==
    /\ n \in certs
    /\ cacheState' = "built"
    /\ \E c \in Prepared :
           IF Taken(c, k, n) \/ ~Exists(n) \/ nodes[n].status = "none"
           THEN /\ out = "ok"
                /\ cache' = c
                /\ UNCHANGED <<nodes, index, faults>>
           ELSE /\ nodeSave(n, [nodes[n] EXCEPT !.wg = k], out)
                /\ cache' = IF out = "ok" THEN [c EXCEPT ![k] = n] ELSE c
    /\ UNCHANGED <<certs, members>>

-----------------------------------------------------------------------------
(* Management service. *)

ApproveNode(n, out) ==
    /\ nodes[n].state = "NEW"
    /\ nodeSave(n, [nodes[n] EXCEPT !.state = "STANDBY"], out)
    /\ UNCHANGED <<certs, members, cacheState, cache>>

(* etcd admits one learner at a time. *)
Learner(n) == members[n] \in {"added", "started"}

(* consensus.Status.AddNode looks for a member with the name of the node,  *)
(* which a member has once it started; etcd refuses to add a peer URL      *)
(* twice.                                                                  *)
AddNode(n) ==
    \/ /\ members[n] \in {"started", "voter"}
       /\ UNCHANGED members
    \/ /\ members[n] = "none"
       /\ \A m \in Node : ~Learner(m)
       /\ members' = [members EXCEPT ![n] = "added"]

Wished(wish, role) == IF wish = "keep" THEN role ELSE wish

ControllerAllowedFault(n, req) ==
    /\ req.kc = "yes" => Wished(req.cm, nodes[n].cm) = "yes"

ControllerAllowed(n, req) ==
    /\ req.cm = "no" => nodes[n].kc = "no"
    /\ req.kc = "yes" => Wished(req.cm, nodes[n].cm) = "yes"

UpdateNodeRoles(n, req, out) ==
    /\ Exists(n)
    /\ ControllerAllowed(n, req)
    /\ IF req.cm = "yes" THEN AddNode(n) ELSE UNCHANGED members
    /\ nodeSave(n, [nodes[n] EXCEPT !.cm = Wished(req.cm, @),
                                    !.kc = Wished(req.kc, @),
                                    !.kw = Wished(req.kw, @)], out)
    /\ UNCHANGED <<certs, cacheState, cache>>

(* Decommissioning is unimplemented, so an UP node needs a bypass. *)
DeleteNode(n, bypassRoles, bypassDecommissioned, out) ==
    /\ Exists(n)
    /\ bypassRoles \/ (nodes[n].cm = "no" /\ nodes[n].kc = "no" /\ nodes[n].kw = "no")
    /\ nodes[n].state = "UP" => bypassDecommissioned
    /\ nodeDestroy(n, out)
    /\ UNCHANGED <<certs, members, cacheState, cache>>

LabelsAllowed(labels) == Cardinality(labels) <= MaxLabels

UpdateNodeLabels(n, upsert, delete, out) ==
    /\ Exists(n)
    /\ upsert \intersect delete = {}
    /\ LabelsAllowed((nodes[n].labels \union upsert) \ delete)
    /\ nodeSave(n, [nodes[n] EXCEPT !.labels = (@ \union upsert) \ delete], out)
    /\ UNCHANGED <<certs, members, cacheState, cache>>

-----------------------------------------------------------------------------
(* A node that is UP starts its etcd member once it knows its role. *)
MemberStart(n) ==
    /\ nodes[n].state = "UP"
    /\ nodes[n].cm = "yes"
    /\ members[n] = "added"
    /\ members' = [members EXCEPT ![n] = "started"]
    /\ UNCHANGED <<nodes, index, certs, cacheState, cache, faults>>

MemberPromoteFault(n) ==
    /\ members[n] = "voter"
    /\ UNCHANGED nodesVars

(* The autopromoter of the consensus service. *)
MemberPromote(n) ==
    /\ members[n] = "started"
    /\ members' = [members EXCEPT ![n] = "voter"]
    /\ UNCHANGED <<nodes, index, certs, cacheState, cache, faults>>

(* All that a leader keeps in memory is lost with its leadership. *)
LeaderChange ==
    /\ cacheState' = "nil"
    /\ cache' = [k \in WgKey |-> Nobody]
    /\ UNCHANGED <<nodes, index, certs, members, faults>>

CuratorCall(n, out) ==
    \/ \E labels \in SUBSET Label : RegisterNode(n, labels, out)
    \/ \E cuk \in Cuk : CommitNode(n, cuk, out)
    \/ UpdateNodeStatus(n, out)
    \/ \E k \in WgKey : UpdateNodeClusterNetworking(n, k, out)

ManagementCall(n, out) ==
    \/ ApproveNode(n, out)
    \/ \E req \in RoleReq : UpdateNodeRoles(n, req, out)
    \/ \E bypassRoles, bypassDecommissioned \in BOOLEAN :
           DeleteNode(n, bypassRoles, bypassDecommissioned, out)
    \/ \E upsert, delete \in SUBSET Label : UpdateNodeLabels(n, upsert, delete, out)

NodesNext ==
    \/ \E n \in Node, out \in CallOutcome : CuratorCall(n, out) \/ ManagementCall(n, out)
    \/ \E n \in Node : MemberStart(n) \/ MemberPromote(n)
    \/ LeaderChange

NodesSpec == NodesInit /\ [][NodesNext]_nodesVars

MemberReq == [cm |-> "yes", kc |-> "keep", kw |-> "keep"]

(* An operator asks for the consensus role of a node that is UP. *)
GrantMember(n) ==
    /\ nodes[n].state = "UP"
    /\ UpdateNodeRoles(n, MemberReq, "ok")

(* The operator keeps asking, and etcd members start and catch up. *)
NodesFairSpec ==
    /\ NodesSpec
    /\ \A n \in Node :
           /\ SF_nodesVars(GrantMember(n))
           /\ WF_nodesVars(MemberStart(n))
           /\ WF_nodesVars(MemberPromote(n))

-----------------------------------------------------------------------------
(* Kubernetes controllers are consensus members in every state that a      *)
(* sequence of UpdateNodeRoles calls can reach.                            *)
ControllersAreMembers ==
    \A n \in Node : nodes[n].kc = "yes" => nodes[n].cm = "yes"

(* A join key leads to its node for as long as the node exists: JoinNode   *)
(* finds every node, and none that was deleted.                            *)
IndexExact == index = {n \in Node : Exists(n)}

(* No two nodes use one WireGuard key, although the leader only looks at   *)
(* its cache ("used to detect possibly re-used WireGuard public keys").    *)
KeysUnique ==
    \A m, n \in Node : nodes[m].wg = nodes[n].wg /\ nodes[m].wg # NoKey => m = n

(* States a node can be in once it was in a given one. *)
Onward ==
    [NEW |-> {"NEW", "STANDBY", "UP"}, STANDBY |-> {"STANDBY", "UP"}, UP |-> {"UP"}]

(* A node that is UP stays UP and keeps its unlock key until it is         *)
(* deleted, and no node goes back to an earlier state: the key CommitNode  *)
(* stored unlocks the data on the node's disk.                             *)
NodeProgress ==
    [][\A n \in Node : Exists(n) /\ Exists(n)' =>
           /\ nodes[n].state' \in Onward[nodes[n].state]
           /\ nodes[n].state = "UP" => nodes[n].cuk' = nodes[n].cuk]_nodesVars

(* No sequence of calls leaves a node with more than MaxLabelsPerNode. *)
LabelsBounded == \A n \in Node : Cardinality(nodes[n].labels) <= MaxLabels

(* A node that is UP gets the consensus role if its operator keeps asking, *)
(* provided that no etcd member is left without a node that could start    *)
(* it: one learner blocks all others ("if one does not yet exist", AddNode).*)
RoleGranted ==
    [](\A n \in Node : members[n] # "none" => nodes[n].state = "UP")
        => \A n \in Node :
               nodes[n].state = "UP" ~> nodes[n].cm = "yes" \/ ~Exists(n)

=============================================================================
