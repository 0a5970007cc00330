------------------------ MODULE CuratorNodesProofs ------------------------
(***************************************************************************)
(* Proofs for CuratorNodes.  Every call ends in nodeSave, in nodeDestroy   *)
(* or without touching a node: SaveStep and DestroyStep say what the two   *)
(* transactions preserve, and each call is shown to save a good record.    *)
(***************************************************************************)
EXTENDS CuratorNodes, FiniteSetTheorems, TLAPS

(* A record that a call may save. *)
Good(rec) ==
    /\ rec \in Record
    /\ rec.state # "absent"
    /\ rec.kc = "yes" => rec.cm = "yes"
    /\ Cardinality(rec.labels) <= MaxLabels

IInv ==
    /\ NodesTypeOK
    /\ ControllersAreMembers
    /\ IndexExact
    /\ LabelsBounded
    /\ \A n \in Node : nodes[n].wg # NoKey => Exists(n)

(* The part of IInv that is about nodes and their index. *)
NodesInv ==
    /\ nodes \in [Node -> Record]
    /\ index \subseteq Node
    /\ faults \in Nat
    /\ ControllersAreMembers
    /\ IndexExact
    /\ LabelsBounded
    /\ \A n \in Node : nodes[n].wg # NoKey => Exists(n)

(* An absent node has a record, no roles and no labels. *)
LEMMA AbsentRecord ==
    /\ Absent \in Record
    /\ Absent.state = "absent" /\ Absent.kc = "no" /\ Absent.wg = NoKey
    /\ Cardinality(Absent.labels) <= MaxLabels
<1>1. Cardinality({}) = 0
  BY FS_EmptySet
<1> QED
  BY <1>1, NodesAssumption DEF Absent, Fresh, Record, Role

(* nodeSave of a good record keeps the invariants of nodes and index. *)
LEMMA SaveStep ==
    ASSUME IInv, NEW n \in Node, NEW rec, Good(rec), NEW out, nodeSave(n, rec, out)
    PROVE  NodesInv'
<1>1. faults' \in Nat
  BY DEF nodeSave, Ended, IInv, NodesTypeOK
<1>2. CASE out = "failed"
  BY <1>1, <1>2 DEF nodeSave, IInv, NodesInv, NodesTypeOK, ControllersAreMembers, IndexExact,
     LabelsBounded, Exists
<1>3. CASE out # "failed"
  <2>1. nodes' = [nodes EXCEPT ![n] = rec] /\ index' = index \union {n}
    BY <1>3 DEF nodeSave
  <2>2. nodes' \in [Node -> Record] /\ index' \subseteq Node
    BY <2>1 DEF IInv, NodesTypeOK, Good
  <2>3. \A m \in Node : nodes'[m] = IF m = n THEN rec ELSE nodes[m]
    BY <2>1 DEF IInv, NodesTypeOK
  <2>4. ControllersAreMembers'
    BY <2>3 DEF IInv, ControllersAreMembers, Good
  <2>5. IndexExact'
    BY <2>1, <2>3 DEF IInv, IndexExact, Exists, Good
  <2>6. LabelsBounded'
    BY <2>3 DEF IInv, LabelsBounded, Good
  <2>7. \A m \in Node : nodes'[m].wg # NoKey => Exists(m)'
    BY <2>3 DEF IInv, Exists, Good
  <2> QED
    BY <1>1, <2>2, <2>4, <2>5, <2>6, <2>7 DEF NodesInv
<1> QED
  BY <1>2, <1>3

(* nodeDestroy keeps them too. *)
LEMMA DestroyStep ==
    ASSUME IInv, NEW n \in Node, NEW out, nodeDestroy(n, out)
    PROVE  NodesInv'
<1>1. faults' \in Nat
  BY DEF nodeDestroy, Ended, IInv, NodesTypeOK
<1>2. CASE out = "failed"
  BY <1>1, <1>2 DEF nodeDestroy, IInv, NodesInv, NodesTypeOK, ControllersAreMembers, IndexExact,
     LabelsBounded, Exists
<1>3. CASE out # "failed"
  <2>1. nodes' = [nodes EXCEPT ![n] = Absent] /\ index' = index \ {n}
    BY <1>3 DEF nodeDestroy
  <2>2. nodes' \in [Node -> Record] /\ index' \subseteq Node
    BY <2>1, AbsentRecord DEF IInv, NodesTypeOK
  <2>3. \A m \in Node : nodes'[m] = IF m = n THEN Absent ELSE nodes[m]
    BY <2>1 DEF IInv, NodesTypeOK
  <2>4. ControllersAreMembers'
    BY <2>3, AbsentRecord DEF IInv, ControllersAreMembers
  <2>5. IndexExact'
    BY <2>1, <2>3, AbsentRecord DEF IInv, IndexExact, Exists
  <2>6. LabelsBounded'
    BY <2>3, AbsentRecord DEF IInv, LabelsBounded
  <2>7. \A m \in Node : nodes'[m].wg # NoKey => Exists(m)'
    BY <2>3, AbsentRecord DEF IInv, Exists
  <2> QED
    BY <1>1, <2>2, <2>4, <2>5, <2>6, <2>7 DEF NodesInv
<1> QED
  BY <1>2, <1>3

(* What a node holds already is good. *)
LEMMA ExistingGood ==
    ASSUME IInv, NEW n \in Node, Exists(n)
    PROVE  Good(nodes[n])
BY DEF IInv, NodesTypeOK, Good, Exists, ControllersAreMembers, LabelsBounded

(* Each call that saves a node saves a good record of it. *)
LEMMA CuratorCallSaves ==
    ASSUME IInv, NEW n \in Node, NEW out \in CallOutcome, CuratorCall(n, out)
    PROVE  NodesInv'
<1>1. ASSUME NEW labels \in SUBSET Label, RegisterNode(n, labels, out) PROVE NodesInv'
  <2>1. Good(Fresh("NEW", NoCuk, "no", labels))
    BY <1>1 DEF RegisterNode, Good, Fresh, Record, Role
  <2> QED
    BY <1>1, <2>1, SaveStep DEF RegisterNode
<1>2. ASSUME NEW cuk \in Cuk, CommitNode(n, cuk, out) PROVE NodesInv'
  <2> DEFINE rec == [nodes[n] EXCEPT !.state = "UP", !.cuk = cuk]
  <2>1. Good(nodes[n])
    BY <1>2, ExistingGood DEF CommitNode, Committable, Exists
  <2>2. Good(rec)
    BY <2>1 DEF Good, Record
  <2> HIDE DEF rec
  <2>3. nodeSave(n, rec, out)
    BY <1>2 DEF CommitNode, rec
  <2> QED
    BY <2>2, <2>3, SaveStep
<1>3. ASSUME UpdateNodeStatus(n, out) PROVE NodesInv'
  <2> DEFINE rec == [nodes[n] EXCEPT !.status = "set"]
  <2>1. Good(nodes[n])
    BY <1>3, ExistingGood DEF UpdateNodeStatus
  <2>2. Good(rec)
    BY <2>1 DEF Good, Record
  <2> HIDE DEF rec
  <2>3. nodeSave(n, rec, out)
    BY <1>3 DEF UpdateNodeStatus, rec
  <2> QED
    BY <2>2, <2>3, SaveStep
<1>4. ASSUME NEW k \in WgKey, UpdateNodeClusterNetworking(n, k, out) PROVE NodesInv'
  <2> DEFINE rec == [nodes[n] EXCEPT !.wg = k]
  <2>1. CASE UNCHANGED <<nodes, index, faults>>
    BY <2>1 DEF IInv, NodesInv, NodesTypeOK, ControllersAreMembers, IndexExact, LabelsBounded, Exists
  <2>2. CASE Exists(n) /\ nodeSave(n, rec, out)
    <3>1. Good(nodes[n])
      BY <2>2, ExistingGood
    <3>2. Good(rec)
      BY <3>1 DEF Good, Record
    <3> HIDE DEF rec
    <3> QED
      BY <2>2, <3>2, SaveStep
  <2> QED
    BY <1>4, <2>1, <2>2 DEF UpdateNodeClusterNetworking
<1> QED
  BY <1>1, <1>2, <1>3, <1>4 DEF CuratorCall

LEMMA ManagementCallSaves ==
    ASSUME IInv, NEW n \in Node, NEW out \in CallOutcome, ManagementCall(n, out)
    PROVE  NodesInv'
<1>1. ASSUME ApproveNode(n, out) PROVE NodesInv'
  <2> DEFINE rec == [nodes[n] EXCEPT !.state = "STANDBY"]
  <2>1. Good(nodes[n])
    BY <1>1, ExistingGood DEF ApproveNode, Exists
  <2>2. Good(rec)
    BY <2>1 DEF Good, Record
  <2> HIDE DEF rec
  <2>3. nodeSave(n, rec, out)
    BY <1>1 DEF ApproveNode, rec
  <2> QED
    BY <2>2, <2>3, SaveStep
<1>2. ASSUME NEW req \in RoleReq, UpdateNodeRoles(n, req, out) PROVE NodesInv'
  <2> DEFINE rec == [nodes[n] EXCEPT !.cm = Wished(req.cm, @),
                                     !.kc = Wished(req.kc, @),
                                     !.kw = Wished(req.kw, @)]
  <2>1. Good(nodes[n])
    BY <1>2, ExistingGood DEF UpdateNodeRoles
  <2>2. req.cm \in Wish /\ req.kc \in Wish /\ req.kw \in Wish
    BY NodesAssumption
  <2>3. nodes[n].cm \in Role /\ nodes[n].kc \in Role /\ nodes[n].kw \in Role
    BY <2>1 DEF Good, Record
  <2>4. /\ Wished(req.cm, nodes[n].cm) \in Role
        /\ Wished(req.kc, nodes[n].kc) \in Role
        /\ Wished(req.kw, nodes[n].kw) \in Role
    BY <2>2, <2>3 DEF Wished, Wish, Role
  <2>5. Wished(req.kc, nodes[n].kc) = "yes" => Wished(req.cm, nodes[n].cm) = "yes"
    BY <1>2, <2>1, <2>2 DEF UpdateNodeRoles, ControllerAllowed, Wished, Wish, Good
  <2>6. Good(rec)
    <3>1. nodes[n] \in Record
      BY <2>1 DEF Good
    <3>2. rec \in Record
      BY <2>4, <3>1 DEF Record
    <3>3. /\ rec.state = nodes[n].state /\ rec.labels = nodes[n].labels
          /\ rec.cm = Wished(req.cm, nodes[n].cm) /\ rec.kc = Wished(req.kc, nodes[n].kc)
      BY <3>1 DEF Record
    <3> HIDE DEF rec
    <3> QED
      BY <2>1, <2>5, <3>2, <3>3 DEF Good
  <2> HIDE DEF rec
  <2>7. nodeSave(n, rec, out)
    BY <1>2 DEF UpdateNodeRoles, rec
  <2> QED
    BY <2>6, <2>7, SaveStep
<1>3. ASSUME NEW bypassRoles \in BOOLEAN, NEW bypassDecommissioned \in BOOLEAN,
             DeleteNode(n, bypassRoles, bypassDecommissioned, out)
      PROVE  NodesInv'
  BY <1>3, DestroyStep DEF DeleteNode
<1>4. ASSUME NEW upsert \in SUBSET Label, NEW delete \in SUBSET Label,
             UpdateNodeLabels(n, upsert, delete, out)
      PROVE  NodesInv'
  <2> DEFINE rec == [nodes[n] EXCEPT !.labels = (@ \union upsert) \ delete]
  <2>1. Good(nodes[n])
    BY <1>4, ExistingGood DEF UpdateNodeLabels
  <2>2. (nodes[n].labels \union upsert) \ delete \in SUBSET Label
    BY <2>1 DEF Good, Record
  <2>3. Good(rec)
    BY <1>4, <2>1, <2>2 DEF Good, Record, UpdateNodeLabels, LabelsAllowed
  <2> HIDE DEF rec
  <2>4. nodeSave(n, rec, out)
    BY <1>4 DEF UpdateNodeLabels, rec
  <2> QED
    BY <2>3, <2>4, SaveStep
<1> QED
  BY <1>1, <1>2, <1>3, <1>4 DEF ManagementCall

(* What a leader remembers and what etcd knows of members keep their types. *)
LEMMA RestTyped ==
    ASSUME IInv, [NodesNext]_nodesVars
    PROVE  /\ certs' \subseteq Node
           /\ members' \in [Node -> {"none", "added", "started", "voter"}]
           /\ cacheState' \in {"nil", "built"}
           /\ cache' \in Cache
<1> DEFINE Goal == /\ certs' \subseteq Node
                   /\ members' \in [Node -> {"none", "added", "started", "voter"}]
                   /\ cacheState' \in {"nil", "built"}
                   /\ cache' \in Cache
<1>0. /\ certs \subseteq Node
      /\ members \in [Node -> {"none", "added", "started", "voter"}]
      /\ cacheState \in {"nil", "built"}
      /\ cache \in Cache
  BY DEF IInv, NodesTypeOK
<1>1. ASSUME NEW n \in Node, NEW out \in CallOutcome, CuratorCall(n, out) PROVE Goal
  <2>1. CASE UNCHANGED <<members, cacheState, cache>> /\ certs' \subseteq certs \union {n}
    BY <1>0, <2>1
  <2>2. ASSUME NEW k \in WgKey, UpdateNodeClusterNetworking(n, k, out) PROVE Goal
    <3>1. PICK c \in Prepared : cache' \in {c, [c EXCEPT ![k] = n]}
      BY <2>2 DEF UpdateNodeClusterNetworking
    <3>2. c \in Cache
      BY <1>0, <3>1 DEF Prepared
    <3>3. cache' \in Cache
      BY <3>1, <3>2 DEF Cache
    <3> QED
      BY <1>0, <2>2, <3>3 DEF UpdateNodeClusterNetworking
  <2> QED
    BY <1>1, <2>1, <2>2 DEF CuratorCall, RegisterNode, CommitNode, UpdateNodeStatus
<1>2. ASSUME NEW n \in Node, NEW out \in CallOutcome, ManagementCall(n, out) PROVE Goal
  BY <1>0, <1>2 DEF ManagementCall, ApproveNode, UpdateNodeRoles, AddNode, DeleteNode,
     UpdateNodeLabels
<1>3. ASSUME NEW n \in Node, MemberStart(n) \/ MemberPromote(n) PROVE Goal
  BY <1>0, <1>3 DEF MemberStart, MemberPromote
<1>4. CASE LeaderChange
  BY <1>0, <1>4 DEF LeaderChange, Cache
<1>5. CASE UNCHANGED nodesVars
  BY <1>0, <1>5 DEF nodesVars
<1> QED
  BY <1>1, <1>2, <1>3, <1>4, <1>5 DEF NodesNext

(* IInv holds at first and every step keeps it. *)
LEMMA Invariance == NodesSpec => []IInv
<1>1. NodesInit => IInv
  <2> SUFFICES ASSUME NodesInit PROVE IInv
    OBVIOUS
  <2>1. PICK cuk \in Cuk :
            nodes = [n \in Node |-> IF n = Boot THEN Bootstrapped(cuk) ELSE Absent]
    BY DEF NodesInit
  <2>2. Good(Bootstrapped(cuk)) /\ Bootstrapped(cuk).wg = NoKey
    BY FS_EmptySet, NodesAssumption DEF Good, Bootstrapped, Fresh, Record, Role
  <2>3. nodes \in [Node -> Record]
    BY <2>1, <2>2, AbsentRecord DEF Good
  <2>4. NodesTypeOK
    BY <2>3, NodesAssumption DEF NodesInit, NodesTypeOK, Cache
  <2>5. \A n \in Node : nodes[n] = IF n = Boot THEN Bootstrapped(cuk) ELSE Absent
    BY <2>1
  <2>6. ControllersAreMembers
    BY <2>2, <2>5, AbsentRecord DEF ControllersAreMembers, Good
  <2>7. IndexExact
    BY <2>2, <2>5, AbsentRecord, NodesAssumption DEF NodesInit, IndexExact, Exists, Good
  <2>8. LabelsBounded
    BY <2>2, <2>5, AbsentRecord DEF LabelsBounded, Good
  <2>9. \A n \in Node : nodes[n].wg # NoKey => Exists(n)
    BY <2>2, <2>5, AbsentRecord
  <2> QED
    BY <2>4, <2>6, <2>7, <2>8, <2>9 DEF IInv
<1>2. IInv /\ [NodesNext]_nodesVars => IInv'
  <2> SUFFICES ASSUME IInv, [NodesNext]_nodesVars PROVE IInv'
    OBVIOUS
  <2>1. NodesInv'
    <3>1. CASE UNCHANGED <<nodes, index, faults>>
      BY <3>1 DEF IInv, NodesInv, NodesTypeOK, ControllersAreMembers, IndexExact, LabelsBounded, Exists
    <3> QED
      BY <3>1, CuratorCallSaves, ManagementCallSaves
         DEF NodesNext, nodesVars, MemberStart, MemberPromote, LeaderChange
  <2> QED
    BY <2>1, RestTyped DEF IInv, NodesInv, NodesTypeOK
<1> QED
  BY <1>1, <1>2, PTL DEF NodesSpec

(* Nodes, index, certificates, members and cache keep their types through  *)
(* every sequence of calls.                                                *)
THEOREM TypeCorrect == NodesSpec => []NodesTypeOK
<1>1. IInv => NodesTypeOK
  BY DEF IInv
<1> QED
  BY <1>1, Invariance, PTL

(* UpdateNodeRoles never leaves a Kubernetes controller that is not a      *)
(* consensus member.                                                       *)
THEOREM RolesConsistent == NodesSpec => []ControllersAreMembers
<1>1. IInv => ControllersAreMembers
  BY DEF IInv
<1> QED
  BY <1>1, Invariance, PTL

(* The join key index of nodeSave and nodeDestroy leads to the nodes there *)
(* are and to no other.                                                    *)
THEOREM JoinKeysExact == NodesSpec => []IndexExact
<1>1. IInv => IndexExact
  BY DEF IInv
<1> QED
  BY <1>1, Invariance, PTL

(* Registration and UpdateNodeLabels never leave a node with more labels   *)
(* than MaxLabelsPerNode.                                                  *)
THEOREM LabelsLimited == NodesSpec => []LabelsBounded
<1>1. IInv => LabelsBounded
  BY DEF IInv
<1> QED
  BY <1>1, Invariance, PTL

-----------------------------------------------------------------------------
(* nodeSave replaces at most the record of one node. *)
LEMMA SavedRecord ==
    ASSUME IInv, NEW n \in Node, NEW rec, NEW out, nodeSave(n, rec, out), NEW m \in Node
    PROVE  nodes'[m] = nodes[m] \/ (m = n /\ out # "failed" /\ nodes'[m] = rec)
BY DEF IInv, NodesTypeOK, nodeSave

(* So does nodeDestroy. *)
LEMMA DestroyedRecord ==
    ASSUME IInv, NEW n \in Node, NEW out, nodeDestroy(n, out), NEW m \in Node
    PROVE  nodes'[m] = nodes[m] \/ nodes'[m] = Absent
BY DEF IInv, NodesTypeOK, nodeDestroy

Advanced(old, new) ==
    /\ new.state \in Onward[old.state]
    /\ old.state = "UP" => new.cuk = old.cuk

(* A record may replace itself. *)
LEMMA AdvancedReflexive ==
    ASSUME NEW rec \in Record, rec.state # "absent"
    PROVE  Advanced(rec, rec)
BY DEF Advanced, Onward, Record

(* Every step moves a node forward, or leaves its state and key alone. *)
LEMMA Progress ==
    ASSUME IInv, [NodesNext]_nodesVars, NEW m \in Node, Exists(m), Exists(m)'
    PROVE  Advanced(nodes[m], nodes'[m])
<1>0. nodes[m] \in Record /\ nodes[m].state # "absent"
  BY DEF IInv, NodesTypeOK, Exists
<1>1. CASE nodes'[m] = nodes[m]
  BY <1>0, <1>1, AdvancedReflexive
<1>2. ASSUME NEW n \in Node, NEW rec, NEW out, nodeSave(n, rec, out),
             m = n => Advanced(nodes[n], rec)
      PROVE  Advanced(nodes[m], nodes'[m])
  BY <1>1, <1>2, SavedRecord
<1>3. ASSUME NEW n \in Node, NEW out \in CallOutcome, CuratorCall(n, out)
      PROVE  Advanced(nodes[m], nodes'[m])
  <2>1. ASSUME NEW labels \in SUBSET Label, RegisterNode(n, labels, out)
        PROVE  Advanced(nodes[m], nodes'[m])
    BY <1>2, <2>1 DEF RegisterNode
  <2>2. ASSUME NEW cuk \in Cuk, CommitNode(n, cuk, out)
        PROVE  Advanced(nodes[m], nodes'[m])
    <3>1. m = n => Advanced(nodes[n], [nodes[n] EXCEPT !.state = "UP", !.cuk = cuk])
      BY <1>0, <2>2 DEF CommitNode, Committable, Advanced, Onward, Record
    <3> QED
      BY <1>2, <2>2, <3>1 DEF CommitNode
  <2>3. ASSUME UpdateNodeStatus(n, out)
        PROVE  Advanced(nodes[m], nodes'[m])
    <3>1. m = n => Advanced(nodes[n], [nodes[n] EXCEPT !.status = "set"])
      BY <1>0 DEF Advanced, Onward, Record
    <3> QED
      BY <1>2, <2>3, <3>1 DEF UpdateNodeStatus
  <2>4. ASSUME NEW k \in WgKey, UpdateNodeClusterNetworking(n, k, out)
        PROVE  Advanced(nodes[m], nodes'[m])
    <3>1. m = n => Advanced(nodes[n], [nodes[n] EXCEPT !.wg = k])
      BY <1>0 DEF Advanced, Onward, Record
    <3>2. UNCHANGED nodes \/ nodeSave(n, [nodes[n] EXCEPT !.wg = k], out)
      BY <2>4 DEF UpdateNodeClusterNetworking
    <3> QED
      BY <1>1, <1>2, <3>1, <3>2
  <2> QED
    BY <1>3, <2>1, <2>2, <2>3, <2>4 DEF CuratorCall
<1>4. ASSUME NEW n \in Node, NEW out \in CallOutcome, ManagementCall(n, out)
      PROVE  Advanced(nodes[m], nodes'[m])
  <2>1. ASSUME ApproveNode(n, out)
        PROVE  Advanced(nodes[m], nodes'[m])
    <3>1. m = n => Advanced(nodes[n], [nodes[n] EXCEPT !.state = "STANDBY"])
      BY <1>0, <2>1 DEF ApproveNode, Advanced, Onward, Record
    <3> QED
      BY <1>2, <2>1, <3>1 DEF ApproveNode
  <2>2. ASSUME NEW req \in RoleReq, UpdateNodeRoles(n, req, out)
        PROVE  Advanced(nodes[m], nodes'[m])
    <3> DEFINE rec == [nodes[n] EXCEPT !.cm = Wished(req.cm, @),
                                       !.kc = Wished(req.kc, @),
                                       !.kw = Wished(req.kw, @)]
    <3>1. m = n => Advanced(nodes[n], rec)
      BY <1>0 DEF Advanced, Onward, Record
    <3>2. nodeSave(n, rec, out)
      BY <2>2 DEF UpdateNodeRoles
    <3> HIDE DEF rec
    <3> QED
      BY <1>2, <3>1, <3>2
  <2>3. ASSUME NEW bypassRoles \in BOOLEAN, NEW bypassDecommissioned \in BOOLEAN,
               DeleteNode(n, bypassRoles, bypassDecommissioned, out)
        PROVE  Advanced(nodes[m], nodes'[m])
    BY <1>1, <2>3, DestroyedRecord, AbsentRecord DEF DeleteNode, Exists
  <2>4. ASSUME NEW upsert \in SUBSET Label, NEW delete \in SUBSET Label,
               UpdateNodeLabels(n, upsert, delete, out)
        PROVE  Advanced(nodes[m], nodes'[m])
    <3> DEFINE rec == [nodes[n] EXCEPT !.labels = (@ \union upsert) \ delete]
    <3>1. m = n => Advanced(nodes[n], rec)
      BY <1>0 DEF Advanced, Onward, Record
    <3>2. nodeSave(n, rec, out)
      BY <2>4 DEF UpdateNodeLabels
    <3> HIDE DEF rec
    <3> QED
      BY <1>2, <3>1, <3>2
  <2> QED
    BY <1>4, <2>1, <2>2, <2>3, <2>4 DEF ManagementCall
<1> QED
  BY <1>1, <1>3, <1>4 DEF NodesNext, nodesVars, MemberStart, MemberPromote, LeaderChange

(* No call takes a node back to an earlier state or replaces the unlock    *)
(* key of a node that is UP.                                               *)
THEOREM UnlockKeysKept == NodesSpec => NodeProgress
<1>1. IInv /\ [NodesNext]_nodesVars =>
        [\A n \in Node : Exists(n) /\ Exists(n)' =>
           /\ nodes[n].state' \in Onward[nodes[n].state]
           /\ nodes[n].state = "UP" => nodes[n].cuk' = nodes[n].cuk]_nodesVars
  BY Progress DEF Advanced
<1> QED
  BY <1>1, Invariance, PTL DEF NodesSpec, NodeProgress

-----------------------------------------------------------------------------
(* The cache of a leader knows the user of every WireGuard key. *)
CacheComplete ==
    cacheState = "built" =>
        \A n \in Node : nodes[n].wg # NoKey => cache[nodes[n].wg] = n

KeysInv == KeysUnique /\ CacheComplete

(* A step that gives no node a key and builds no cache keeps KeysInv. *)
LEMMA KeysKept ==
    ASSUME KeysInv, \A m \in Node : nodes'[m].wg \in {nodes[m].wg, NoKey},
           cacheState' = "nil" \/ UNCHANGED <<cacheState, cache>>
    PROVE  KeysInv'
<1>1. KeysUnique'
  BY DEF KeysInv, KeysUnique
<1>2. CacheComplete'
  BY DEF KeysInv, CacheComplete
<1> QED
  BY <1>1, <1>2 DEF KeysInv

(* UpdateNodeClusterNetworking gives a node a key that no other node has,  *)
(* unless a transaction can be applied and yet report an error.            *)
LEMMA NetworkingKeeps ==
    ASSUME IInv, KeysInv, "unknown" \notin CallOutcome,
           NEW n \in Node, NEW k \in WgKey, NEW out \in CallOutcome,
           UpdateNodeClusterNetworking(n, k, out)
    PROVE  KeysInv'
<1> DEFINE rec == [nodes[n] EXCEPT !.wg = k]
<1>0. out \in {"ok", "failed"} /\ k # NoKey /\ Nobody \notin Node
  BY NodesAssumption
<1>1. PICK c \in Prepared :
        \/ UNCHANGED nodes /\ cache' = c
        \/ /\ ~Taken(c, k, n)
           /\ nodeSave(n, rec, out)
           /\ cache' = IF out = "ok" THEN [c EXCEPT ![k] = n] ELSE c
  BY DEF UpdateNodeClusterNetworking
<1>2. c \in Cache
  BY <1>1 DEF Prepared, IInv, NodesTypeOK
<1>3. \A m \in Node : nodes[m].wg \in WgKey \union {NoKey}
  BY DEF IInv, NodesTypeOK, Record
<1>4. \A m \in Node : nodes[m].wg # NoKey => c[nodes[m].wg] = m
  <2>1. CASE cacheState = "built"
    BY <1>1, <2>1 DEF Prepared, KeysInv, CacheComplete
  <2>2. CASE cacheState # "built"
    <3> SUFFICES ASSUME NEW m \in Node, nodes[m].wg # NoKey
                 PROVE  c[nodes[m].wg] = m
      OBVIOUS
    <3>1. nodes[m].wg \in WgKey /\ m \in Users(nodes[m].wg)
      BY <1>3 DEF Users, IInv
    <3>2. c[nodes[m].wg] \in Users(nodes[m].wg)
      BY <1>1, <2>2, <3>1 DEF Prepared
    <3> QED
      BY <3>1, <3>2 DEF Users, KeysInv, KeysUnique
  <2> QED
    BY <2>1, <2>2
<1>5. CASE UNCHANGED nodes /\ cache' = c
  BY <1>4, <1>5 DEF KeysInv, KeysUnique, CacheComplete
<1>6. CASE /\ ~Taken(c, k, n)
           /\ nodeSave(n, rec, out)
           /\ cache' = IF out = "ok" THEN [c EXCEPT ![k] = n] ELSE c
  <2>1. CASE out = "failed"
    <3>1. UNCHANGED nodes /\ cache' = c
      BY <1>6, <2>1 DEF nodeSave
    <3> QED
      BY <1>5, <3>1
  <2>2. CASE out = "ok"
    <3>1. \A m \in Node : nodes'[m].wg = IF m = n THEN k ELSE nodes[m].wg
      BY <1>6, <2>2 DEF nodeSave, IInv, NodesTypeOK, Record
    <3>2. cache' = [c EXCEPT ![k] = n]
      BY <1>6, <2>2
    <3>3. \A m \in Node : nodes[m].wg = k => m = n
      BY <1>0, <1>4, <1>6 DEF Taken
    <3>4. KeysUnique'
      BY <3>1, <3>3 DEF KeysInv, KeysUnique
    <3>5. CacheComplete'
      BY <1>2, <1>3, <1>4, <3>1, <3>2, <3>3 DEF CacheComplete, Cache
    <3> QED
      BY <3>4, <3>5 DEF KeysInv
  <2> QED
    BY <1>0, <2>1, <2>2
<1> QED
  BY <1>1, <1>5, <1>6

(* No other step gives a node a key. *)
LEMMA OtherStepsKeep ==
    ASSUME IInv, KeysInv, [NodesNext]_nodesVars,
           \A n \in Node, k \in WgKey, out \in CallOutcome :
               ~UpdateNodeClusterNetworking(n, k, out)
    PROVE  KeysInv'
<1>0. \A m \in Node : nodes[m] \in Record
  BY DEF IInv, NodesTypeOK
<1>1. CASE UNCHANGED nodes /\ (cacheState' = "nil" \/ UNCHANGED <<cacheState, cache>>)
  BY <1>1, KeysKept
<1>2. ASSUME NEW n \in Node, NEW rec, NEW out, nodeSave(n, rec, out),
             rec.wg \in {nodes[n].wg, NoKey}, UNCHANGED <<cacheState, cache>>
      PROVE  KeysInv'
  <2>1. \A m \in Node : nodes'[m].wg \in {nodes[m].wg, NoKey}
    BY <1>2, SavedRecord
  <2> QED
    BY <1>2, <2>1, KeysKept
<1>3. ASSUME NEW n \in Node, NEW out \in CallOutcome, CuratorCall(n, out) PROVE KeysInv'
  <2>1. ASSUME NEW labels \in SUBSET Label, RegisterNode(n, labels, out) PROVE KeysInv'
    <3>1. Fresh("NEW", NoCuk, "no", labels).wg = NoKey
      BY DEF Fresh
    <3> QED
      BY <1>2, <2>1, <3>1 DEF RegisterNode
  <2>2. ASSUME NEW cuk \in Cuk, CommitNode(n, cuk, out) PROVE KeysInv'
    <3>1. [nodes[n] EXCEPT !.state = "UP", !.cuk = cuk].wg = nodes[n].wg
      BY <1>0 DEF Record
    <3> QED
      BY <1>2, <2>2, <3>1 DEF CommitNode
  <2>3. ASSUME UpdateNodeStatus(n, out) PROVE KeysInv'
    <3>1. [nodes[n] EXCEPT !.status = "set"].wg = nodes[n].wg
      BY <1>0 DEF Record
    <3> QED
      BY <1>2, <2>3, <3>1 DEF UpdateNodeStatus
  <2> QED
    BY <1>3, <2>1, <2>2, <2>3 DEF CuratorCall
<1>4. ASSUME NEW n \in Node, NEW out \in CallOutcome, ManagementCall(n, out) PROVE KeysInv'
  <2>1. ASSUME ApproveNode(n, out) PROVE KeysInv'
    <3>1. [nodes[n] EXCEPT !.state = "STANDBY"].wg = nodes[n].wg
      BY <1>0 DEF Record
    <3> QED
      BY <1>2, <2>1, <3>1 DEF ApproveNode
  <2>2. ASSUME NEW req \in RoleReq, UpdateNodeRoles(n, req, out) PROVE KeysInv'
    <3> DEFINE rec == [nodes[n] EXCEPT !.cm = Wished(req.cm, @),
                                       !.kc = Wished(req.kc, @),
                                       !.kw = Wished(req.kw, @)]
    <3>1. rec.wg = nodes[n].wg
      BY <1>0 DEF Record
    <3>2. nodeSave(n, rec, out) /\ UNCHANGED <<cacheState, cache>>
      BY <2>2 DEF UpdateNodeRoles
    <3> HIDE DEF rec
    <3> QED
      BY <1>2, <3>1, <3>2
  <2>3. ASSUME NEW bypassRoles \in BOOLEAN, NEW bypassDecommissioned \in BOOLEAN,
               DeleteNode(n, bypassRoles, bypassDecommissioned, out)
        PROVE  KeysInv'
    <3>1. \A m \in Node : nodes'[m].wg \in {nodes[m].wg, NoKey}
      BY <2>3, DestroyedRecord, AbsentRecord DEF DeleteNode
    <3> QED
      BY <2>3, <3>1, KeysKept DEF DeleteNode
  <2>4. ASSUME NEW upsert \in SUBSET Label, NEW delete \in SUBSET Label,
               UpdateNodeLabels(n, upsert, delete, out)
        PROVE  KeysInv'
    <3> DEFINE rec == [nodes[n] EXCEPT !.labels = (@ \union upsert) \ delete]
    <3>1. rec.wg = nodes[n].wg
      BY <1>0 DEF Record
    <3>2. nodeSave(n, rec, out) /\ UNCHANGED <<cacheState, cache>>
      BY <2>4 DEF UpdateNodeLabels
    <3> HIDE DEF rec
    <3> QED
      BY <1>2, <3>1, <3>2
  <2> QED
    BY <1>4, <2>1, <2>2, <2>3, <2>4 DEF ManagementCall
<1> QED
  BY <1>1, <1>3, <1>4 DEF NodesNext, nodesVars, MemberStart, MemberPromote, LeaderChange

(* If every transaction that is applied is also acknowledged, the cache    *)
(* suffices: no two nodes ever use one WireGuard key.                      *)
THEOREM KeysNeverShared ==
    ASSUME "unknown" \notin CallOutcome
    PROVE  NodesSpec => []KeysUnique
<1>1. NodesInit => KeysInv
  <2> SUFFICES ASSUME NodesInit PROVE KeysInv
    OBVIOUS
  <2>1. \A n \in Node : nodes[n].wg = NoKey
    BY AbsentRecord DEF NodesInit, Bootstrapped, Fresh
  <2> QED
    BY <2>1 DEF NodesInit, KeysInv, KeysUnique, CacheComplete
<1>2. IInv /\ KeysInv /\ [NodesNext]_nodesVars => KeysInv'
  BY NetworkingKeeps, OtherStepsKeep
<1>3. KeysInv => KeysUnique
  BY DEF KeysInv
<1> QED
  BY <1>1, <1>2, <1>3, Invariance, PTL DEF NodesSpec

=============================================================================
