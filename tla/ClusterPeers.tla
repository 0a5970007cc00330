---------------------------- MODULE ClusterPeers ----------------------------
(***************************************************************************)
(* What a node makes of the other nodes of its cluster: peers in the mesh, *)
(* and lines in the hosts file and the cluster directory.                  *)
(***************************************************************************)
EXTENDS NodeWatch

(***************************************************************************)
(* The cluster networking mesh of a node (metropolis/node/core/clusternet):*)
(* push submits the prefixes this node originates to the Curator, pull     *)
(* follows the other nodes through WatchNodes and programs them as         *)
(* WireGuard peers.  The Curator's record of the other nodes is an input;  *)
(* the watch carries it in events that cover any of the changes so far.    *)
(***************************************************************************)

CONSTANTS
  Peer,           \* the other nodes
  KubeNet,        \* pod network prefixes
  LocalAddr,      \* external addresses of this node
  MaxNetChanges,  \* bound on changes of the inputs
  MaxNetFaults    \* bound on failed calls

VARIABLES
  peerInfo,       \* the Curator's data of each other node, Gone without any
  peerSent,       \* what the watch stream has carried of it
  netOrigin,      \* WatchNodes' ons
  followed,       \* WatchNodes' ns
  peers,          \* the WireGuard device: node -> data it is configured with
  flapped,        \* nodes that were removed from the mesh by a batch
  broken,         \* a batch could not be configured
  kubeValue,      \* LocalKubernetesPodNetwork, "nil" or a set of prefixes
  netValue,       \* Network's ExternalAddress
  kubePipe,       \* the value event.Pipe holds for push, and whether it is up to date
  netPipe,
  push,           \* push's locals and where it is
  submitted,      \* the prefixes the Curator has for this node
  loopback,       \* prefixes whose first address is on the loopback interface
  netChanges,
  netFaults

netVars == <<peerInfo, peerSent, netOrigin, followed, peers, flapped, broken, kubeValue, netValue,
             kubePipe, netPipe, push, submitted, loopback, netChanges, netFaults>>

Gone == [key |-> "none", addr |-> "none"]
PeerData == {[key |-> k, addr |-> a] : k \in {"none", "key"}, a \in {"bad", "a1", "a2"}}
NoPrefixes == {"nil"}
KubeValues == {NoPrefixes} \cup SUBSET KubeNet
NoAddr == "none"
AllPrefixes(prefixes, own) == (prefixes \ NoPrefixes) \cup ({own} \ {NoAddr})

\* A pipe: what it took from the value and has not handed over, and whether
\* the value changed since it was taken.
Pipe(holding, fresh) == [held |-> holding, fresh |-> fresh]
Push(at, prefixes, prevKube, own, prevLocal) ==
  [at |-> at, kube |-> prefixes, prevKube |-> prevKube, local |-> own, prevLocal |-> prevLocal]
PushStart == Push("select", NoPrefixes, NoPrefixes, NoAddr, NoAddr)

NetInit ==
  /\ peerInfo = [n \in Peer |-> Gone] /\ peerSent = peerInfo
  /\ netOrigin = EmptyNodeSet(Peer, Gone) /\ followed = netOrigin
  /\ peers = [n \in Peer |-> Gone] /\ flapped = {} /\ broken = "no"
  /\ kubeValue = NoPrefixes /\ netValue = NoAddr
  /\ kubePipe = Pipe(<<>>, "no") /\ netPipe = Pipe(<<>>, "no")
  /\ push = PushStart
  /\ submitted = {} /\ loopback = {}
  /\ netChanges = 0 /\ netFaults = 0

pullVars == <<peerInfo, peerSent, netOrigin, followed, peers, flapped, broken>>
pushVars == <<kubeValue, netValue, kubePipe, netPipe, push, submitted, loopback>>

\* Another node changes; the Curator refuses an empty WireGuard key.
PeerChanges(n) ==
  /\ netChanges < MaxNetChanges /\ netChanges' = netChanges + 1
  /\ \E d \in PeerData \cup {Gone} :
       /\ d # peerInfo[n]
       /\ peerInfo[n].key # "none" => d = Gone \/ d.key # "none"
       /\ peerInfo' = [peerInfo EXCEPT ![n] = d]
  /\ UNCHANGED <<peerSent, netOrigin, followed, peers, flapped, broken, pushVars, netFaults>>

\* pull's FilterFn and EqualsFn.
MeshFilter == [d \in PeerData \cup {Gone} |-> d.key # "none"]
MeshEqualsFault == [a, b \in PeerData \cup {Gone} |-> a.key = b.key]
MeshEquals == [a, b \in PeerData \cup {Gone} |-> a = b]

\* One event of the watch, followed to the end of its batch: OnDeleted removes
\* a peer at once, OnBatchDone configures the new and updated ones together and
\* gives all of them up when one address does not parse.
Removed == Deleted(followed, netOrigin', MeshFilter)
Configured == NewUpdated(followed, netOrigin', Gone, MeshFilter, MeshEquals)
FollowedNext == Followed(followed, netOrigin', Gone, MeshFilter)
WatchEvent ==
  \E E \in SUBSET {n \in Peer : peerInfo[n] # peerSent[n]} \ {{}} :
    LET tombstones == {n \in E : peerInfo[n] = Gone} IN
    /\ peerSent' = [n \in Peer |-> IF n \in E THEN peerInfo[n] ELSE peerSent[n]]
    /\ netOrigin' = UpdateFromEvent(netOrigin, [n \in E \ tombstones |-> peerInfo[n]], tombstones, Gone)
    /\ followed' = FollowedNext
    /\ LET fails == \E n \in Configured : netOrigin'.nodes[n].addr = "bad" IN
       /\ peers' = [n \in Peer |-> IF n \in Removed THEN Gone
                                   ELSE IF n \in Configured /\ ~fails THEN netOrigin'.nodes[n]
                                   ELSE peers[n]]
       /\ broken' = IF fails THEN "yes" ELSE broken
    /\ flapped' = flapped \cup Removed
    /\ UNCHANGED <<peerInfo, pushVars, netChanges, netFaults>>

\* The watch fails: pull returns, and is restarted with empty node sets while
\* the WireGuard device keeps its peers.
WatchFails ==
  /\ netFaults < MaxNetFaults /\ netFaults' = netFaults + 1
  /\ netOrigin.names # {}
  /\ netOrigin' = EmptyNodeSet(Peer, Gone) /\ followed' = EmptyNodeSet(Peer, Gone)
  /\ peerSent' = [n \in Peer |-> Gone]
  /\ flapped' = flapped \cup {n \in Peer : peers[n] # Gone}
  /\ UNCHANGED <<peerInfo, peers, broken, pushVars, netChanges>>

SetKube ==
  /\ netChanges < MaxNetChanges /\ netChanges' = netChanges + 1
  /\ \E v \in KubeValues \ {kubeValue, NoPrefixes} : kubeValue' = v
  /\ kubePipe' = [kubePipe EXCEPT !.fresh = "yes"]
  /\ UNCHANGED <<pullVars, netValue, netPipe, push, submitted, loopback, netFaults>>
SetNetwork ==
  /\ netChanges < MaxNetChanges /\ netChanges' = netChanges + 1
  /\ \E a \in LocalAddr \ {netValue} : netValue' = a
  /\ netPipe' = [netPipe EXCEPT !.fresh = "yes"]
  /\ UNCHANGED <<pullVars, kubeValue, kubePipe, push, submitted, loopback, netFaults>>

PipeTakes ==
  /\ \/ /\ kubePipe.fresh = "yes" /\ kubePipe.held = <<>>
        /\ kubePipe' = Pipe(<<kubeValue>>, "no") /\ UNCHANGED netPipe
     \/ /\ netPipe.fresh = "yes" /\ netPipe.held = <<>>
        /\ netPipe' = Pipe(<<netValue>>, "no") /\ UNCHANGED kubePipe
  /\ UNCHANGED <<pullVars, kubeValue, netValue, push, submitted, loopback, netChanges, netFaults>>

\* configureKubeNetwork: the addresses of prefixes that are gone are removed,
\* those of new ones added; a failure leaves some of them undone.
Configure(old, new, lo) == (lo \ ((old \ NoPrefixes) \ (new \ NoPrefixes))) \cup (new \ NoPrefixes)

\* push receives a value; an update that changes nothing is ignored.
ReceiveKube ==
  /\ push.at = "select" /\ kubePipe.held # <<>>
  /\ LET v == kubePipe.held[1] IN
       \/ /\ v = push.prevKube
          /\ push' = [push EXCEPT !.kube = v]
          /\ UNCHANGED loopback /\ UNCHANGED netFaults
       \/ /\ v # push.prevKube
          /\ push' = [push EXCEPT !.kube = v, !.at = "submit"]
          /\ \/ loopback' = Configure(push.prevKube, v, loopback) /\ UNCHANGED netFaults
             \/ /\ netFaults < MaxNetFaults /\ netFaults' = netFaults + 1
                /\ UNCHANGED loopback
  /\ kubePipe' = [kubePipe EXCEPT !.held = <<>>]
  /\ UNCHANGED <<pullVars, kubeValue, netValue, netPipe, submitted, netChanges>>

ReceiveNetwork ==
  /\ push.at = "select" /\ netPipe.held # <<>>
  /\ LET a == netPipe.held[1] IN
       push' = [push EXCEPT !.local = a, !.at = IF a = push.prevLocal THEN "select" ELSE "submit"]
  /\ netPipe' = [netPipe EXCEPT !.held = <<>>]
  /\ UNCHANGED <<pullVars, kubeValue, netValue, kubePipe, submitted, loopback, netChanges, netFaults>>

\* UpdateNodeClusterNetworking succeeds, perhaps after retries, ...
Prevs == [push EXCEPT !.at = "select", !.prevKube = push.kube, !.prevLocal = push.local]
SubmitPrefixes ==
  /\ push.at = "submit"
  /\ submitted' = AllPrefixes(push.kube, push.local)
  /\ push' = Prevs
  /\ UNCHANGED <<pullVars, kubeValue, netValue, kubePipe, netPipe, loopback, netChanges, netFaults>>

\* ... or is given up: the group of push and its pipes is restarted, and the
\* pipes hand out the current values again.
RestartedPipe(value, none) == Pipe(<<>>, IF value = none THEN "no" ELSE "yes")
SubmitGivenUp ==
  /\ push.at = "submit" /\ netFaults < MaxNetFaults /\ netFaults' = netFaults + 1
  /\ push' = PushStart
  /\ kubePipe' = RestartedPipe(kubeValue, NoPrefixes) /\ netPipe' = RestartedPipe(netValue, NoAddr)
  /\ UNCHANGED <<pullVars, kubeValue, netValue, submitted, loopback, netChanges>>

NetNext ==
  \/ \E n \in Peer : PeerChanges(n)
  \/ WatchEvent \/ WatchFails \/ SetKube \/ SetNetwork \/ PipeTakes
  \/ ReceiveKube \/ ReceiveNetwork \/ SubmitPrefixes \/ SubmitGivenUp

NetTypeOK ==
  /\ peerInfo \in [Peer -> PeerData \cup {Gone}] /\ peers \in [Peer -> PeerData \cup {Gone}]
  /\ push.at \in {"select", "submit"} /\ push.kube \in KubeValues /\ push.prevKube \in KubeValues
  /\ submitted \subseteq KubeNet \cup LocalAddr /\ loopback \subseteq KubeNet

\* What the mesh should hold of a node.
Wanted(n) == IF MeshFilter[peerSent[n]] THEN peerSent[n] ELSE Gone

\* Between batches the WireGuard device has exactly the peers the watch has
\* reported, with their current data, except for nodes that were once removed
\* from the mesh or after a batch that could not be configured; once both
\* pipes are drained the Curator has exactly the prefixes of this node's
\* current address and pod networks, whatever was retried, restarted or
\* delivered late in between; and without failures the loopback interface
\* carries an address for exactly the current pod networks.
NetSound ==
  /\ broken = "no" => \A n \in Peer \ flapped : peers[n] = Wanted(n)
  /\ /\ push.at = "select"
     /\ kubePipe = Pipe(<<>>, "no") /\ netPipe = Pipe(<<>>, "no")
     => /\ submitted = AllPrefixes(kubeValue, netValue)
        /\ netFaults = 0 => loopback = kubeValue \ NoPrefixes

-----------------------------------------------------------------------------
(***************************************************************************)
(* The hostsfile service (metropolis/node/core/network/hostsfile): one     *)
(* loop merges this node's own address and the nodes the Curator reports   *)
(* into a node map, and writes it out as /etc/hosts and, with the control  *)
(* plane nodes only, as the cluster directory on the EFI system partition, *)
(* from which a restarted node finds its cluster again.  A crash may come  *)
(* between any two steps; a write of the directory may be torn by one.     *)
(***************************************************************************)

CONSTANTS
  Self,           \* this node
  OtherNode,      \* the others
  HostAddr,       \* addresses
  MaxHostChanges, \* bound on changes of addresses and roles
  MaxCrashes      \* bound on restarts

VARIABLES
  hostStatus,     \* the cluster's data of each node, NoHostStatus without an address
  ownAddr,        \* this node's external address, "none" before it has one
  hostOrigin,     \* WatchNodes' node sets in runCluster
  hostFollowed,
  clusterNodes,   \* runCluster's nodes
  clusterC,       \* the copy on its way to the loop, <<>> when there is none
  addrSeen,       \* the loop has received the current own address
  hostMap,          \* the loop's node map
  haveRemoteData,
  hosts,          \* /etc/hosts: node -> address
  directory,      \* the saved cluster directory: a set of [id, addr], Absent or Torn
  saved,          \* ClusterDirectorySaved
  known,          \* control plane nodes the saved directory once had
  hostChanges,
  crashes

hostVars == <<hostStatus, ownAddr, hostOrigin, hostFollowed, clusterNodes, clusterC, addrSeen,
              hostMap, haveRemoteData, hosts, directory, saved, known, hostChanges, crashes>>

HostNode == {Self} \cup OtherNode
Status(a, controller) == [addr |-> a, member |-> controller]
NoHostStatus == Status("none", "no")
Statuses == {Status(a, m) : a \in HostAddr, m \in {"yes", "no"}} \cup {NoHostStatus}
Info(a, loc, cp) == [address |-> a, local |-> loc, controlPlane |-> cp]
\* The zero nodeInfo a lookup of an absent node returns.
NoInfo == Info("", "no", "no")
NoNodes == [n \in HostNode |-> NoInfo]
InMap(m, n) == m[n].address # "" \/ m[n].controlPlane = "yes"
Entry(n, a) == [id |-> n, addr |-> a]
NoDirectory == {Entry("absent", "none")}
Torn == {Entry("torn", "none")}

\* hosts and clusterDirectory.
HostsOf(m) == [n \in {k \in HostNode : InMap(m, k)} |-> m[n].address]
DirectoryFault(m) == {Entry(n, m[n].address) : n \in {k \in HostNode : InMap(m, k)}}
Directory(m) == {Entry(n, m[n].address) : n \in {k \in HostNode : m[k].controlPlane = "yes"}}
NodesOf(d) == {e.id : e \in d \ (NoDirectory \cup Torn)}

\* Run restores the nodes of a saved directory that unmarshals.
Restored(d) ==
  [n \in HostNode |->
     IF \E e \in d : e.id = n
       THEN Info((CHOOSE e \in d : e.id = n).addr, "no", "yes") ELSE NoInfo]

StartsWith(d) ==
  /\ hostOrigin = EmptyNodeSet(HostNode, NoHostStatus)
  /\ hostFollowed = EmptyNodeSet(HostNode, NoHostStatus)
  /\ clusterNodes = NoNodes /\ clusterC = <<>> /\ addrSeen = "no"
  /\ hostMap = Restored(d) /\ haveRemoteData = "no"
  /\ hosts = HostsOf(Restored(d))

HostInit ==
  /\ hostStatus = [n \in HostNode |-> NoHostStatus] /\ ownAddr = "none"
  /\ directory = NoDirectory /\ saved = "no" /\ known = {}
  /\ StartsWith(NoDirectory)
  /\ hostChanges = 0 /\ crashes = 0

inputs == <<hostStatus, ownAddr, hostChanges>>
watch == <<hostOrigin, hostFollowed, clusterNodes>>
files == <<hosts, directory, saved, known>>

\* The cluster's record of a node changes: an address, or its roles.
RecordChanges(n) ==
  /\ hostChanges < MaxHostChanges /\ hostChanges' = hostChanges + 1
  /\ \E s \in Statuses \ {hostStatus[n]} : hostStatus' = [hostStatus EXCEPT ![n] = s]
  /\ UNCHANGED <<ownAddr, watch, clusterC, addrSeen, hostMap, haveRemoteData, files, crashes>>

OwnAddrChanges ==
  /\ hostChanges < MaxHostChanges /\ hostChanges' = hostChanges + 1
  /\ \E a \in HostAddr \ {ownAddr} : ownAddr' = a
  /\ addrSeen' = "no"
  /\ UNCHANGED <<hostStatus, watch, clusterC, hostMap, haveRemoteData, files, crashes>>

\* runCluster: an event is followed and the map sent to the loop, for which the
\* watch waits.
HostFilter == [s \in Statuses |-> s.addr # "none"]
HostEqualsFault == [a, b \in Statuses |-> a.addr = b.addr]
HostEquals == [a, b \in Statuses |-> a = b]
ClusterEvent ==
  /\ clusterC = <<>> /\ hostOrigin.nodes # hostStatus
  /\ hostOrigin' = UpdateFromEvent(hostOrigin,
                     [n \in {k \in HostNode : hostStatus[k] # hostOrigin.nodes[k]} |-> hostStatus[n]],
                     {}, NoHostStatus)
  /\ LET new == NewUpdated(hostFollowed, hostOrigin', NoHostStatus, HostFilter, HostEquals)
         deleted == Deleted(hostFollowed, hostOrigin', HostFilter) IN
       clusterNodes' = [n \in HostNode |->
                          IF n \in deleted THEN NoInfo
                          ELSE IF n \in new THEN Info(hostStatus[n].addr, "no", hostStatus[n].member)
                          ELSE clusterNodes[n]]
  /\ hostFollowed' = Followed(hostFollowed, hostOrigin', NoHostStatus, HostFilter)
  /\ clusterC' = <<clusterNodes'>>
  /\ UNCHANGED <<inputs, addrSeen, hostMap, haveRemoteData, files, crashes>>

\* The end of a round of the loop: a change is written to /etc/hosts and, once
\* the cluster has been heard, to the cluster directory.
WriteOutFault(m, remote) ==
  /\ hosts' = HostsOf(m)
  /\ directory' = Directory(m) /\ saved' = "yes" /\ known' = known \cup NodesOf(Directory(m))
WriteOut(m, remote) ==
  /\ hosts' = HostsOf(m)
  /\ IF remote = "yes"
       THEN /\ directory' = Directory(m) /\ saved' = "yes"
            /\ known' = known \cup NodesOf(Directory(m))
       ELSE UNCHANGED <<directory, saved, known>>

\* A local network status: the node's own entry is replaced.
ReceiveLocal ==
  /\ addrSeen = "no" /\ ownAddr # "none"
  /\ addrSeen' = "yes"
  /\ IF hostMap[Self].address = ownAddr
       THEN UNCHANGED <<hostMap, files>>
       ELSE /\ hostMap' = [hostMap EXCEPT ![Self] = Info(ownAddr, "yes", "no")]
            /\ WriteOut(hostMap', haveRemoteData)
  /\ UNCHANGED <<inputs, watch, clusterC, haveRemoteData, crashes>>

\* A map from the cluster: of this node only the control plane flag is taken,
\* nodes that disappeared are kept.
Equal(a, b) == a.address = b.address /\ a.controlPlane = b.controlPlane
Merged(m, u) ==
  [n \in HostNode |->
     IF ~InMap(u, n) THEN m[n]
     ELSE IF n = Self THEN [m[n] EXCEPT !.controlPlane = u[n].controlPlane]
     ELSE IF Equal(m[n], u[n]) THEN m[n] ELSE u[n]]
ReceiveCluster ==
  /\ clusterC # <<>>
  /\ hostMap' = Merged(hostMap, clusterC[1])
  /\ haveRemoteData' = "yes"
  /\ IF hostMap' = hostMap THEN UNCHANGED files ELSE WriteOut(hostMap', "yes")
  /\ clusterC' = <<>>
  /\ UNCHANGED <<inputs, watch, addrSeen, crashes>>

\* The node stops, perhaps within a write of the directory, and starts again.
CrashHost ==
  /\ crashes < MaxCrashes /\ crashes' = crashes + 1
  /\ \E d \in IF haveRemoteData = "yes" THEN {directory, Torn} ELSE {directory} :
       /\ directory' = d
       /\ saved' = IF d = NoDirectory THEN "no" ELSE "yes"
       /\ hostOrigin' = EmptyNodeSet(HostNode, NoHostStatus)
       /\ hostFollowed' = EmptyNodeSet(HostNode, NoHostStatus)
       /\ clusterNodes' = NoNodes /\ clusterC' = <<>>
       /\ hostMap' = Restored(d) /\ haveRemoteData' = "no"
       /\ hosts' = HostsOf(Restored(d))
       /\ known' = NodesOf(d)
  /\ ownAddr' = "none" /\ addrSeen' = "no"
  /\ UNCHANGED <<hostStatus, hostChanges>>

HostNext ==
  \/ \E n \in HostNode : RecordChanges(n)
  \/ OwnAddrChanges \/ ClusterEvent \/ ReceiveLocal \/ ReceiveCluster \/ CrashHost

HostTypeOK ==
  /\ hostStatus \in [HostNode -> Statuses]
  /\ \A n \in HostNode : hostMap[n].address \in HostAddr \cup {""}
  /\ saved \in {"yes", "no"} /\ haveRemoteData \in {"yes", "no"}

\* Everything the cluster has sent has been merged.
Heard(n) == haveRemoteData = "yes" /\ clusterC = <<>> /\ n \in hostFollowed.names

\* /etc/hosts always shows the node map; a node the cluster reports is resolved
\* to the address last reported, and this node to its own address even when the
\* cluster's record of it is older; the cluster directory holds control plane
\* nodes only, and is not overwritten before the cluster has been heard: until
\* then every node that was restored from it is still in it; and it is reported
\* as saved exactly when there is one.
HostsSound ==
  /\ hosts = HostsOf(hostMap)
  /\ \A n \in OtherNode : Heard(n) => /\ hostMap[n].address = hostFollowed.nodes[n].addr
                                      /\ hostMap[n].controlPlane = hostFollowed.nodes[n].member
  /\ addrSeen = "yes" => hosts[Self] = ownAddr
  /\ haveRemoteData = "no" => NodesOf(directory) = known
  /\ \A e \in directory \ (NoDirectory \cup Torn) : hostMap[e.id].controlPlane = "yes" \/ e.id = Self
  /\ saved = "yes" <=> directory # NoDirectory
=============================================================================
