----------------------------- MODULE Consensus -----------------------------
(***************************************************************************)
(* The consensus service of a node: Run of metropolis/node/core/consensus  *)
(* with its bootstrap, the autopromoter and the selfupdater, over the      *)
(* restarts that the supervisor makes.  The PKI is in Pki, the addition of *)
(* members in CuratorNodes; etcd is the environment.                       *)
(***************************************************************************)
EXTENDS Naturals, FiniteSets

CONSTANT MaxConFaults \* bound on the failures and cancellations

VARIABLES
    joinCluster, \* "yes" where the configuration has a JoinCluster
    peerFiles,   \* the files of PeerPKI and the PeerCRL that are on disk
    etcdData,    \* the data directory: "none" or "cluster"
    pki,         \* the PKI in etcd: "none" or "built"
    member,      \* this node in etcd: "none", "learner", "voter"
    peerURL,     \* the peer URL that etcd has for it: "none", "loopback", "node"
    others,      \* another member of the cluster: "none", "learner", "voter"
    conAt,       \* where Run is
    server,      \* the etcd server of the process: "none", "bootstrap", "full", "leaked"
    conStatus,   \* the Status value: "unset", "running", "stopped"
    memberUpdater,     \* the selfupdater: "wait", "done", "stale" with no newer status to act on
    torn,        \* "yes" once the files were written only in part
    conFaults    \* failures so far

conVars == <<joinCluster, peerFiles, etcdData, pki, member, peerURL, others, conAt, server,
             conStatus, memberUpdater, torn, conFaults>>

PeerFile == {"key", "certificate", "ca", "crl"}

(* WriteAll, and then the CRL *)
WriteOrder == <<"key", "certificate", "ca", "crl">>

(* A node that bootstraps has nothing; one that joins was added as a       *)
(* learner to a cluster.                                                   *)
ConInit ==
    /\ joinCluster \in {"yes", "no"}
    /\ peerFiles = {}
    /\ etcdData = "none"
    /\ pki = IF joinCluster = "yes" THEN "built" ELSE "none"
    /\ member = IF joinCluster = "yes" THEN "learner" ELSE "none"
    /\ peerURL = IF joinCluster = "yes" THEN "node" ELSE "none"
    /\ others = IF joinCluster = "yes" THEN "voter" ELSE "none"
    /\ conAt = "begin"
    /\ server = "none"
    /\ conStatus = "unset"
    /\ memberUpdater = "wait"
    /\ torn = "no"
    /\ conFaults = 0

-----------------------------------------------------------------------------

(* A JoinCluster is always written out; else the files are those of an     *)
(* earlier run, and where there are none a cluster is bootstrapped.        *)
AllAbsent == peerFiles \cap {"key", "certificate", "ca"} = {}

ConBegins ==
    /\ conAt = "begin"
    /\ conAt' = CASE joinCluster = "yes" -> "write1"
                  [] joinCluster = "no" /\ AllAbsent -> "bootstrap"
                  [] OTHER -> "start"
    /\ UNCHANGED <<joinCluster, peerFiles, etcdData, pki, member, peerURL, others, server,
                   conStatus, memberUpdater, torn, conFaults>>

(* bootstrap: an etcd without peers is started, on the data of an earlier  *)
(* attempt if there is some.                                               *)
BootstrapEtcd ==
    /\ conAt = "bootstrap"
    /\ server = "none"
    /\ server' = "bootstrap"
    /\ etcdData' = "cluster"
    /\ member' = "voter"
    /\ peerURL' = IF etcdData = "none" THEN "loopback" ELSE peerURL
    /\ conAt' = "pki"
    /\ UNCHANGED <<joinCluster, peerFiles, pki, others, conStatus, memberUpdater, torn, conFaults>>

(* Ensure creates what is not there. *)
BootstrapPKI ==
    /\ conAt = "pki"
    /\ pki' = "built"
    /\ conAt' = "write1"
    /\ UNCHANGED <<joinCluster, peerFiles, etcdData, member, peerURL, others, server, conStatus,
                   memberUpdater, torn, conFaults>>

WriteAt(i) == conAt = <<"write1", "write2", "write3", "write4">>[i]

AfterWrite(i) == <<"write2", "write3", "write4", "start">>[i]

(* The last write of bootstrap is followed by the stop of its server. *)
WriteFile(i) ==
    /\ WriteAt(i)
    /\ peerFiles' = peerFiles \cup {WriteOrder[i]}
    /\ conAt' = AfterWrite(i)
    /\ server' = IF i = 4 THEN "none" ELSE server
    /\ UNCHANGED <<joinCluster, etcdData, pki, member, peerURL, others, conStatus, memberUpdater, torn,
                   conFaults>>

(* Peers are resolvable, and etcd starts with all files in place. *)
StartEtcd ==
    /\ conAt = "start"
    /\ server = "none"
    /\ peerFiles = PeerFile
    /\ server' = "full"
    /\ etcdData' = "cluster"
    /\ conAt' = "ready"
    /\ UNCHANGED <<joinCluster, peerFiles, pki, member, peerURL, others, conStatus, memberUpdater, torn,
                   conFaults>>

(* ReadyNotify, and then the wait until this is no learner any more. *)
ConReady ==
    /\ conAt = "ready"
    /\ member = "voter"
    /\ conAt' = "healthy"
    /\ conStatus' = "running"
    /\ UNCHANGED <<joinCluster, peerFiles, etcdData, pki, member, peerURL, others, server,
                   memberUpdater, torn, conFaults>>

-----------------------------------------------------------------------------
(* The sub-runnables, which are started before Run does any of this *)

(* MemberUpdate with the URL of the full configuration.  If it fails the   *)
(* loop waits for another status.                                          *)
SelfUpdate ==
    /\ memberUpdater = "wait"
    /\ conStatus = "running"
    /\ \/ /\ server = "full"
          /\ peerURL' = "node"
          /\ memberUpdater' = "done"
          /\ UNCHANGED conFaults
       \/ /\ conFaults < MaxConFaults
          /\ conFaults' = conFaults + 1
          /\ memberUpdater' = "stale"
          /\ UNCHANGED peerURL
    /\ UNCHANGED <<joinCluster, peerFiles, etcdData, pki, member, others, conAt, server,
                   conStatus, torn>>

(* The leader promotes what it lists as learners; here for another member, *)
(* there for this one.                                                     *)
Autopromote ==
    /\ conStatus = "running"
    /\ server = "full"
    /\ others = "learner"
    /\ others' = "voter"
    /\ UNCHANGED <<joinCluster, peerFiles, etcdData, pki, member, peerURL, conAt, server,
                   conStatus, memberUpdater, torn, conFaults>>

PromotedByOther ==
    /\ member = "learner"
    /\ others = "voter"
    /\ server = "full"
    /\ member' = "voter"
    /\ UNCHANGED <<joinCluster, peerFiles, etcdData, pki, peerURL, others, conAt, server,
                   conStatus, memberUpdater, torn, conFaults>>

(* A node is added while this one is a member: AddNode. *)
OtherAdded ==
    /\ others = "none"
    /\ conStatus = "running"
    /\ others' = "learner"
    /\ UNCHANGED <<joinCluster, peerFiles, etcdData, pki, member, peerURL, conAt, server,
                   conStatus, memberUpdater, torn, conFaults>>

-----------------------------------------------------------------------------
(* Run returns, and is run again with its sub-runnables. *)

Restarted ==
    /\ conFaults < MaxConFaults
    /\ conFaults' = conFaults + 1
    /\ conAt' = "begin"
    /\ memberUpdater' = "wait"

(* A step fails, or the context is cancelled.  bootstrap closes its server *)
(* in any case; the full server is closed only where Run waits for it to   *)
(* die, and is left behind where it is not ready yet.                      *)
ServerAfterFault(at) == IF server = "bootstrap" THEN "none" ELSE server

ServerAfter(at) ==
    CASE server = "bootstrap"                -> "none"
      [] server = "full" /\ at = "ready" -> "leaked"
      [] server = "full" /\ at = "healthy" -> "none"
      [] OTHER                               -> server

ConFails ==
    /\ Restarted
    /\ server' = ServerAfter(conAt)
    /\ conStatus' = IF conAt = "healthy" THEN "stopped" ELSE conStatus
    /\ torn' = IF conAt \in {"write2", "write3", "write4"} /\ joinCluster = "no" THEN "yes" ELSE torn
    /\ UNCHANGED <<joinCluster, peerFiles, etcdData, pki, member, peerURL, others>>

(* The machine restarts.  One that was bootstrapped then has the roles of  *)
(* its first boot, and with them a JoinCluster.                            *)
ConReboot ==
    /\ conAt = "healthy"
    /\ Restarted
    /\ server' = "none"
    /\ conStatus' = "unset"
    /\ joinCluster' = "yes"
    /\ UNCHANGED <<peerFiles, etcdData, pki, member, peerURL, others, torn>>

ConNext ==
    \/ ConBegins
    \/ BootstrapEtcd
    \/ BootstrapPKI
    \/ \E i \in 1 .. 4 : WriteFile(i)
    \/ StartEtcd
    \/ ConReady
    \/ SelfUpdate
    \/ Autopromote
    \/ PromotedByOther
    \/ OtherAdded
    \/ ConFails
    \/ ConReboot

-----------------------------------------------------------------------------

(* Every variable has its type. *)
ConTypeOK ==
    /\ peerFiles \subseteq PeerFile
    /\ member \in {"none", "learner", "voter"}
    /\ others \in {"none", "learner", "voter"}
    /\ peerURL \in {"none", "loopback", "node"}
    /\ server \in {"none", "bootstrap", "full", "leaked"}
    /\ conStatus \in {"unset", "running", "stopped"}
    /\ memberUpdater \in {"wait", "done", "stale"}

(* A status that is running names a full server that takes part in the     *)
(* quorum.  A bootstrap never runs over a cluster that others have joined. *)
(* Run can always be started again: the files it finds are complete or     *)
(* none, unless a bootstrap was interrupted between them, and no server    *)
(* holds the data, unless Run was cancelled before it was ready.  Where    *)
(* the update of the peer URL did not fail, others are told this node's.   *)
ConsensusSound ==
    /\ conStatus = "running" => server = "full" /\ member = "voter" /\ conAt = "healthy"
    /\ conAt \in {"bootstrap", "pki"} => others = "none" /\ peerFiles = {}
    /\ conAt \in {"begin", "start"} /\ server # "leaked" => server = "none"
    /\ conAt = "start" /\ torn = "no" => peerFiles = PeerFile
    /\ memberUpdater = "done" => peerURL = "node"

=============================================================================
