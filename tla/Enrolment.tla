----------------------------- MODULE Enrolment -----------------------------
(***************************************************************************)
(* How machines become nodes: the cluster manager of every machine         *)
(* (bootstrap, register and join), what it leaves on the machine's disk,   *)
(* and the curator it talks to, whose calls are those of CuratorNodes.     *)
(*                                                                         *)
(* Each attempt to bootstrap or register generates a node key, a join key, *)
(* a node unlock key and a cluster unlock key.  They are only told apart   *)
(* by the attempt, so the node ID stands for all of them (Cuk = Node).     *)
(* A call has the outcome "unknown" also if only its response is lost.     *)
(***************************************************************************)
EXTENDS CuratorNodes

CONSTANTS
    Machine,        \* machines
    Bootstrapper,   \* machines whose node parameters say cluster_bootstrap
    Deletable,      \* nodes that an operator may delete
    FaultSets       \* the kinds of faults a behaviour may have, by behaviour

ASSUME EnrolmentAssumption ==
    /\ Bootstrapper \subseteq Machine
    /\ Deletable \subseteq Node
    /\ FaultSets \subseteq SUBSET {"crash", "unseal", "buffer"}
    /\ Cuk = Node
    /\ NoCuk = Nobody

VARIABLES
    kinds,      \* the kinds of faults that may happen to the machines
    pc,         \* what each machine's cluster manager does next
    id,         \* the node that the current attempt is for
    used,       \* nodes that some attempt was for
    disk,       \* what each machine has on its disk
    synced      \* what of it survives a power failure

curatorVars == nodesVars

machineVars == <<kinds, pc, id, used, disk, synced>>

allVars == <<nodes, index, certs, members, cacheState, cache, faults,
             kinds, pc, id, used, disk, synced>>

Maybe == Node \union {Nobody}

(* data and credentials are on the data partition, which data's keys       *)
(* unlock; directory and sealed are on the ESP.                            *)
Disk ==
    [data      : Maybe,
     creds     : Maybe,
     directory : {"absent", "present"},
     sealed    : [node : Maybe, ca : {"absent", "present"}]]

NoSealed == [node |-> Nobody, ca |-> "absent"]

EmptyDisk ==
    [data |-> Nobody, creds |-> Nobody, directory |-> "absent", sealed |-> NoSealed]

Step ==
    {"boot", "register", "mount", "commit", "credentials", "directory", "seal",
     "sync", "curator", "bootCredentials", "bootSeal", "join", "up", "fatal"}

EnrolmentTypeOK ==
    /\ NodesTypeOK
    /\ kinds \in FaultSets
    /\ pc \in [Machine -> Step]
    /\ id \in [Machine -> Maybe]
    /\ used \subseteq Node
    /\ disk \in [Machine -> Disk]
    /\ synced \in [Machine -> Disk]

EnrolmentInit ==
    /\ kinds \in FaultSets
    /\ nodes = [n \in Node |-> Absent]
    /\ index = {}
    /\ certs = {}
    /\ members = [n \in Node |-> "none"]
    /\ cacheState = "nil"
    /\ cache = [k \in WgKey |-> Nobody]
    /\ faults = 0
    /\ pc = [m \in Machine |-> "boot"]
    /\ id = [m \in Machine |-> Nobody]
    /\ used = {}
    /\ disk = [m \in Machine |-> EmptyDisk]
    /\ synced = [m \in Machine |-> EmptyDisk]

Goto(m, step) == pc' = [pc EXCEPT ![m] = step]

Kind(kind) ==
    /\ kind \in kinds
    /\ faults < MaxFaults
    /\ faults' = faults + 1

(* FSPlacement.Write renames a synced file into place. *)
Write(m, content) ==
    /\ disk' = [disk EXCEPT ![m] = content]
    /\ UNCHANGED synced

-----------------------------------------------------------------------------
(* Manager.Run *)

Sealed(m) == disk[m].sealed.node # Nobody

(* The keys of a new attempt. *)
NewKeys(m) ==
    \E n \in Node \ used :
        /\ id' = [id EXCEPT ![m] = n]
        /\ used' = used \union {n}
        /\ Goto(m, IF m \in Bootstrapper THEN "mount" ELSE "register")

RunFault(m) ==
    /\ pc[m] = "boot"
    /\ NewKeys(m)
    /\ UNCHANGED <<kinds, curatorVars, disk, synced>>

Run(m) ==
    /\ pc[m] = "boot"
    /\ IF Sealed(m)
       THEN /\ Goto(m, IF disk[m].directory = "present" THEN "join" ELSE "fatal")
            /\ UNCHANGED <<id, used>>
       ELSE NewKeys(m)
    /\ UNCHANGED <<kinds, curatorVars, disk, synced>>

(* What the TPM does not unseal still parses, as a plain configuration     *)
(* without a cluster CA, which join refuses.                               *)
RunMisread(m) ==
    /\ pc[m] = "boot"
    /\ Sealed(m)
    /\ Kind("unseal")
    /\ Goto(m, "fatal")
    /\ UNCHANGED <<kinds, curatorVars, disk, synced, id, used>>

(* A file that does not parse either counts as corrupted, and the node     *)
(* parameters are used.                                                    *)
RunCorrupted(m) ==
    /\ pc[m] = "boot"
    /\ Sealed(m)
    /\ Kind("unseal")
    /\ NewKeys(m)
    /\ UNCHANGED <<kinds, nodes, index, certs, members, cacheState, cache, disk, synced>>

-----------------------------------------------------------------------------
(* Manager.register *)

Register(m) ==
    /\ pc[m] = "register"
    /\ \E out \in CallOutcome :
           /\ RegisterNode(id[m], {}, out)
           /\ Goto(m, IF out = "ok" THEN "mount" ELSE "fatal")
    /\ UNCHANGED <<kinds, id, used, disk, synced>>

(* MountNew formats the data partition with keys of its own. *)
MountNew(m) ==
    /\ pc[m] = "mount"
    /\ disk' = [disk EXCEPT ![m].data = id[m], ![m].creds = Nobody]
    /\ synced' = [synced EXCEPT ![m].data = id[m], ![m].creds = Nobody]
    /\ Goto(m, IF m \in Bootstrapper THEN "directory" ELSE "commit")
    /\ UNCHANGED <<kinds, curatorVars, id, used>>

CommitFault(m) ==
    /\ pc[m] = "commit"
    /\ \E out \in CallOutcome :
           /\ CommitNode(id[m], id[m], out)
           /\ Goto(m, "credentials")
    /\ UNCHANGED <<kinds, id, used, disk, synced>>

(* The loop ends with the first response; every error is retried. *)
Commit(m) ==
    /\ pc[m] = "commit"
    /\ \E out \in CallOutcome :
           /\ CommitNode(id[m], id[m], out)
           /\ Goto(m, IF out = "ok" THEN "credentials" ELSE "commit")
    /\ UNCHANGED <<kinds, id, used, disk, synced>>

SaveCredentials(m) ==
    /\ pc[m] = "credentials"
    /\ Write(m, [disk[m] EXCEPT !.creds = id[m]])
    /\ Goto(m, "directory")
    /\ UNCHANGED <<kinds, curatorVars, id, used>>

SaveDirectory(m) ==
    /\ pc[m] = "directory"
    /\ Write(m, [disk[m] EXCEPT !.directory = "present"])
    /\ Goto(m, "seal")
    /\ UNCHANGED <<kinds, curatorVars, id, used>>

SealFault(m) ==
    /\ pc[m] = "seal"
    /\ Write(m, [disk[m] EXCEPT !.sealed = [node |-> id[m], ca |-> "absent"]])
    /\ Goto(m, IF m \in Bootstrapper THEN "curator" ELSE "sync")
    /\ UNCHANGED <<kinds, curatorVars, id, used>>

(* A bootstrapping machine has no cluster CA yet. *)
Seal(m) ==
    /\ pc[m] = "seal"
    /\ Write(m, [disk[m] EXCEPT !.sealed =
           [node |-> id[m], ca |-> IF m \in Bootstrapper THEN "absent" ELSE "present"]])
    /\ Goto(m, IF m \in Bootstrapper THEN "curator" ELSE "sync")
    /\ UNCHANGED <<kinds, curatorVars, id, used>>

Sync(m) ==
    /\ pc[m] = "sync"
    /\ synced' = [synced EXCEPT ![m] = disk[m]]
    /\ Goto(m, "up")
    /\ UNCHANGED <<kinds, curatorVars, id, used, disk>>

-----------------------------------------------------------------------------
(* The bootstrap branch of the control plane launcher. *)

(* NewNodeForBootstrap. *)
BootRecord(n) == Bootstrapped(n)

(* BootstrapNodeFinish: a transaction that changes nothing the second time. *)
BootstrapNodeFinish(m) ==
    /\ pc[m] = "curator"
    /\ IF Exists(id[m])
       THEN UNCHANGED curatorVars
       ELSE /\ nodes' = [nodes EXCEPT ![id[m]] = BootRecord(id[m])]
            /\ index' = index \union {id[m]}
            /\ certs' = certs \union {id[m]}
            /\ members' = [members EXCEPT ![id[m]] = "voter"]
            /\ UNCHANGED <<cacheState, cache, faults>>
    /\ Goto(m, "bootCredentials")
    /\ UNCHANGED <<kinds, id, used, disk, synced>>

BootCredentials(m) ==
    /\ pc[m] = "bootCredentials"
    /\ Write(m, [disk[m] EXCEPT !.creds = id[m]])
    /\ Goto(m, "bootSeal")
    /\ UNCHANGED <<kinds, curatorVars, id, used>>

BootSeal(m) ==
    /\ pc[m] = "bootSeal"
    /\ Write(m, [disk[m] EXCEPT !.sealed.ca = "present"])
    /\ Goto(m, "up")
    /\ UNCHANGED <<kinds, curatorVars, id, used>>

(* The supervisor runs the launcher again after an error. *)
LauncherRestart(m) ==
    /\ pc[m] \in {"bootCredentials", "bootSeal"}
    /\ Kind("crash")
    /\ Goto(m, "curator")
    /\ UNCHANGED <<kinds, nodes, index, certs, members, cacheState, cache, id, used, disk, synced>>

-----------------------------------------------------------------------------
(* Manager.join *)

JoinNodeFault(n) == n \in index /\ nodes[n].state # "UP"

(* JoinNode answers with the unlock key of a node that is UP. *)
JoinNode(n) == n \in index /\ nodes[n].state = "UP"

Join(m) ==
    LET n == disk[m].sealed.node IN
    /\ pc[m] = "join"
    /\ IF disk[m].sealed.ca = "absent"
       THEN Goto(m, "fatal")
       ELSE /\ JoinNode(n)
            /\ Goto(m, IF disk[m].data = n /\ nodes[n].cuk = n /\ disk[m].creds # Nobody
                       THEN "up"
                       ELSE "fatal")
    /\ UNCHANGED <<kinds, curatorVars, id, used, disk, synced>>

(* The node reboots after an error of the manager. *)
Reboot(m) ==
    /\ pc[m] = "fatal"
    /\ Goto(m, "boot")
    /\ id' = [id EXCEPT ![m] = Nobody]
    /\ UNCHANGED <<kinds, curatorVars, used, disk, synced>>

(* What a power failure may leave of the files written since the last sync. *)
Survives(m) ==
    IF "buffer" \in kinds
    THEN {[data      |-> disk[m].data,
           creds     |-> c,
           directory |-> d,
           sealed    |-> s] : c \in {disk[m].creds, synced[m].creds},
                              d \in {disk[m].directory, synced[m].directory},
                              s \in {disk[m].sealed, synced[m].sealed}}
    ELSE {disk[m]}

MachineCrash(m) ==
    /\ pc[m] \notin {"boot", "fatal"}
    /\ Kind("crash")
    /\ \E content \in Survives(m) :
           /\ disk' = [disk EXCEPT ![m] = content]
           /\ synced' = [synced EXCEPT ![m] = content]
    /\ Goto(m, "boot")
    /\ id' = [id EXCEPT ![m] = Nobody]
    /\ UNCHANGED <<kinds, nodes, index, certs, members, cacheState, cache, used>>

Approve(n) == ApproveNode(n, "ok") /\ UNCHANGED machineVars

Delete(n) == DeleteNode(n, TRUE, TRUE, "ok") /\ UNCHANGED machineVars

MachineStep(m) ==
    \/ Run(m) \/ Register(m) \/ MountNew(m) \/ Commit(m)
    \/ SaveCredentials(m) \/ SaveDirectory(m) \/ Seal(m) \/ Sync(m)
    \/ BootstrapNodeFinish(m) \/ BootCredentials(m) \/ BootSeal(m)
    \/ Join(m) \/ Reboot(m)

EnrolmentNext ==
    \/ \E m \in Machine : MachineStep(m)
    \/ \E m \in Machine : RunMisread(m) \/ RunCorrupted(m) \/ LauncherRestart(m) \/ MachineCrash(m)
    \/ \E n \in Node : Approve(n)
    \/ \E n \in Deletable : Delete(n)

EnrolmentSpec == EnrolmentInit /\ [][EnrolmentNext]_allVars

(* Machines run, calls get through again and again, and somebody approves  *)
(* every node.                                                             *)
EnrolmentFairSpec ==
    /\ EnrolmentSpec
    /\ \A m \in Machine :
           /\ WF_allVars(MachineStep(m))
           /\ WF_allVars(Commit(m) /\ pc'[m] # "commit")
    /\ \A n \in Node : WF_allVars(Approve(n))

-----------------------------------------------------------------------------
(* No power failure undoes a rename, and every configuration is readable. *)
Durable == kinds \subseteq {"crash"}

(* A machine that registers has a sealed configuration only together with  *)
(* all that join needs: the cluster CA, the directory and the node's       *)
(* credentials ("contains all data required for a node to be able to join  *)
(* a cluster after startup").                                              *)
SealedComplete ==
    Durable => \A m \in Machine \ Bootstrapper : Sealed(m) =>
        /\ disk[m].sealed.ca = "present"
        /\ disk[m].directory = "present"
        /\ disk[m].creds = disk[m].sealed.node

(* The cluster holds the key to the data of every machine with a sealed    *)
(* configuration, from the moment that configuration is written: a machine *)
(* that registered has a node that is UP, unless it was deleted.           *)
DataUnlockable ==
    Durable => \A m \in Machine : Sealed(m) =>
        LET n == disk[m].sealed.node IN
        /\ disk[m].data = n
        /\ Exists(n) => nodes[n].state = "UP" /\ nodes[n].cuk = n
        /\ m \notin Bootstrapper => Exists(n) \/ n \in Deletable

(* The credentials on a data partition belong to the keys that unlock it,  *)
(* and to a node whose CommitNode was answered, whatever fails: no machine *)
(* acts as a node that it is not.                                          *)
CredentialsMatch ==
    \A m \in Machine : disk[m].creds # Nobody =>
        disk[m].creds = disk[m].data /\ disk[m].creds \in certs

(* The data of a machine with a sealed configuration is never formatted    *)
(* over: MountNew is for machines that have none.                          *)
DataKept ==
    [][Durable => \A m \in Machine : Sealed(m) => disk'[m].data = disk[m].data]_allVars

(* A machine whose commit took effect leaves the commit loop.  CommitNode  *)
(* says of a lost response: "just abort, the node should retry from        *)
(* scratch".                                                               *)
CommitEnds ==
    \A m \in Machine :
        (pc[m] = "commit" /\ nodes[id[m]].state = "UP") ~> pc[m] # "commit"

=============================================================================
