------------------------------ MODULE Volumes ------------------------------
(***************************************************************************)
(* Local Kubernetes volumes of one node: the provisioner that turns claims *)
(* into directories or image files and PersistentVolumes, and deletes them *)
(* when released (kubernetes/provisioner.go), the project quotas of        *)
(* osbase/fsquota, and the CSI node plugin that mounts volumes for pods    *)
(* (kubernetes/csi.go with osbase/loop).  A claim and its volume share the *)
(* name pvc-<uid>.  The provisioner works on informer caches that lag      *)
(* behind the API server.                                                  *)
(***************************************************************************)
EXTENDS Integers, FiniteSets, FiniteSetsExt, Sequences

CONSTANTS
  Claim,          \* claims selected for this node
  VolumeModes,    \* the modes claims may have, each a function from claims to "fs" or "block"
  Transient,      \* claims that pods use and users delete
  MaxMounts,      \* bound on mounts stacked on a target path
  MaxVolFaults    \* bound on failing calls and restarts

VARIABLES
  mode,       \* the VolumeMode of each claim, which never changes
  pvc,        \* API: each claim is "none", "Pending", "Bound" or "deleted"
  pv,         \* API: its volume is "none", "Available", "Bound" or "Released"
  pvcCache, pvCache, \* the informers' copies
  volQueue,   \* items of the two work queues: <<"pvc" or "pv", claim>>
  worker,     \* what each queue's worker is at: <<>> or <<claim, step, project ID>>
  volume,     \* on disk: kind, the directory's project and the project of the files in it
  limited,    \* project IDs that have limits
  target,     \* the pod's target path: kind and the mounts on it
  loops,      \* claims whose image still backs a loop device
  volFaults

volVars == <<mode, pvc, pv, pvcCache, pvCache, volQueue, worker, volume, limited, target, loops, volFaults>>
apiVars == <<mode, pvc, pv, pvcCache, pvCache>>
workVars == <<volQueue, worker>>
diskVars == <<volume, limited>>
podVars == <<target, loops>>

NoVolume == [kind |-> "none", project |-> 0, files |-> 0]

VolInit ==
  /\ mode \in VolumeModes
  /\ pvc = [c \in Claim |-> "none"] /\ pv = [c \in Claim |-> "none"]
  /\ pvcCache = pvc /\ pvCache = pv
  /\ volQueue = {} /\ worker = [q \in {"pvc", "pv"} |-> <<>>]
  /\ volume = [c \in Claim |-> NoVolume] /\ limited = {}
  /\ target = [c \in Claim |-> [kind |-> "absent", mounts |-> 0]]
  /\ loops = {} /\ volFaults = 0

VolFault == volFaults < MaxVolFaults /\ volFaults' = volFaults + 1

-----------------------------------------------------------------------------
(* The API server, the controller manager and the informers.               *)
CreateClaim(c) ==
  /\ pvc[c] = "none"
  /\ pvc' = [pvc EXCEPT ![c] = "Pending"]
  /\ UNCHANGED <<mode, pv, pvcCache, pvCache, volQueue, worker, volFaults>> /\ UNCHANGED diskVars /\ UNCHANGED podVars

Bind(c) ==
  /\ pvc[c] = "Pending" /\ pv[c] = "Available"
  /\ pvc' = [pvc EXCEPT ![c] = "Bound"] /\ pv' = [pv EXCEPT ![c] = "Bound"]
  /\ UNCHANGED <<mode, pvcCache, pvCache, volQueue, worker, volFaults>> /\ UNCHANGED diskVars /\ UNCHANGED podVars

\* A claim in use by a pod is protected; the reclaim policy is Delete.
DeleteClaim(c) ==
  /\ c \in Transient /\ pvc[c] \in {"Pending", "Bound"} /\ target[c].mounts = 0
  /\ pvc' = [pvc EXCEPT ![c] = "deleted"]
  /\ UNCHANGED <<mode, pv, pvcCache, pvCache, volQueue, worker, volFaults>> /\ UNCHANGED diskVars /\ UNCHANGED podVars

Release(c) ==
  /\ pvc[c] = "deleted" /\ pv[c] \in {"Available", "Bound"}
  /\ pv' = [pv EXCEPT ![c] = "Released"]
  /\ UNCHANGED <<mode, pvc, pvcCache, pvCache, volQueue, worker, volFaults>> /\ UNCHANGED diskVars /\ UNCHANGED podVars

\* enqueueClaim and enqueuePV on an informer event; deletions only drop the object.
InformClaim(c) ==
  /\ pvcCache[c] # pvc[c]
  /\ pvcCache' = [pvcCache EXCEPT ![c] = pvc[c]]
  /\ volQueue' = IF pvc[c] = "deleted" THEN volQueue ELSE volQueue \cup {<<"pvc", c>>}
  /\ UNCHANGED <<mode, pvc, pv, pvCache, worker, volFaults>> /\ UNCHANGED diskVars /\ UNCHANGED podVars

InformPV(c) ==
  /\ pvCache[c] # pv[c]
  /\ pvCache' = [pvCache EXCEPT ![c] = pv[c]]
  /\ volQueue' = IF pv[c] = "none" THEN volQueue ELSE volQueue \cup {<<"pv", c>>}
  /\ UNCHANGED <<mode, pvc, pv, pvcCache, worker, volFaults>> /\ UNCHANGED diskVars /\ UNCHANGED podVars

-----------------------------------------------------------------------------
(* processQueueItems: one worker per queue takes an item; a failed one is  *)
(* queued again.                                                           *)

\* Fault: the phase of the volume is not looked at.
NeedsDeletionFault(c) == pvCache[c] # "none"

NeedsDeletion(c) == pvCache[c] = "Released"

Take(q, c) ==
  /\ worker[q] = <<>> /\ <<q, c>> \in volQueue
  /\ volQueue' = volQueue \ {<<q, c>>}
  /\ worker' = [worker EXCEPT ![q] =
       IF IF q = "pvc" THEN pvcCache[c] = "Pending" ELSE NeedsDeletion(c)
       THEN <<c, 1, 0>> ELSE <<>>]
  /\ UNCHANGED volFaults /\ UNCHANGED diskVars /\ UNCHANGED apiVars /\ UNCHANGED podVars

Holds(q, c, step) == worker[q] # <<>> /\ worker[q][1] = c /\ worker[q][2] = step
Project(q) == worker[q][3]
GoTo(q, c, step, vol) == worker' = [worker EXCEPT ![q] = <<c, step, vol>>] /\ UNCHANGED volQueue
Forget(q) == worker' = [worker EXCEPT ![q] = <<>>] /\ UNCHANGED volQueue
Requeue(q, c) == worker' = [worker EXCEPT ![q] = <<>>] /\ volQueue' = volQueue \cup {<<q, c>>}

\* The kernel lists a project that has limits or is in use; 0 always is.
Listed == {0} \cup limited \cup UNION {{volume[c].project, volume[c].files} : c \in Claim}

\* The ID SetQuota uses for a directory of the given project: a new one is
\* looked for from 0 upwards with GetNextQuota, until a gap or the end.
NextProject(project) ==
  LET above(vol) == {p \in Listed : p >= vol}
      last[vol \in 0 .. Cardinality(Listed) + 1] ==
        IF above(vol) = {} THEN vol
        ELSE IF Min(above(vol)) > vol + 1 THEN vol + 1
        ELSE last[vol + 1]
  IN IF project # 0 THEN project ELSE last[0]

\* provisionPVC makes the directory, refuses one with files in it, and SetQuota
\* looks for a project; or it makes the image file.
ProvisionVolume(c) ==
  /\ Holds("pvc", c, 1)
  /\ \/ /\ mode[c] = "fs" /\ volume[c].files = 0
        /\ volume' = [volume EXCEPT ![c].kind = "dir"]
        /\ GoTo("pvc", c, 2, NextProject(volume[c].project)) /\ UNCHANGED volFaults
     \/ /\ mode[c] = "fs" /\ volume[c].files # 0
        /\ Requeue("pvc", c) /\ UNCHANGED <<volume, volFaults>>
     \/ /\ mode[c] = "block"
        /\ volume' = [volume EXCEPT ![c].kind = "file"]
        /\ GoTo("pvc", c, 3, 0) /\ UNCHANGED volFaults
     \/ /\ VolFault
        /\ volume' = [volume EXCEPT ![c].kind = IF mode[c] = "fs" THEN "dir" ELSE "file"]
        /\ Requeue("pvc", c)
  /\ UNCHANGED limited /\ UNCHANGED apiVars /\ UNCHANGED podVars

\* The rest of SetQuota: the directory gets the project, then the project its limits.
SetQuota(c) ==
  /\ Holds("pvc", c, 2)
  /\ \/ /\ volume' = [volume EXCEPT ![c].project = Project("pvc")]
        /\ limited' = limited \cup {Project("pvc")}
        /\ GoTo("pvc", c, 3, 0) /\ UNCHANGED volFaults
     \/ /\ VolFault /\ Requeue("pvc", c) /\ UNCHANGED limited
        /\ \/ volume' = [volume EXCEPT ![c].project = Project("pvc")]
           \/ UNCHANGED volume
  /\ UNCHANGED apiVars /\ UNCHANGED podVars

\* PersistentVolumes().Create, where AlreadyExists is fine.
CreatePV(c) ==
  /\ Holds("pvc", c, 3)
  /\ \/ /\ pv' = [pv EXCEPT ![c] = IF pv[c] = "none" THEN "Available" ELSE pv[c]]
        /\ Forget("pvc") /\ UNCHANGED volFaults
     \/ VolFault /\ Requeue("pvc", c) /\ UNCHANGED pv
  /\ UNCHANGED <<mode, pvc, pvcCache, pvCache>> /\ UNCHANGED diskVars /\ UNCHANGED podVars

\* processPV: SetQuota(path, 0, 0) opens the directory and looks for its project.
FindQuota(c) ==
  /\ Holds("pv", c, 1)
  /\ IF mode[c] = "block" THEN GoTo("pv", c, 3, 0)
     ELSE IF volume[c].kind = "none" THEN Requeue("pv", c)
     ELSE GoTo("pv", c, 2, NextProject(volume[c].project))
  /\ UNCHANGED volFaults /\ UNCHANGED diskVars /\ UNCHANGED apiVars /\ UNCHANGED podVars

\* The directory leaves its project, then the project loses its limits.
RemoveQuota(c) ==
  /\ Holds("pv", c, 2)
  /\ \/ /\ volume' = [volume EXCEPT ![c].project = 0]
        /\ limited' = limited \ {Project("pv")}
        /\ GoTo("pv", c, 3, 0) /\ UNCHANGED volFaults
     \/ /\ VolFault /\ Requeue("pv", c) /\ UNCHANGED limited
        /\ \/ volume' = [volume EXCEPT ![c].project = 0]
           \/ UNCHANGED volume
  /\ UNCHANGED apiVars /\ UNCHANGED podVars

\* os.RemoveAll or os.Remove; a missing volume is fine.
RemoveVolume(c) ==
  /\ Holds("pv", c, 3)
  /\ \/ volume' = [volume EXCEPT ![c] = NoVolume] /\ GoTo("pv", c, 4, 0) /\ UNCHANGED volFaults
     \/ VolFault /\ Requeue("pv", c) /\ UNCHANGED volume
  /\ UNCHANGED limited /\ UNCHANGED apiVars /\ UNCHANGED podVars

\* PersistentVolumes().Delete, where NotFound is fine.
DeletePV(c) ==
  /\ Holds("pv", c, 4)
  /\ \/ pv' = [pv EXCEPT ![c] = "none"] /\ Forget("pv") /\ UNCHANGED volFaults
     \/ VolFault /\ Requeue("pv", c) /\ UNCHANGED pv
  /\ UNCHANGED <<mode, pvc, pvcCache, pvCache>> /\ UNCHANGED diskVars /\ UNCHANGED podVars

\* The process restarts: the informers list everything again.
ProvisionerRestart ==
  /\ VolFault
  /\ worker' = [q \in {"pvc", "pv"} |-> <<>>]
  /\ pvcCache' = pvc /\ pvCache' = pv
  /\ volQueue' = {<<"pvc", c>> : c \in {d \in Claim : pvc[d] \in {"Pending", "Bound"}}}
                 \cup {<<"pv", c>> : c \in {d \in Claim : pv[d] # "none"}}
  /\ UNCHANGED <<mode, pvc, pv>> /\ UNCHANGED diskVars /\ UNCHANGED podVars

-----------------------------------------------------------------------------
(* The CSI node plugin, called for a bound claim.  The target path of a    *)
(* block volume has just been made a directory, so that mknod fails and    *)
(* the loop device is removed again, without a look at the outcome.        *)
NodePublishVolume(c) ==
  /\ c \in Transient /\ pvc[c] = "Bound" /\ target[c].mounts < MaxMounts
  /\ \/ /\ mode[c] = "fs" /\ volume[c].kind = "dir"
        /\ target' = [target EXCEPT ![c] = [kind |-> "dir", mounts |-> @.mounts + 1]]
        /\ UNCHANGED <<loops, volFaults>>
     \/ /\ mode[c] = "block"
        /\ target' = [target EXCEPT ![c].kind = "dir"] /\ UNCHANGED <<loops, volFaults>>
     \/ /\ VolFault /\ target' = [target EXCEPT ![c].kind = "dir"]
        /\ loops' = IF mode[c] = "block" THEN loops \cup {c} ELSE loops
  /\ UNCHANGED workVars /\ UNCHANGED diskVars /\ UNCHANGED apiVars

NodeUnpublishVolume(c) ==
  /\ target[c].mounts > 0
  /\ target' = [target EXCEPT ![c].mounts = @ - 1]
  /\ UNCHANGED <<loops, volFaults>> /\ UNCHANGED workVars /\ UNCHANGED diskVars /\ UNCHANGED apiVars

\* A file made in the volume inherits the project of the directory.
PodWrites(c) ==
  /\ target[c].mounts > 0 /\ volume[c].kind = "dir" /\ volume[c].files = 0
  /\ volume' = [volume EXCEPT ![c].files = volume[c].project]
  /\ UNCHANGED <<limited, volFaults>> /\ UNCHANGED workVars /\ UNCHANGED apiVars /\ UNCHANGED podVars

VolWork ==
  \/ \E c \in Claim : ProvisionVolume(c) \/ SetQuota(c) \/ CreatePV(c) \/ FindQuota(c) \/ RemoveQuota(c)
                       \/ RemoveVolume(c) \/ DeletePV(c)
  \/ \E q \in {"pvc", "pv"}, c \in Claim : Take(q, c)

VolInform == \E c \in Claim : InformClaim(c) \/ InformPV(c)

VolNext ==
  \/ VolWork \/ VolInform \/ ProvisionerRestart
  \/ \E c \in Claim : CreateClaim(c) \/ Bind(c) \/ DeleteClaim(c) \/ Release(c)
                      \/ NodePublishVolume(c) \/ NodeUnpublishVolume(c) \/ PodWrites(c)

VolSpec == VolInit /\ [][VolNext]_volVars

(* The informers and both workers keep running.                            *)
VolFairSpec == VolSpec /\ WF_volVars(VolInform) /\ WF_volVars(VolWork)

-----------------------------------------------------------------------------
VolTypeOK ==
  /\ pvc \in [Claim -> {"none", "Pending", "Bound", "deleted"}]
  /\ pv \in [Claim -> {"none", "Available", "Bound", "Released"}]
  /\ volQueue \subseteq {"pvc", "pv"} \X Claim
  /\ \A c \in Claim : volume[c].kind \in {"none", "dir", "file"} /\ target[c].mounts \in 0 .. MaxMounts
  /\ volFaults \in 0 .. MaxVolFaults

(* A bound claim has its volume whatever failed or lagged behind while it  *)
(* was made, a directory in a project no other directory or file is in,    *)
(* and under limits as long as nothing failed; a mounted volume is there.  *)
VolumesSound ==
  /\ \A c \in Claim : pvc[c] = "Bound" =>
       IF mode[c] = "block" THEN volume[c].kind = "file"
       ELSE /\ volume[c].kind = "dir" /\ volume[c].project # 0
            /\ volFaults = 0 => volume[c].project \in limited
  /\ \A c \in Claim : target[c].mounts > 0 => volume[c].kind = "dir"
  /\ \A c, d \in Claim : c # d /\ volume[c].project # 0 =>
       volume[c].project \notin {volume[d].project, volume[d].files}

(* "When the PV is released and its retention policy is Delete, the        *)
(* directory and the PV resource are deleted" (provisioner.go).  When      *)
(* deleting the resource fails once, removing the quota of the directory   *)
(* that is gone fails in every retry.                                      *)
ReleasedDeleted == \A c \in Claim : (pv[c] = "Released") ~> (pv[c] = "none")
=============================================================================
