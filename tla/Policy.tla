------------------------------- MODULE Policy -------------------------------
(***************************************************************************)
(* The cluster configuration (metropolis/node/core/curator/state_cluster): *)
(* its TPM mode and storage security policy, what they make of a node that *)
(* bootstraps or registers, and what the node makes of the answer on its   *)
(* disk and in its sealed configuration, until it joins again after a      *)
(* reboot, perhaps with a TPM that has come or gone.                       *)
(***************************************************************************)
EXTENDS Naturals

CONSTANTS
  MaxPolFaults    \* bound on repeated calls and changes of the TPM

VARIABLES
  config,         \* /cluster/configuration, NoConfig before the bootstrap
  haveTPM,        \* the TPM of the node works
  manager,        \* where the node's cluster manager is
  response,       \* what RegisterNode answered: [usage, storage]
  record,         \* the curator's node: [state, usage, cuk]
  partition,      \* the data partition: [mode, key]
  sealed,         \* the sealed configuration: [by, storage, nuk, ca], NoSeal without
  polFaults

polVars == <<config, haveTPM, manager, response, record, partition, sealed, polFaults>>

TpmModes == {"REQUIRED", "BEST_EFFORT", "DISABLED"}
Policies == {"PERMISSIVE", "NEEDS_ENCRYPTION_AND_AUTHENTICATION", "NEEDS_ENCRYPTION",
             "NEEDS_INSECURE"}
Configs == [tpm : TpmModes, storage : Policies]
\* The messages an operator may write: INVALID is the unset value of an enum.
Written == [tpm : TpmModes \cup {"INVALID"}, storage : Policies \cup {"INVALID"}]
NoConfig == [tpm |-> "none", storage |-> "none"]
NoResponse == [usage |-> "INVALID", storage |-> "INVALID"]
NoRecord == [state |-> "none", usage |-> "INVALID", cuk |-> "none"]
NoPartition == [mode |-> "none", key |-> "none"]
NoSeal == [by |-> "none", storage |-> "INVALID", nuk |-> "none", ca |-> "none"]

DefaultClusterConfiguration ==
  [tpm |-> "REQUIRED", storage |-> "NEEDS_ENCRYPTION_AND_AUTHENTICATION"]

\* clusterFromProto and proto refuse the same values.
ClusterFromProto(c) == c.tpm \in TpmModes /\ c.storage \in Policies

\* NodeTPMUsage, "error" where NodeShouldUseTPM refuses the node.
NodeTPMUsageFault(c, have) ==
  CASE have = "yes" /\ c.tpm = "DISABLED" -> "PRESENT_BUT_UNUSED"
    [] have = "yes" /\ c.tpm # "DISABLED" -> "PRESENT_AND_USED"
    [] OTHER -> "NOT_PRESENT"
NodeTPMUsage(c, have) ==
  CASE c.tpm = "REQUIRED" /\ have = "no" -> "error"
    [] have = "yes" /\ c.tpm = "DISABLED" -> "PRESENT_BUT_UNUSED"
    [] have = "yes" /\ c.tpm # "DISABLED" -> "PRESENT_AND_USED"
    [] OTHER -> "NOT_PRESENT"

NodeStorageSecurityFault(c) ==
  CASE c.storage = "NEEDS_INSECURE" -> "INSECURE"
    [] OTHER -> "ENCRYPTED"
NodeStorageSecurity(c) ==
  CASE c.storage = "NEEDS_INSECURE" -> "INSECURE"
    [] c.storage = "NEEDS_ENCRYPTION" -> "ENCRYPTED"
    [] OTHER -> "AUTHENTICATED_ENCRYPTED"

ValidateNodeStorage(c, s) ==
  CASE c.storage = "PERMISSIVE" -> TRUE
    [] c.storage = "NEEDS_INSECURE" -> s = "INSECURE"
    [] c.storage = "NEEDS_ENCRYPTION" -> s \in {"ENCRYPTED", "AUTHENTICATED_ENCRYPTED"}
    [] OTHER -> s = "AUTHENTICATED_ENCRYPTED"

PolInit ==
  /\ config = NoConfig /\ haveTPM \in {"yes", "no"}
  /\ manager = "boot" /\ response = NoResponse /\ record = NoRecord
  /\ partition = NoPartition /\ sealed = NoSeal
  /\ polFaults = 0

PolFault == polFaults < MaxPolFaults /\ polFaults' = polFaults + 1

\* MountNew formats the partition; there is no key in the insecure mode.
KeyFor(s) == IF s = "INSECURE" THEN "none" ELSE "key"
Formatted(s) == [mode |-> s, key |-> KeyFor(s)]

\* SealSecureBoot: with the TPM, or as it is.
SealedBy(usage) == IF usage = "PRESENT_AND_USED" THEN "tpm" ELSE "nothing"

-----------------------------------------------------------------------------
\* The cluster is bootstrapped elsewhere, by a node that its configuration
\* allows, with the default or with what the operator wrote.
ClusterBootstrapped ==
  /\ config = NoConfig /\ sealed = NoSeal /\ manager = "boot"
  /\ config' \in {DefaultClusterConfiguration} \cup {c \in Written : ClusterFromProto(c)}
  /\ UNCHANGED <<haveTPM, manager, response, record, partition, sealed, polFaults>>

\* Manager.bootstrap of this node up to the data handed to the role server, and
\* the control plane's bootstrap, which adds the cluster CA.
PolicyBootstrap(c) ==
  /\ manager = "boot" /\ sealed = NoSeal /\ config = NoConfig
  /\ IF ClusterFromProto(c) /\ NodeTPMUsage(c, haveTPM) # "error"
       THEN LET usage == NodeTPMUsage(c, haveTPM)
                storage == NodeStorageSecurity(c) IN
            /\ config' = c
            /\ partition' = Formatted(storage)
            /\ sealed' = [by |-> SealedBy(usage), storage |-> storage, nuk |-> KeyFor(storage),
                          ca |-> "yes"]
            /\ record' = [state |-> "UP", usage |-> usage, cuk |-> KeyFor(storage)]
            /\ manager' = "up"
       ELSE manager' = "failed" /\ UNCHANGED <<config, partition, sealed, record>>
  /\ UNCHANGED <<haveTPM, response, polFaults>>

\* RegisterNode: a node that is NEW already gets an empty response.
PolicyRegister ==
  /\ manager = "boot" /\ sealed = NoSeal /\ config # NoConfig
  /\ LET usage == NodeTPMUsage(config, haveTPM) IN
     IF usage = "error" THEN manager' = "failed" /\ UNCHANGED <<record, response>>
     ELSE /\ record' = [state |-> "NEW", usage |-> usage, cuk |-> "none"]
          /\ response' = [usage |-> usage, storage |-> NodeStorageSecurity(config)]
          /\ manager' = "mount"
  /\ UNCHANGED <<config, haveTPM, partition, sealed, polFaults>>

\* The call was retried below the manager, and the first answer lost.
PolicyRegisterRepeated ==
  /\ manager = "mount" /\ record.state = "NEW" /\ response # NoResponse /\ PolFault
  /\ response' = NoResponse
  /\ UNCHANGED <<config, haveTPM, manager, record, partition, sealed>>

PolicyMountNew ==
  /\ manager = "mount"
  /\ IF response.storage = "INVALID" THEN manager' = "failed" /\ UNCHANGED partition
     ELSE manager' = "commit" /\ partition' = Formatted(response.storage)
  /\ UNCHANGED <<config, haveTPM, response, record, sealed, polFaults>>

PolicyApprove ==
  /\ record.state = "NEW"
  /\ record' = [record EXCEPT !.state = "STANDBY"]
  /\ UNCHANGED <<config, haveTPM, manager, response, partition, sealed, polFaults>>

\* CommitNode of a node that has been approved: the policy is checked first,
\* then the key, which only an insecure partition may lack.
PolicyCommit ==
  /\ manager = "commit" /\ record.state = "STANDBY"
  /\ IF ValidateNodeStorage(config, response.storage)
       THEN /\ record' = [record EXCEPT !.state = "UP", !.cuk = partition.key]
            /\ manager' = "seal"
       ELSE manager' = "refused" /\ UNCHANGED record
  /\ UNCHANGED <<config, haveTPM, response, partition, sealed, polFaults>>

PolicySeal ==
  /\ manager = "seal"
  /\ IF response.usage = "INVALID" THEN manager' = "failed" /\ UNCHANGED sealed
     ELSE /\ sealed' = [by |-> SealedBy(response.usage), storage |-> response.storage,
                        nuk |-> partition.key, ca |-> "yes"]
          /\ manager' = "up"
  /\ UNCHANGED <<config, haveTPM, response, record, partition, polFaults>>

-----------------------------------------------------------------------------
\* The node boots again; a failed attempt starts over as a new node.
PolicyReboot ==
  /\ manager \in {"up", "failed", "refused"} /\ PolFault
  /\ manager' = "boot" /\ response' = NoResponse
  /\ record' = IF sealed = NoSeal THEN NoRecord ELSE record
  /\ haveTPM' \in {"yes", "no"}
  /\ UNCHANGED <<config, partition, sealed>>

\* Manager.Run tries the configuration as sealed by the TPM, then as it is.
\* Plain data never unseals; sealed data does parse, as a configuration whose
\* node unlock key and join key are meaningless and which has nothing else.
Misread == [NoSeal EXCEPT !.by = "nothing", !.nuk = "key"]
UnsealFault == IF sealed.by = "tpm" THEN [sealed EXCEPT !.by = "nothing"] ELSE sealed
Unseal == IF sealed.by = "tpm" /\ haveTPM = "no" THEN Misread ELSE sealed

\* JoinNode's checks of the way the configuration was read.
JoinAllowed(using) ==
  /\ config.tpm = "REQUIRED" => using = "tpm"
  /\ config.tpm = "DISABLED" => using # "tpm"
  /\ (record.usage = "PRESENT_AND_USED") <=> (using = "tpm")
  /\ record.state = "UP"

\* MountExisting maps the partition in the mode the configuration names, with
\* both halves of the key.
Mounts(sc, cuk) ==
  /\ partition.mode = sc.storage
  /\ partition.key = IF sc.nuk = "key" /\ cuk = "key" THEN "key" ELSE "none"

\* join needs the cluster CA; an insecure node does not ask the cluster for its
\* unlock key, and any other one keeps asking.
PolicyJoin ==
  /\ manager = "boot" /\ sealed # NoSeal
  /\ LET sc == Unseal IN
     manager' =
       CASE sc.ca = "none" -> "failed"
         [] sc.ca # "none" /\ sc.storage # "INSECURE" /\ ~JoinAllowed(sc.by) -> "refused"
         [] OTHER -> IF Mounts(sc, IF sc.storage = "INSECURE" THEN "none" ELSE record.cuk)
                       THEN "up" ELSE "failed"
  /\ UNCHANGED <<config, haveTPM, response, record, partition, sealed, polFaults>>

PolNext ==
  \/ ClusterBootstrapped
  \/ \E c \in {DefaultClusterConfiguration} \cup Written : PolicyBootstrap(c)
  \/ PolicyRegister \/ PolicyRegisterRepeated \/ PolicyMountNew \/ PolicyApprove \/ PolicyCommit
  \/ PolicySeal \/ PolicyReboot \/ PolicyJoin

-----------------------------------------------------------------------------
PolTypeOK ==
  /\ config \in Configs \cup {NoConfig}
  /\ manager \in {"boot", "mount", "commit", "seal", "up", "failed", "refused"}
  /\ record.state \in {"none", "NEW", "STANDBY", "UP"}

\* Whatever the operator wrote and whichever calls were repeated: a node that
\* does what the curator recommended is never refused, neither when it commits
\* nor when it joins; every node that is UP has the storage the policy demands
\* and uses its TPM exactly if the TPM mode says so; and a node that was up
\* comes up again after every reboot, with its partition unlocked, as long as
\* the TPM that sealed its configuration works.
PolicySound ==
  /\ config # NoConfig => ClusterFromProto(config)
  /\ manager # "refused"
  /\ record.state = "UP" =>
       /\ ValidateNodeStorage(config, partition.mode)
       /\ config.tpm = "REQUIRED" => record.usage = "PRESENT_AND_USED"
       /\ config.tpm = "DISABLED" => record.usage # "PRESENT_AND_USED"
  /\ sealed # NoSeal =>
       /\ partition.mode = sealed.storage /\ partition.key = record.cuk
       /\ manager = "failed" => sealed.by = "tpm" /\ haveTPM = "no"
=============================================================================
