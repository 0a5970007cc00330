--------------------------- MODULE MCClusterSafety ---------------------------
(***************************************************************************)
(* The safety instances of MCCluster and, one of them at a time, the       *)
(* services of the cluster and around it: each behaviour belongs to one    *)
(* part, and the others keep their initial state.                          *)
(***************************************************************************)
EXTENDS MCCluster, Pki, K8sPki, Policy, Ownership, Consensus, RoleServe, K8sReconciler,
        Volumes, Provisioner

clusterVars == <<mcVars, pkiVars, kpkiVars, polVars, ownVars, conVars, roleVars, recVars, objVars,
                 volVars, provVars>>

ClusterParts == {"calls", "networking", "register", "bootstrap"}

\* Methods that need no authentication, any, a permission of nodes, and one
\* of the manager.
Methods == {RpcMethod("no", "no", {}), RpcMethod("yes", "yes", {}),
            RpcMethod("yes", "no", {"UPDATE_NODE_SELF"}), RpcMethod("yes", "yes", {"APPROVE_NODE"})}

\* The resources of release 3 need API servers of release 2 at least, and API
\* servers of releases 2 and 3 need resources of release 2 at least.
MinApiservers == <<1, 1, 2>>
MinReconcilers == <<1, 2, 2>>

ExpectedObjects == [n \in {"x"} |-> <<1, 1>>]
SomeData == {<<1, 1>>, <<1, 2>>, <<2, 1>>}

Modes == {[c \in Claim |-> "fs"], [c \in Claim |-> IF c \in Transient THEN "block" ELSE "fs"]}

\* The claims that users keep are provisioned beside the others, not bound.
VolumesNext == VolNext /\ \A c \in Claim \ Transient : pvc'[c] # "Bound"

-----------------------------------------------------------------------------
\* Where a component may start in several states, it has one of them in the
\* parts of the others.
Fixed(p, v, S) == IF part = p THEN TRUE ELSE v = CHOOSE x \in S : TRUE

ClusterInit ==
  /\ part \in Parts
  /\ IF part \in ClusterParts THEN MCInit
     ELSE CuratorInit
  /\ PkiInit /\ KpkiInit
  /\ Fixed("policy", haveTPM, {"yes"}) /\ PolInit
  /\ OwnInit
  /\ Fixed("consensus", joinCluster, {"no"}) /\ ConInit
  /\ Fixed("roles", bootstrapData, {"unset"}) /\ RoleInit
  /\ Fixed("reconciler", release, {[n \in KNode |-> 1]}) /\ RecInit
  /\ Fixed("objects", objs, {[n \in ObjName |-> NoObject]}) /\ ObjInit
  /\ Fixed("volumes", mode, VolumeModes) /\ VolInit
  /\ ProvisionerInit

\* What a part leaves alone comes first: it is the same for all its steps.
Untouched(p, vars) == IF part \in p THEN TRUE ELSE UNCHANGED vars

ClusterNext ==
  /\ Untouched(ClusterParts, mcVars)
  /\ Untouched({"pki"}, pkiVars)
  /\ Untouched({"k8spki"}, kpkiVars)
  /\ Untouched({"policy"}, polVars)
  /\ Untouched({"ownership"}, ownVars)
  /\ Untouched({"consensus"}, conVars)
  /\ Untouched({"roles"}, roleVars)
  /\ Untouched({"reconciler"}, recVars)
  /\ Untouched({"objects"}, objVars)
  /\ Untouched({"volumes"}, volVars)
  /\ Untouched({"provisioner"}, provVars)
  /\ CASE part \in ClusterParts -> MCNext
       [] part = "pki" -> PkiNext
       [] part = "k8spki" -> KpkiNext
       [] part = "policy" -> PolNext
       [] part = "ownership" -> OwnNext
       [] part = "consensus" -> ConNext
       [] part = "roles" -> RoleNext
       [] part = "reconciler" -> RecNext
       [] part = "objects" -> ObjNext
       [] part = "volumes" -> VolumesNext
       [] part = "provisioner" -> ProvisionerNext

ClusterSpec == ClusterInit /\ [][ClusterNext]_clusterVars

-----------------------------------------------------------------------------
\* A machine that is or becomes a node can always go on: what it sealed is
\* complete, unlocks its data and matches what the cluster knows of it.
EnrolmentSound == EnrolmentTypeOK /\ SealedComplete /\ DataUnlockable /\ CredentialsMatch

\* However the processes that share a PKI in etcd interleave, fail and are
\* restarted: there is one CA, what Ensure returned stays what it was, and a
\* Kubernetes worker gets a certificate for the key it holds.
CertificatesSound ==
  CASE part = "pki" -> PkiTypeOK /\ PkiSound
    [] part = "k8spki" -> KpkiTypeOK /\ KpkiSound
    [] OTHER -> TRUE

\* What the policies of the cluster, the certificates and the permissions let
\* through: the node's TPM and storage follow the configuration, and only the
\* owner of a cluster manages it, with what metroctl keeps on disk.
AccessSound ==
  CASE part = "policy" -> PolTypeOK /\ PolicySound
    [] part = "ownership" -> OwnTypeOK /\ OwnershipSound
    [] OTHER -> TRUE

\* A node runs the roles it was given, once, on whatever it finds on disk.
RolesSound ==
  CASE part = "roles" -> RoleTypeOK /\ RolesServed
    [] part = "consensus" -> ConTypeOK /\ ConsensusSound
    [] OTHER -> TRUE

\* The objects of a release are reconciled, and volumes are provisioned,
\* published and deleted, whatever is done to them in between.  (The releases
\* that reconcile are ReconcilerSound's.)
WorkloadsSound ==
  CASE part = "reconciler" -> RecTypeOK
    [] part = "objects" -> ObjTypeOK /\ ObjectsSound
    [] part = "volumes" -> VolTypeOK /\ VolumesSound
    [] OTHER -> TRUE

\* The provisioner never makes more machines than it may and never two for
\* one reservation.
ProvisioningSound == part = "provisioner" => ProvisionerTypeOK /\ ProvisionerSound
=============================================================================
