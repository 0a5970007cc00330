----------------------------- MODULE RoleServe -----------------------------
(***************************************************************************)
(* The role server of metropolis/node/core/roleserve: workers that share   *)
(* Event Values and start and stop the services of a node as the roles     *)
(* assigned to it change.                                                  *)
(*                                                                         *)
(* A pipe delivers the latest value to its worker some time after it was   *)
(* set; values in between may be skipped.  What a worker knows of a value  *)
(* is Unset until the first delivery.                                      *)
(***************************************************************************)
EXTENDS Naturals, FiniteSets

CONSTANTS
    Addresses,    \* addresses the node may have
    MaxChanges,   \* bound on the changes of roles and address
    MaxRoleFaults \* bound on failing calls, failing launchers and reboots

VARIABLES
    clusterRoles,   \* the roles that the curator has for the node
    persistedRoles, \* the roles on disk
    localRoles, connection, bootstrapData, localControlPlane, nodeAddress, \* the Event Values
    fetched,        \* the role fetcher: "wait", "watch"
    cpKnows,        \* what reduce-config of the control plane has received
    cpStartup,      \* its startupV
    cpLauncher,     \* the launcher: [at, startup]
    kubeKnows, kubeStartup, \* likewise of the Kubernetes worker
    kube,           \* what its two launchers run: "none" or a control plane; "yes" or "no"
    pushKnows,      \* the status pusher: what it was told and submitted from
    reported,     \* the status that the curator has
    generation,     \* control planes started so far
    changes, roleFaults

roleVars == <<clusterRoles, persistedRoles, localRoles, connection, bootstrapData,
              localControlPlane, nodeAddress, fetched, cpKnows, cpStartup, cpLauncher, kubeKnows,
              kubeStartup, kube, pushKnows, reported, generation, changes, roleFaults>>

Unset == "unset"

NodeRole == {"consensus", "controller", "worker"}

(* A controller is a consensus member: see CuratorNodes. *)
Roles == {{}, {"consensus"}, {"worker"}, {"consensus", "controller"}}

(* A value of roles is a set in a tuple, so that it compares with Unset. *)
None == <<"none">>

HasRole(roles, r) == roles # None /\ r \in roles[2]

Known(roles) == <<"roles", roles>>

NothingKnown == [roles |-> None, connection |-> Unset, bootstrap |-> Unset]

KubeNothing == [roles |-> None, connection |-> Unset, lcp |-> 0]

PushNothing == [address |-> Unset, connection |-> Unset, lcp |-> 0]

(* The memory of a node that was started; it was bootstrapped in its first *)
(* boot, or registered or joined.                                          *)
NodeStarted(bootstrap) ==
    /\ localRoles = None
    /\ connection = Unset
    /\ bootstrapData = bootstrap
    /\ localControlPlane = 0
    /\ fetched = "wait"
    /\ cpKnows = NothingKnown
    /\ cpStartup = "unset"
    /\ cpLauncher = [at |-> "wait", startup |-> "unset"]
    /\ kubeKnows = KubeNothing
    /\ kubeStartup = KubeNothing
    /\ kube = [controller |-> 0, worker |-> "no"]
    /\ pushKnows = PushNothing

RoleInit ==
    /\ \E b \in {"unset", "set"} :
         /\ NodeStarted(b)
         /\ clusterRoles = IF b = "set" THEN {"consensus", "controller"} ELSE {}
    /\ persistedRoles = None
    /\ nodeAddress = Unset
    /\ reported = [address |-> Unset, curator |-> "no"]
    /\ generation = 0
    /\ changes = 0
    /\ roleFaults = 0

-----------------------------------------------------------------------------
(* The environment *)

(* Roles of a node that still bootstraps are not changed. *)
ChangeRoles(r) ==
    /\ changes < MaxChanges
    /\ changes' = changes + 1
    /\ bootstrapData = "unset"
    /\ clusterRoles' = r
    /\ UNCHANGED <<persistedRoles, localRoles, connection, bootstrapData, localControlPlane,
                   nodeAddress, fetched, cpKnows, cpStartup, cpLauncher, kubeKnows, kubeStartup,
                   kube, pushKnows, reported, generation, roleFaults>>

ChangeAddress(a) ==
    /\ changes < MaxChanges
    /\ changes' = changes + 1
    /\ nodeAddress' = a
    /\ UNCHANGED <<clusterRoles, persistedRoles, localRoles, connection, bootstrapData,
                   localControlPlane, fetched, cpKnows, cpStartup, cpLauncher, kubeKnows,
                   kubeStartup, kube, pushKnows, reported, generation, roleFaults>>

(* ProvideRegisterData, ProvideJoinData *)
ProvideCredentials ==
    /\ bootstrapData = "unset"
    /\ connection = Unset
    /\ connection' = "set"
    /\ UNCHANGED <<clusterRoles, persistedRoles, localRoles, bootstrapData, localControlPlane,
                   nodeAddress, fetched, cpKnows, cpStartup, cpLauncher, kubeKnows, kubeStartup,
                   kube, pushKnows, reported, generation, changes, roleFaults>>

(* The machine restarts, with nothing but its disk; it joins. *)
RoleReboot ==
    /\ roleFaults < MaxRoleFaults
    /\ roleFaults' = roleFaults + 1
    /\ connection = "set"
    /\ localRoles' = None
    /\ connection' = Unset
    /\ bootstrapData' = "unset"
    /\ localControlPlane' = 0
    /\ fetched' = "wait"
    /\ cpKnows' = NothingKnown
    /\ cpStartup' = "unset"
    /\ cpLauncher' = [at |-> "wait", startup |-> "unset"]
    /\ kubeKnows' = KubeNothing
    /\ kubeStartup' = KubeNothing
    /\ kube' = [controller |-> 0, worker |-> "no"]
    /\ pushKnows' = PushNothing
    /\ UNCHANGED <<clusterRoles, persistedRoles, nodeAddress, reported, generation, changes>>

-----------------------------------------------------------------------------
(* workerRoleFetch *)

(* The roles on disk come first, before any curator can be reached. *)
FetchPersisted ==
    /\ fetched = "wait"
    /\ connection = "set"
    /\ fetched' = "watch"
    /\ localRoles' = IF persistedRoles # None THEN persistedRoles ELSE localRoles
    /\ UNCHANGED <<clusterRoles, persistedRoles, connection, bootstrapData, localControlPlane,
                   nodeAddress, cpKnows, cpStartup, cpLauncher, kubeKnows, kubeStartup, kube,
                   pushKnows, reported, generation, changes, roleFaults>>

(* An update of the watched node is set, and then persisted, which may     *)
(* fail.                                                                   *)
FetchRoles ==
    /\ fetched = "watch"
    /\ localRoles # Known(clusterRoles) \/ persistedRoles # Known(clusterRoles)
    /\ localRoles' = Known(clusterRoles)
    /\ \/ persistedRoles' = Known(clusterRoles) /\ UNCHANGED roleFaults
       \/ /\ roleFaults < MaxRoleFaults
          /\ roleFaults' = roleFaults + 1
          /\ UNCHANGED persistedRoles
    /\ UNCHANGED <<clusterRoles, connection, bootstrapData, localControlPlane, nodeAddress,
                   fetched, cpKnows, cpStartup, cpLauncher, kubeKnows, kubeStartup, kube,
                   pushKnows, reported, generation, changes>>

-----------------------------------------------------------------------------
(* workerControlPlane *)

(* reduce-config: bootstrap data prevails, roles need credentials. *)
Reduced(k) ==
    IF k.bootstrap = "set" THEN "bootstrap"
    ELSE IF k.roles # None /\ k.connection = "set"
    THEN IF HasRole(k.roles, "consensus") THEN "member" ELSE "none"
    ELSE cpStartup

CpReceive ==
    /\ LET now == [roles |-> localRoles, connection |-> connection, bootstrap |-> bootstrapData]
       IN  \E f \in {"roles", "connection", "bootstrap"} :
             /\ cpKnows[f] # now[f]
             /\ cpKnows' = [cpKnows EXCEPT ![f] = now[f]]
    /\ cpStartup' = Reduced(cpKnows')
    /\ UNCHANGED <<clusterRoles, persistedRoles, localRoles, connection, bootstrapData,
                   localControlPlane, nodeAddress, fetched, cpLauncher, kubeKnows, kubeStartup,
                   kube, pushKnows, reported, generation, changes, roleFaults>>

(* The launcher takes the configuration.  Without one there is no control  *)
(* plane, and this is said to the other workers.                           *)
CpTakes ==
    /\ cpLauncher.at = "wait"
    /\ cpStartup # "unset"
    /\ cpLauncher' = [at |-> IF cpStartup = "none" THEN "idle" ELSE "start",
                      startup |-> cpStartup]
    /\ localControlPlane' = IF cpStartup = "none" THEN 0 ELSE localControlPlane
    /\ UNCHANGED <<clusterRoles, persistedRoles, localRoles, connection, bootstrapData,
                   nodeAddress, fetched, cpKnows, cpStartup, kubeKnows, kubeStartup, kube,
                   pushKnows, reported, generation, changes, roleFaults>>

(* Consensus and curator are started; a node that bootstraps gets its      *)
(* credentials now.                                                        *)
CpStarts ==
    /\ cpLauncher.at = "start"
    /\ cpLauncher' = [cpLauncher EXCEPT !.at = "run"]
    /\ generation' = generation + 1
    /\ localControlPlane' = generation + 1
    /\ connection' = IF cpLauncher.startup = "bootstrap" THEN "set" ELSE connection
    /\ UNCHANGED <<clusterRoles, persistedRoles, localRoles, bootstrapData, nodeAddress, fetched,
                   cpKnows, cpStartup, kubeKnows, kubeStartup, kube, pushKnows, reported,
                   changes, roleFaults>>

(* Consensus or a step of the bootstrap fails, and the supervisor runs the *)
(* launcher again.                                                         *)
CpFails ==
    /\ cpLauncher.at = "start"
    /\ roleFaults < MaxRoleFaults
    /\ roleFaults' = roleFaults + 1
    /\ cpLauncher' = [at |-> "wait", startup |-> "unset"]
    /\ UNCHANGED <<clusterRoles, persistedRoles, localRoles, connection, bootstrapData,
                   localControlPlane, nodeAddress, fetched, cpKnows, cpStartup, kubeKnows,
                   kubeStartup, kube, pushKnows, reported, generation, changes>>

roleChangedFault(a, b) == a # "none" /\ b = "none"

roleChanged(a, b) == (a # "none") # (b # "none")

CpRestarts ==
    /\ cpLauncher.at \in {"run", "idle"}
    /\ roleChanged(cpStartup, cpLauncher.startup)
    /\ cpLauncher' = [at |-> "wait", startup |-> "unset"]
    /\ UNCHANGED <<clusterRoles, persistedRoles, localRoles, connection, bootstrapData,
                   localControlPlane, nodeAddress, fetched, cpKnows, cpStartup, kubeKnows,
                   kubeStartup, kube, pushKnows, reported, generation, changes, roleFaults>>

-----------------------------------------------------------------------------
(* workerKubernetes *)

KubeReceive ==
    /\ LET now == [roles |-> localRoles, connection |-> connection, lcp |-> localControlPlane]
       IN  \E f \in {"roles", "connection", "lcp"} :
             /\ kubeKnows[f] # now[f]
             /\ kubeKnows' = [kubeKnows EXCEPT ![f] = now[f]]
    /\ kubeStartup' = IF kubeKnows'.roles # None /\ kubeKnows'.connection = "set" THEN kubeKnows'
                      ELSE kubeStartup
    /\ UNCHANGED <<clusterRoles, persistedRoles, localRoles, connection, bootstrapData,
                   localControlPlane, nodeAddress, fetched, cpKnows, cpStartup, cpLauncher, kube,
                   pushKnows, reported, generation, changes, roleFaults>>

(* The controller waits for its role and for a local control plane, and    *)
(* keeps the one that it was started with.                                 *)
KubeController ==
    /\ \/ /\ kube.controller = 0
          /\ HasRole(kubeStartup.roles, "controller")
          /\ kubeStartup.lcp # 0
          /\ kube' = [kube EXCEPT !.controller = kubeStartup.lcp]
       \/ /\ kube.controller # 0
          /\ ~HasRole(kubeStartup.roles, "controller")
          /\ kube' = [kube EXCEPT !.controller = 0]
    /\ UNCHANGED <<clusterRoles, persistedRoles, localRoles, connection, bootstrapData,
                   localControlPlane, nodeAddress, fetched, cpKnows, cpStartup, cpLauncher,
                   kubeKnows, kubeStartup, pushKnows, reported, generation, changes, roleFaults>>

KubeWorker ==
    /\ LET wanted == IF HasRole(kubeStartup.roles, "worker") THEN "yes" ELSE "no"
       IN  /\ kube.worker # wanted
           /\ kube' = [kube EXCEPT !.worker = wanted]
    /\ UNCHANGED <<clusterRoles, persistedRoles, localRoles, connection, bootstrapData,
                   localControlPlane, nodeAddress, fetched, cpKnows, cpStartup, cpLauncher,
                   kubeKnows, kubeStartup, pushKnows, reported, generation, changes, roleFaults>>

-----------------------------------------------------------------------------
(* workerStatusPush *)

Running(lcp) == IF lcp = 0 THEN "no" ELSE "yes"

(* Whether an update is worth submitting. *)
PushChanged(f, old, new) == f # "lcp" \/ Running(old) # Running(new)

(* The loop takes one value and, where it is complete, submits its status. *)
(* A call that fails ends the loop, and all values are delivered again.    *)
PushReceive ==
    /\ LET now == [address |-> nodeAddress, connection |-> connection, lcp |-> localControlPlane]
       IN  \E f \in {"address", "connection", "lcp"} :
             /\ pushKnows[f] # now[f]
             /\ LET k == [pushKnows EXCEPT ![f] = now[f]]
                IN  IF /\ PushChanged(f, pushKnows[f], now[f])
                       /\ k.connection = "set"
                       /\ k.address # Unset
                    THEN \/ /\ pushKnows' = k
                            /\ reported' = [address |-> k.address, curator |-> Running(k.lcp)]
                            /\ UNCHANGED roleFaults
                         \/ /\ roleFaults < MaxRoleFaults
                            /\ roleFaults' = roleFaults + 1
                            /\ pushKnows' = PushNothing
                            /\ UNCHANGED reported
                    ELSE pushKnows' = k /\ UNCHANGED <<reported, roleFaults>>
    /\ UNCHANGED <<clusterRoles, persistedRoles, localRoles, connection, bootstrapData,
                   localControlPlane, nodeAddress, fetched, cpKnows, cpStartup, cpLauncher,
                   kubeKnows, kubeStartup, kube, generation, changes>>

-----------------------------------------------------------------------------

RoleNext ==
    \/ \E r \in Roles : ChangeRoles(r)
    \/ \E a \in Addresses : ChangeAddress(a)
    \/ ProvideCredentials
    \/ RoleReboot
    \/ FetchPersisted
    \/ FetchRoles
    \/ CpReceive
    \/ CpTakes
    \/ CpStarts
    \/ CpFails
    \/ CpRestarts
    \/ KubeReceive
    \/ KubeController
    \/ KubeWorker
    \/ PushReceive

-----------------------------------------------------------------------------

(* Every variable has its type. *)
RoleTypeOK ==
    /\ clusterRoles \in Roles
    /\ connection \in {Unset, "set"}
    /\ bootstrapData \in {"unset", "set"}
    /\ localControlPlane \in 0 .. generation
    /\ fetched \in {"wait", "watch"}
    /\ cpStartup \in {"unset", "bootstrap", "member", "none"}
    /\ cpLauncher.at \in {"wait", "start", "run", "idle"}
    /\ kube.controller \in 0 .. generation
    /\ reported.address \in Addresses \cup {Unset}

(* Nothing is on its way: every worker has received every value and acted  *)
(* on it.                                                                  *)
Settled ==
    /\ fetched = "watch"
    /\ localRoles = Known(clusterRoles)
    /\ cpKnows = [roles |-> localRoles, connection |-> connection, bootstrap |-> bootstrapData]
    /\ kubeKnows = [roles |-> localRoles, connection |-> connection, lcp |-> localControlPlane]
    /\ pushKnows = [address |-> nodeAddress, connection |-> connection, lcp |-> localControlPlane]
    /\ ~ENABLED CpTakes /\ ~ENABLED CpStarts /\ ~ENABLED CpRestarts
    /\ ~ENABLED KubeController /\ ~ENABLED KubeWorker

(* However deliveries, failures and reboots interleave: once nothing is on *)
(* its way any more, the node runs what its roles say and the cluster      *)
(* knows the address of the node and whether it runs a curator.            *)
RolesServed ==
    Settled =>
        /\ (cpLauncher.at = "run") <=> "consensus" \in clusterRoles
        /\ (localControlPlane # 0) <=> "consensus" \in clusterRoles
        /\ (kube.controller # 0) <=> "controller" \in clusterRoles
        /\ (kube.worker = "yes") <=> "worker" \in clusterRoles
        /\ nodeAddress # Unset =>
             reported = [address |-> nodeAddress, curator |-> Running(localControlPlane)]

=============================================================================
