--------------------------- MODULE K8sReconciler ----------------------------
(***************************************************************************)
(* The reconciler of the Kubernetes controllers: who may reconcile and for *)
(* which releases, and what a pass does to the objects.                    *)
(***************************************************************************)
EXTENDS Integers, FiniteSets

(***************************************************************************)
(* The Kubernetes reconciler service (kubernetes/reconciler): controller   *)
(* nodes of different releases elect one of the latest release, which      *)
(* brings the built-in resources to its own state; the status in etcd says *)
(* which releases may serve.  A node serves once WaitReady has returned,   *)
(* until it reboots, perhaps into another release.                         *)
(***************************************************************************)

CONSTANTS
  KNode,         \* Kubernetes controller nodes
  Releases,      \* release numbers
  MinApiserver,  \* minApiserverRelease of each release
  MinReconciler, \* minReconcilerRelease of each release
  PublishFirst,  \* "yes": a node's status push precedes its Kubernetes controller
  MaxReboots,    \* bound on reboots
  MaxLeaseLosses \* bound on lost leases

ASSUME ReleasesAssumption ==
  /\ Releases \subseteq Nat \ {0}
  /\ MinApiserver \in [Releases -> Releases] /\ MinReconciler \in [Releases -> Releases]
  /\ \A r \in Releases : MinApiserver[r] <= r /\ MinReconciler[r] <= r

ASSUME BoundsAssumption == MaxReboots \in Nat /\ MaxLeaseLosses \in Nat

ASSUME NoNodeAssumption == "none" \notin KNode

VARIABLES
  release,     \* the release each node runs
  published,   \* Node.Status.Version of each node in etcd
  nodesRev,    \* the revision of the last change to the nodes
  seenNodes,   \* Service.releases of each node: [min, max, rev], rev = 0 for none
  recStatus,   \* the status key: [state, ver, min], NoRecStatus while it does not exist
  holder,      \* the owner of the election key, or "none"
  lead,        \* where elect and lead are in each node
  mine,        \* lead's variable status in each node
  serving,     \* whether WaitReady has returned, "yes" or "no"
  builtins,    \* releases whose resources a leaseholder has put into the API
  reboots, leaseLosses

recVars == <<release, published, nodesRev, seenNodes, recStatus, holder, lead, mine, serving, builtins,
             reboots, leaseLosses>>

\* proto.Equal(status, doneStatus)
DoneStatus(n) == [state |-> "done", ver |-> release[n], min |-> MinApiserver[release[n]]]

NoRecStatus == [state |-> "none", ver |-> 0, min |-> 0]

RecStatus == [state : {"working", "done"}, ver : Releases, min : Releases]

NoneSeen == [min |-> 0, max |-> 0, rev |-> 0]

RecInit ==
  /\ release \in [KNode -> Releases] /\ published = release
  /\ nodesRev = 1 /\ seenNodes = [n \in KNode |-> NoneSeen]
  /\ recStatus = NoRecStatus /\ holder = "none"
  /\ lead = [n \in KNode |-> "off"] /\ mine = [n \in KNode |-> NoRecStatus]
  /\ serving = [n \in KNode |-> "no"] /\ builtins = {}
  /\ reboots = 0 /\ leaseLosses = 0

\* Whether the Kubernetes controller of the node runs.
Active(n) == PublishFirst = "yes" => published[n] = release[n]

-----------------------------------------------------------------------------
(* watchNodes and watchReleases.  The local release always takes part.     *)
WatchNodes(n) ==
  LET all == {published[m] : m \in KNode} \cup {release[n]} IN
  /\ Active(n)
  /\ \E lo, hi \in all :
       /\ \A r \in all : lo <= r /\ r <= hi
       /\ seenNodes' = [seenNodes EXCEPT ![n] = [min |-> lo, max |-> hi, rev |-> nodesRev]]
  /\ UNCHANGED <<release, published, nodesRev, recStatus, holder, lead, mine, serving, builtins,
                 reboots, leaseLosses>>

Latest(n) == seenNodes[n].rev # 0 /\ release[n] >= seenNodes[n].max

\* The lease is revoked, or stays when revoking it fails.
Quit(n) == holder' \in {holder, IF holder = n THEN "none" ELSE holder}

WatchReleasesRestart(n) ==
  /\ lead[n] # "off" /\ ~Latest(n)
  /\ lead' = [lead EXCEPT ![n] = "off"]
  /\ Quit(n)
  /\ UNCHANGED <<release, published, nodesRev, seenNodes, recStatus, mine, serving, builtins, reboots, leaseLosses>>

\* elect: NewSession and Campaign; then lead reads the status.
Elected(n) ==
  /\ Active(n) /\ Latest(n) /\ lead[n] = "off" /\ holder = "none"
  /\ holder' = n
  /\ lead' = [lead EXCEPT ![n] = "read"]
  /\ UNCHANGED <<release, published, nodesRev, seenNodes, recStatus, mine, serving, builtins, reboots, leaseLosses>>

\* The election key expires; the node learns of it later, or restarts by itself.
LeaseLost(n) ==
  /\ holder = n /\ leaseLosses < MaxLeaseLosses
  /\ holder' = "none" /\ leaseLosses' = leaseLosses + 1
  /\ UNCHANGED <<release, published, nodesRev, seenNodes, recStatus, lead, mine, serving, builtins, reboots>>

SessionDone(n) ==
  /\ lead[n] # "off" /\ holder # n
  /\ lead' = [lead EXCEPT ![n] = "off"]
  /\ UNCHANGED <<release, published, nodesRev, seenNodes, recStatus, holder, mine, serving, builtins, reboots, leaseLosses>>

-----------------------------------------------------------------------------
(* lead: what the current status allows decides what has to happen before  *)
(* the resources are changed.                                              *)
Lower(a, b) == IF a <= b THEN a ELSE b
Higher(a, b) == IF a <= b THEN b ELSE a

Compatible(s, r) == r >= s.ver /\ s.min >= MinApiserver[r]

\* The releases allowed before and after: the intersection of both statuses.
Restricted(s, r) ==
  [state |-> "working", ver |-> Lower(s.ver, r), min |-> Higher(s.min, MinApiserver[r])]

ReadStatus(n) ==
  /\ lead[n] = "read"
  /\ mine' = [mine EXCEPT ![n] = recStatus]
  /\ lead' = [lead EXCEPT ![n] =
       IF recStatus = NoRecStatus \/ recStatus = DoneStatus(n) THEN "reconcile"
       ELSE IF Compatible(recStatus, release[n])
            THEN IF recStatus.state = "working" THEN "reconcile" ELSE "working"
       ELSE "restrict"]
  /\ UNCHANGED <<release, published, nodesRev, seenNodes, recStatus, holder, serving, builtins, reboots, leaseLosses>>

SetWorking(n) ==
  LET s == [mine[n] EXCEPT !.state = "working"] IN
  /\ lead[n] = "working"
  /\ IF holder = n
     THEN /\ recStatus' = s /\ mine' = [mine EXCEPT ![n] = s]
          /\ lead' = [lead EXCEPT ![n] = "reconcile"]
     ELSE lead' = [lead EXCEPT ![n] = "off"] /\ UNCHANGED <<recStatus, mine>>
  /\ UNCHANGED <<release, published, nodesRev, seenNodes, holder, serving, builtins, reboots, leaseLosses>>

\* Fault: the transaction does not compare the nodes' revision.
NodesUnchangedFault(n) == TRUE

NodesUnchanged(n) == nodesRev <= seenNodes[n].rev

\* The transaction is only tried, and only succeeds, when every controller known
\* is compatible and no node has changed since.
RestrictStatus(n) ==
  LET s == Restricted(mine[n], release[n]) IN
  /\ lead[n] = "restrict"
  /\ release[n] >= seenNodes[n].max /\ seenNodes[n].min >= MinApiserver[release[n]]
  /\ holder = n /\ NodesUnchanged(n)
  /\ recStatus' = s /\ mine' = [mine EXCEPT ![n] = s]
  /\ lead' = [lead EXCEPT ![n] = "reconcile"]
  /\ UNCHANGED <<release, published, nodesRev, seenNodes, holder, serving, builtins, reboots, leaseLosses>>

(* reconcileAll, retried until it succeeds, leaves a mixture until it is   *)
(* done.  Requests of a node whose lease is gone are not counted: the      *)
(* Kubernetes API cannot refuse them, and lead waits reconcileWait for     *)
(* them to end.                                                            *)
ReconcileSome(n) ==
  /\ lead[n] = "reconcile" /\ holder = n
  /\ builtins' = builtins \cup {release[n]}
  /\ UNCHANGED <<release, published, nodesRev, seenNodes, recStatus, holder, lead, mine, serving, reboots, leaseLosses>>

ReconcileDone(n) ==
  /\ lead[n] = "reconcile"
  /\ builtins' = IF holder = n THEN {release[n]} ELSE builtins
  /\ lead' = [lead EXCEPT ![n] = IF mine[n] = DoneStatus(n) THEN "steady" ELSE "finish"]
  /\ UNCHANGED <<release, published, nodesRev, seenNodes, recStatus, holder, mine, serving, reboots, leaseLosses>>

SetDone(n) ==
  /\ lead[n] = "finish"
  /\ IF holder = n
     THEN recStatus' = DoneStatus(n) /\ lead' = [lead EXCEPT ![n] = "steady"]
     ELSE lead' = [lead EXCEPT ![n] = "off"] /\ UNCHANGED recStatus
  /\ UNCHANGED <<release, published, nodesRev, seenNodes, holder, mine, serving, builtins, reboots, leaseLosses>>

\* The ticker of a leader that has finished.
ReconcileAgain(n) ==
  /\ lead[n] = "steady" /\ holder = n
  /\ builtins' = {release[n]}
  /\ UNCHANGED <<release, published, nodesRev, seenNodes, recStatus, holder, lead, mine, serving, reboots, leaseLosses>>

-----------------------------------------------------------------------------
WaitReady(n) ==
  /\ Active(n) /\ serving[n] = "no" /\ recStatus # NoRecStatus
  /\ release[n] >= recStatus.min
  /\ recStatus.ver >= MinReconciler[release[n]]
  /\ serving' = [serving EXCEPT ![n] = "yes"]
  /\ UNCHANGED <<release, published, nodesRev, seenNodes, recStatus, holder, lead, mine, builtins, reboots, leaseLosses>>

\* workerStatusPush reports the running version.
Publish(n) ==
  /\ published[n] # release[n]
  /\ published' = [published EXCEPT ![n] = release[n]]
  /\ nodesRev' = nodesRev + 1
  /\ UNCHANGED <<release, seenNodes, recStatus, holder, lead, mine, serving, builtins, reboots, leaseLosses>>

\* An update, a fallback to the other slot, or a plain reboot; the lease stays
\* until it expires.
RebootTo(n, r) ==
  /\ reboots < MaxReboots /\ reboots' = reboots + 1
  /\ release' = [release EXCEPT ![n] = r]
  /\ seenNodes' = [seenNodes EXCEPT ![n] = NoneSeen]
  /\ lead' = [lead EXCEPT ![n] = "off"] /\ mine' = [mine EXCEPT ![n] = NoRecStatus]
  /\ serving' = [serving EXCEPT ![n] = "no"]
  /\ UNCHANGED <<published, nodesRev, recStatus, holder, builtins, leaseLosses>>

\* A lease whose owner no longer uses it expires.
LeaseExpires ==
  /\ holder # "none" /\ lead[holder] = "off"
  /\ holder' = "none"
  /\ UNCHANGED <<release, published, nodesRev, seenNodes, recStatus, lead, mine, serving, builtins, reboots, leaseLosses>>

RecNext ==
  \/ \E n \in KNode : \/ WatchNodes(n) \/ WatchReleasesRestart(n) \/ Elected(n) \/ LeaseLost(n)
                      \/ SessionDone(n) \/ ReadStatus(n) \/ SetWorking(n) \/ RestrictStatus(n)
                      \/ ReconcileSome(n) \/ ReconcileDone(n) \/ SetDone(n) \/ ReconcileAgain(n)
                      \/ WaitReady(n) \/ Publish(n)
                      \/ \E r \in Releases : RebootTo(n, r)
  \/ LeaseExpires

RecSpec == RecInit /\ [][RecNext]_recVars

-----------------------------------------------------------------------------
RecTypeOK ==
  /\ release \in [KNode -> Releases] /\ published \in [KNode -> Releases]
  /\ nodesRev \in Nat /\ holder \in KNode \cup {"none"} /\ builtins \subseteq Releases
  /\ seenNodes \in [KNode -> [min : Nat, max : Nat, rev : Nat]]
  /\ lead \in [KNode -> {"off", "read", "working", "restrict", "reconcile", "finish", "steady"}]
  /\ serving \in [KNode -> {"yes", "no"}]
  /\ recStatus \in RecStatus \cup {NoRecStatus} /\ mine \in [KNode -> RecStatus \cup {NoRecStatus}]
  /\ reboots \in Nat /\ leaseLosses \in Nat

(* A node that serves is compatible with everything the reconciler has put *)
(* into the API, also while one state is being turned into another: its    *)
(* release is at least what those resources need, and none of them is      *)
(* older than it needs.                                                    *)
ReconcilerSound ==
  \A n \in KNode, r \in builtins :
    serving[n] = "yes" => release[n] >= MinApiserver[r] /\ r >= MinReconciler[release[n]]

-----------------------------------------------------------------------------
(***************************************************************************)
(* Reconciliation of the built-in Kubernetes objects                       *)
(* (kubernetes/reconciler/reconciler.go and resources_*.go): passes of one *)
(* or more reconcilers over one kind of resource, against an API server    *)
(* with optimistic concurrency, next to users that edit objects.  An       *)
(* object's data is a pair of its immutable and its mutable fields.        *)
(***************************************************************************)

CONSTANTS
  ObjName,       \* names of objects of this kind
  Expected,      \* Expected(): a function from some names to data
  ObjData,       \* data users and earlier releases leave in objects
  Reconciler,    \* reconcilers that may overlap, of one release
  MaxObjEdits,   \* bound on users' edits
  MaxObjFaults,  \* bound on failing requests and crashes
  MaxPasses      \* bound on passes

VARIABLES
  objs,      \* the API server: name -> [data, rv], rv 0 when there is none
  nextRV,    \* the next resource version
  pass,      \* each reconciler's pass: at, present, todo, name, known
  quiet,     \* reconcilers that only wrote themselves since their List
  lost,      \* some reconciler deleted an object that was as expected
  objEdits, objFaults, passes

objVars == <<objs, nextRV, pass, quiet, lost, objEdits, objFaults, passes>>
userVars == <<objEdits, objFaults, passes>>

NoObject == [data |-> <<0, 0>>, rv |-> 0]
NotRunning == [at |-> "idle", present |-> << >>, todo |-> {}, name |-> "-", known |-> 0]
Present == {n \in ObjName : objs[n].rv # 0}

ObjInit ==
  /\ \E there \in SUBSET ObjName, data \in [ObjName -> ObjData] :
       objs = [n \in ObjName |-> IF n \in there THEN [data |-> data[n], rv |-> 1] ELSE NoObject]
  /\ nextRV = 2 /\ pass = [r \in Reconciler |-> NotRunning] /\ quiet = {} /\ lost = "no"
  /\ objEdits = 0 /\ objFaults = 0 /\ passes = 0

-----------------------------------------------------------------------------
(* Requests of the API server: each writes a fresh resource version.       *)
Stored(n, data) ==
  /\ objs' = [objs EXCEPT ![n] = [data |-> data, rv |-> nextRV]]
  /\ nextRV' = nextRV + 1

Erase(n) == objs' = [objs EXCEPT ![n] = NoObject] /\ nextRV' = nextRV + 1

Edit(n, data) ==
  /\ objEdits < MaxObjEdits /\ objEdits' = objEdits + 1 /\ quiet' = {}
  /\ \/ objs[n].rv = 0 /\ Stored(n, data)
     \/ objs[n].rv # 0 /\ data # objs[n].data /\ data[1] = objs[n].data[1] /\ Stored(n, data)
     \/ objs[n].rv # 0 /\ data = objs[n].data /\ Erase(n)
  /\ UNCHANGED <<pass, lost, objFaults, passes>>

-----------------------------------------------------------------------------
(* reconcile(), one request at a time.  Maps are walked in any order: the  *)
(* expected objects first, then the ones to delete.                        *)
Doing(r, at) == pass[r].at = at

Returns(r) == pass' = [pass EXCEPT ![r] = NotRunning]

Proceed(r, n) ==
  pass' = [pass EXCEPT ![r] = [@ EXCEPT !.at = "next", !.todo = @ \ {n}, !.name = "-", !.known = 0]]

List(r) ==
  /\ Doing(r, "idle") /\ passes < MaxPasses /\ passes' = passes + 1
  /\ pass' = [pass EXCEPT ![r] = [at |-> "next", present |-> [n \in Present |-> objs[n]],
                                  todo |-> DOMAIN Expected \cup Present, name |-> "-", known |-> 0]]
  /\ quiet' = quiet \cup {r}
  /\ UNCHANGED <<objs, nextRV, lost, objEdits, objFaults>>

\* What the loops do for one name.
Pick(r, n) ==
  /\ Doing(r, "next") /\ n \in pass[r].todo
  /\ n \notin DOMAIN Expected => pass[r].todo \cap DOMAIN Expected = {}
  /\ LET p == pass[r]
         listed == n \in DOMAIN p.present
     IN IF n \in DOMAIN Expected /\ listed /\ p.present[n].data = Expected[n] THEN Proceed(r, n)
        ELSE pass' = [pass EXCEPT ![r] =
               [p EXCEPT !.name = n, !.known = IF listed THEN p.present[n].rv ELSE 0,
                         !.at = IF n \notin DOMAIN Expected THEN "remove"
                                ELSE IF listed THEN "update" ELSE "create"]]
  /\ UNCHANGED <<objs, nextRV, quiet, lost>> /\ UNCHANGED userVars

Others(r) == quiet' = quiet \cap {r}

\* Update is refused when the object changed or is gone, and as invalid when an
\* immutable field would change; then the object is deleted.
UpdateObject(r) ==
  /\ Doing(r, "update")
  /\ LET n == pass[r].name IN
     IF objs[n].rv # pass[r].known
     THEN Returns(r) /\ UNCHANGED <<objs, nextRV, quiet>>
     ELSE IF objs[n].data[1] # Expected[n][1]
     THEN pass' = [pass EXCEPT ![r].at = "delete"] /\ UNCHANGED <<objs, nextRV, quiet>>
     ELSE Stored(n, Expected[n]) /\ Proceed(r, n) /\ Others(r)
  /\ UNCHANGED lost /\ UNCHANGED userVars

\* Fault: the object is deleted whatever its version is by now.
PreconditionFault(n, rv) == objs[n].rv # 0

Precondition(n, rv) == objs[n].rv = rv

DeleteObject(r) ==
  /\ Doing(r, "delete")
  /\ LET n == pass[r].name IN
     IF Precondition(n, pass[r].known)
     THEN /\ Erase(n) /\ Others(r)
          /\ lost' = IF objs[n].data = Expected[n] THEN "yes" ELSE lost
          /\ pass' = [pass EXCEPT ![r].at = "create"]
     ELSE Returns(r) /\ UNCHANGED <<objs, nextRV, quiet, lost>>
  /\ UNCHANGED userVars

Create(r) ==
  /\ Doing(r, "create")
  /\ LET n == pass[r].name IN
     IF objs[n].rv = 0
     THEN Stored(n, Expected[n]) /\ Proceed(r, n) /\ Others(r)
     ELSE Returns(r) /\ UNCHANGED <<objs, nextRV, quiet>>
  /\ UNCHANGED lost /\ UNCHANGED userVars

\* An object that is not expected is deleted without a precondition.
RemoveObject(r) ==
  /\ Doing(r, "remove")
  /\ LET n == pass[r].name IN
     IF objs[n].rv # 0
     THEN Erase(n) /\ Proceed(r, n) /\ Others(r)
     ELSE Returns(r) /\ UNCHANGED <<objs, nextRV, quiet>>
  /\ UNCHANGED lost /\ UNCHANGED userVars

\* reconcile returns nil; the next pass starts from "idle" like after an error.
Finish(r) ==
  /\ Doing(r, "next") /\ pass[r].todo = {}
  /\ pass' = [pass EXCEPT ![r] = [NotRunning EXCEPT !.at = "done"]]
  /\ UNCHANGED <<objs, nextRV, quiet, lost>> /\ UNCHANGED userVars

Again(r) ==
  /\ Doing(r, "done") /\ Returns(r)
  /\ UNCHANGED <<objs, nextRV, quiet, lost>> /\ UNCHANGED userVars

\* A request fails, or the reconciler loses its lease or its node.
Interrupted(r) ==
  /\ pass[r].at \notin {"idle", "done"} /\ objFaults < MaxObjFaults /\ objFaults' = objFaults + 1
  /\ Returns(r) /\ UNCHANGED <<objs, nextRV, quiet, lost, objEdits, passes>>

ObjNext ==
  \/ \E r \in Reconciler : List(r) \/ UpdateObject(r) \/ DeleteObject(r) \/ Create(r) \/ RemoveObject(r)
                           \/ Finish(r) \/ Again(r) \/ Interrupted(r)
  \/ \E r \in Reconciler, n \in ObjName : Pick(r, n)
  \/ \E n \in ObjName, data \in ObjData : Edit(n, data)

ObjSpec == ObjInit /\ [][ObjNext]_objVars

-----------------------------------------------------------------------------
ObjTypeOK ==
  /\ \A n \in ObjName : objs[n].rv \in 0 .. nextRV - 1
  /\ \A r \in Reconciler : pass[r].todo \subseteq ObjName
                           /\ pass[r].at \in {"idle", "next", "update", "delete", "create", "remove", "done"}
  /\ quiet \subseteq Reconciler /\ lost \in {"yes", "no"}

(* A pass that ended well and that nobody else interfered with since its   *)
(* List leaves exactly the expected objects; and a reconciler that         *)
(* recreates an object for its immutable fields never deletes one that     *)
(* another reconciler has already made as expected: its Update and its     *)
(* Delete are both about the version it listed.                            *)
ObjectsSound ==
  /\ \A r \in quiet : Doing(r, "done") =>
       [n \in Present |-> objs[n].data] = Expected
  /\ lost = "no"
=============================================================================
