------------------------ MODULE K8sReconcilerProofs ------------------------
(***************************************************************************)
(* Proofs about the Kubernetes reconciler service, for any number of nodes *)
(* and releases.  The inductive invariant follows the status key: what it  *)
(* allows covers the resources that are in the API, the leaseholder knows  *)
(* what it says, and every serving node passes it.                         *)
(***************************************************************************)
EXTENDS K8sReconciler, TLAPS

(* The status covers the resources: its minimum is at least what each of   *)
(* them needs and its version at most the release of each.                 *)
Covers(s, R) == \A r \in R : s.min >= MinApiserver[r] /\ s.ver <= r

StatusCovers == recStatus # NoRecStatus => Covers(recStatus, builtins)

(* A serving node passes the test of WaitReady still, and has published    *)
(* the release it runs.                                                    *)
Passes(n, s) == s # NoRecStatus /\ release[n] >= s.min /\ s.ver >= MinReconciler[release[n]]

ServingPasses ==
  \A n \in KNode : serving[n] = "yes" => Passes(n, recStatus) /\ published[n] = release[n]

(* What watchNodes has last seen is not newer than the nodes, and bounds   *)
(* their releases if no node has changed since.                            *)
SeenBounds ==
  /\ nodesRev > 0
  /\ \A n \in KNode :
       /\ seenNodes[n].rev <= nodesRev
       /\ seenNodes[n].rev = nodesRev =>
            \A m \in KNode : seenNodes[n].min <= published[m] /\ published[m] <= seenNodes[n].max

(* Where lead is in a node that holds the election key: it knows the       *)
(* status, changes resources only once the status covers its own release,  *)
(* and has left nothing but its own when it is done.                       *)
LeadKnows(n) ==
  /\ lead[n] \in {"working", "restrict", "reconcile", "finish"} => mine[n] = recStatus
  /\ lead[n] \in {"working", "restrict"} => recStatus # NoRecStatus
  /\ lead[n] \in {"working", "reconcile", "finish", "steady"} /\ recStatus # NoRecStatus =>
       Covers(recStatus, {release[n]})
  /\ lead[n] \in {"finish", "steady"} => builtins = {release[n]}

HolderKnows == \A n \in KNode : holder = n => LeadKnows(n)

RecInv == RecTypeOK /\ StatusCovers /\ ServingPasses /\ SeenBounds /\ HolderKnows

-----------------------------------------------------------------------------
(* The constants, as the provers use them. *)
LEMMA Constants ==
  /\ \A r \in Releases : r \in Nat /\ r > 0
  /\ \A r \in Releases : MinApiserver[r] \in Releases /\ MinReconciler[r] \in Releases
  /\ \A r \in Releases : MinApiserver[r] <= r /\ MinReconciler[r] <= r
  /\ "none" \notin KNode
BY ReleasesAssumption, NoNodeAssumption

(* The status that a finished leader sets, and the one that covers the     *)
(* state before and after, are statuses.                                   *)
LEMMA Statuses ==
  ASSUME RecTypeOK, NEW n \in KNode
  PROVE  /\ DoneStatus(n) \in RecStatus
         /\ DoneStatus(n) # NoRecStatus
         /\ Covers(DoneStatus(n), {release[n]})
         /\ \A s \in RecStatus : /\ Restricted(s, release[n]) \in RecStatus
                                 /\ s # NoRecStatus
                                 /\ Covers(Restricted(s, release[n]), {release[n]})
                                 /\ Restricted(s, release[n]).min >= s.min
                                 /\ Restricted(s, release[n]).ver <= s.ver
                                 /\ [s EXCEPT !.state = "working"] \in RecStatus
<1>1. release[n] \in Releases
  BY DEF RecTypeOK
<1>2. DoneStatus(n) \in RecStatus /\ DoneStatus(n) # NoRecStatus
  BY <1>1, Constants DEF DoneStatus, RecStatus, NoRecStatus
<1>3. Covers(DoneStatus(n), {release[n]})
  BY <1>1, Constants DEF DoneStatus, Covers
<1>4. ASSUME NEW s \in RecStatus
      PROVE  /\ Restricted(s, release[n]) \in RecStatus
             /\ s # NoRecStatus
             /\ Covers(Restricted(s, release[n]), {release[n]})
             /\ Restricted(s, release[n]).min >= s.min
             /\ Restricted(s, release[n]).ver <= s.ver
             /\ [s EXCEPT !.state = "working"] \in RecStatus
  <2>1. s # NoRecStatus /\ [s EXCEPT !.state = "working"] \in RecStatus
    BY <1>4 DEF RecStatus, NoRecStatus
  <2>2. s.min \in Releases /\ s.ver \in Releases
    BY <1>4 DEF RecStatus
  <2>3. /\ Lower(s.ver, release[n]) \in Releases
        /\ Lower(s.ver, release[n]) <= s.ver /\ Lower(s.ver, release[n]) <= release[n]
    BY <1>1, <2>2, Constants DEF Lower
  <2>4. /\ Higher(s.min, MinApiserver[release[n]]) \in Releases
        /\ Higher(s.min, MinApiserver[release[n]]) >= s.min
        /\ Higher(s.min, MinApiserver[release[n]]) >= MinApiserver[release[n]]
    BY <1>1, <2>2, Constants DEF Higher
  <2> QED BY <2>1, <2>3, <2>4 DEF Restricted, RecStatus, Covers
<1> QED BY <1>2, <1>3, <1>4

LEMMA InitHolds == RecInit => RecInv
<1> SUFFICES ASSUME RecInit PROVE RecInv
  OBVIOUS
<1>1. RecTypeOK
  BY Constants DEF RecInit, RecTypeOK, NoneSeen
<1>2. StatusCovers /\ ServingPasses /\ HolderKnows
  BY Constants DEF RecInit, StatusCovers, ServingPasses, HolderKnows
<1>3. SeenBounds
  <2>1. nodesRev = 1 /\ \A n \in KNode : seenNodes[n] = NoneSeen
    BY DEF RecInit
  <2>2. NoneSeen.rev = 0
    BY DEF NoneSeen
  <2>3. \A n \in KNode : seenNodes[n].rev = 0
    BY <2>1, <2>2
  <2>4. ASSUME NEW n \in KNode PROVE seenNodes[n].rev <= nodesRev /\ seenNodes[n].rev # nodesRev
    <3>1. seenNodes[n].rev = 0 /\ nodesRev = 1
      BY <2>1, <2>3
    <3> QED BY <3>1
  <2> QED BY <2>1, <2>4 DEF SeenBounds
<1> QED BY <1>1, <1>2, <1>3 DEF RecInv

-----------------------------------------------------------------------------
(* Every step keeps the types; what SetWorking and RestrictStatus make of  *)
(* the status they know is a status since it exists.                       *)
LEMMA TypeStep == RecInv /\ [RecNext]_recVars => RecTypeOK'
<1> SUFFICES ASSUME RecInv, [RecNext]_recVars PROVE RecTypeOK'
  OBVIOUS
<1> RecTypeOK
  BY DEF RecInv
<1> USE DEF RecTypeOK
<1>1. ASSUME NEW n \in KNode, WatchNodes(n) PROVE RecTypeOK'
  <2> DEFINE all == {published[m] : m \in KNode} \cup {release[n]}
  <2>1. all \subseteq Nat
    BY Constants
  <2>2. PICK lo, hi \in all :
          seenNodes' = [seenNodes EXCEPT ![n] = [min |-> lo, max |-> hi, rev |-> nodesRev]]
    BY <1>1 DEF WatchNodes
  <2>3. lo \in Nat /\ hi \in Nat
    BY <2>1
  <2> HIDE DEF all
  <2>4. seenNodes' \in [KNode -> [min : Nat, max : Nat, rev : Nat]]
    BY <2>2, <2>3
  <2> QED BY <1>1, <2>4 DEF WatchNodes
<1>2. ASSUME NEW n \in KNode, WatchReleasesRestart(n) PROVE RecTypeOK'
  BY <1>2 DEF WatchReleasesRestart, Quit
<1>3. ASSUME NEW n \in KNode, Elected(n) PROVE RecTypeOK'
  BY <1>3 DEF Elected
<1>4. ASSUME NEW n \in KNode, LeaseLost(n) PROVE RecTypeOK'
  BY <1>4 DEF LeaseLost
<1>5. ASSUME NEW n \in KNode, SessionDone(n) PROVE RecTypeOK'
  BY <1>5 DEF SessionDone
<1>6. ASSUME NEW n \in KNode, ReadStatus(n) PROVE RecTypeOK'
  <2>1. mine' \in [KNode -> RecStatus \cup {NoRecStatus}]
    BY <1>6 DEF ReadStatus
  <2>2. lead' \in [KNode -> {"off", "read", "working", "restrict", "reconcile", "finish", "steady"}]
    BY <1>6 DEF ReadStatus
  <2> QED BY <1>6, <2>1, <2>2 DEF ReadStatus
<1>7. ASSUME NEW n \in KNode, SetWorking(n) PROVE RecTypeOK'
  <2>1. CASE holder = n
    <3>1. mine[n] \in RecStatus
      BY <1>7, <2>1 DEF RecInv, HolderKnows, LeadKnows, SetWorking
    <3>2. [mine[n] EXCEPT !.state = "working"] \in RecStatus
      BY <3>1, Statuses
    <3>3. PICK s \in RecStatus : recStatus' = s /\ mine' = [mine EXCEPT ![n] = s]
      BY <1>7, <2>1, <3>2 DEF SetWorking
    <3>4. recStatus' \in RecStatus /\ mine' \in [KNode -> RecStatus \cup {NoRecStatus}]
      BY <3>3
    <3> QED BY <1>7, <2>1, <3>4 DEF SetWorking
  <2>2. CASE holder # n
    BY <1>7, <2>2 DEF SetWorking
  <2> QED BY <2>1, <2>2
<1>8. ASSUME NEW n \in KNode, RestrictStatus(n) PROVE RecTypeOK'
  <2>1. mine[n] \in RecStatus
    BY <1>8 DEF RecInv, HolderKnows, LeadKnows, RestrictStatus
  <2>2. Restricted(mine[n], release[n]) \in RecStatus
    BY <2>1, Statuses
  <2> QED BY <1>8, <2>2 DEF RestrictStatus
<1>9. ASSUME NEW n \in KNode, ReconcileSome(n) \/ ReconcileAgain(n) PROVE RecTypeOK'
  BY <1>9 DEF ReconcileSome, ReconcileAgain
<1>10. ASSUME NEW n \in KNode, ReconcileDone(n) PROVE RecTypeOK'
  BY <1>10 DEF ReconcileDone
<1>11. ASSUME NEW n \in KNode, SetDone(n) PROVE RecTypeOK'
  <2>1. DoneStatus(n) \in RecStatus
    BY Statuses
  <2> QED BY <1>11, <2>1 DEF SetDone
<1>12. ASSUME NEW n \in KNode, WaitReady(n) PROVE RecTypeOK'
  BY <1>12 DEF WaitReady
<1>13. ASSUME NEW n \in KNode, Publish(n) PROVE RecTypeOK'
  BY <1>13 DEF Publish
<1>14. ASSUME NEW n \in KNode, NEW r \in Releases, RebootTo(n, r) PROVE RecTypeOK'
  <2>1. seenNodes' \in [KNode -> [min : Nat, max : Nat, rev : Nat]]
    BY <1>14 DEF RebootTo, NoneSeen
  <2> QED BY <1>14, <2>1 DEF RebootTo
<1>15. CASE LeaseExpires
  BY <1>15 DEF LeaseExpires
<1>16. CASE UNCHANGED recVars
  BY <1>16 DEF recVars
<1> QED
  BY <1>1, <1>2, <1>3, <1>4, <1>5, <1>6, <1>7, <1>8, <1>9, <1>10, <1>11, <1>12, <1>13, <1>14,
     <1>15, <1>16 DEF RecNext

-----------------------------------------------------------------------------
(* What watchNodes has seen stays a bound: a change to a published release *)
(* also makes what was seen before it old.                                 *)
LEMMA SeenStep == RecInv /\ [RecNext]_recVars => SeenBounds'
<1> SUFFICES ASSUME RecInv, [RecNext]_recVars PROVE SeenBounds'
  OBVIOUS
<1> RecTypeOK /\ SeenBounds
  BY DEF RecInv
<1>1. ASSUME NEW n \in KNode, WatchNodes(n) PROVE SeenBounds'
  <2> DEFINE all == {published[m] : m \in KNode} \cup {release[n]}
  <2>1. PICK lo, hi \in all :
          /\ \A r \in all : lo <= r /\ r <= hi
          /\ seenNodes' = [seenNodes EXCEPT ![n] = [min |-> lo, max |-> hi, rev |-> nodesRev]]
    BY <1>1 DEF WatchNodes
  <2>2. \A m \in KNode : lo <= published[m] /\ published[m] <= hi
    BY <2>1
  <2>3. UNCHANGED <<nodesRev, published>> /\ nodesRev \in Nat
    BY <1>1 DEF WatchNodes, RecTypeOK
  <2> HIDE DEF all
  <2>4. seenNodes'[n] = [min |-> lo, max |-> hi, rev |-> nodesRev]
    BY <2>1 DEF RecTypeOK
  <2>5. \A m \in KNode \ {n} : seenNodes'[m] = seenNodes[m]
    BY <2>1 DEF RecTypeOK
  <2> QED BY <2>2, <2>3, <2>4, <2>5 DEF SeenBounds
<1>2. ASSUME NEW n \in KNode, Publish(n) PROVE SeenBounds'
  <2>1. nodesRev' = nodesRev + 1 /\ seenNodes' = seenNodes /\ nodesRev \in Nat
    BY <1>2 DEF Publish, RecTypeOK
  <2>2. \A m \in KNode : seenNodes[m].rev \in Nat /\ seenNodes[m].rev <= nodesRev
    BY DEF SeenBounds, RecTypeOK
  <2> QED BY <2>1, <2>2 DEF SeenBounds
<1>3. ASSUME NEW n \in KNode, NEW r \in Releases, RebootTo(n, r) PROVE SeenBounds'
  <2>1. \A m \in KNode : seenNodes'[m] \in {seenNodes[m], NoneSeen}
    BY <1>3 DEF RebootTo, RecTypeOK
  <2>2. UNCHANGED <<nodesRev, published>> /\ nodesRev \in Nat
    BY <1>3 DEF RebootTo, RecTypeOK
  <2>3. NoneSeen.rev = 0
    BY DEF NoneSeen
  <2>4. ASSUME NEW m \in KNode, seenNodes'[m] = NoneSeen
        PROVE  seenNodes'[m].rev <= nodesRev' /\ seenNodes'[m].rev # nodesRev'
    BY <2>2, <2>3, <2>4 DEF SeenBounds
  <2>5. ASSUME NEW m \in KNode, seenNodes'[m] = seenNodes[m]
        PROVE  /\ seenNodes'[m].rev <= nodesRev'
               /\ seenNodes'[m].rev = nodesRev' =>
                    \A k \in KNode : seenNodes'[m].min <= published'[k]
                                   /\ published'[k] <= seenNodes'[m].max
    BY <2>2, <2>5 DEF SeenBounds
  <2> QED BY <2>1, <2>2, <2>4, <2>5 DEF SeenBounds
<1>4. CASE UNCHANGED <<seenNodes, nodesRev, published>>
  BY <1>4 DEF SeenBounds
<1> QED
  BY <1>1, <1>2, <1>3, <1>4
  DEF RecNext, WatchReleasesRestart, Elected, LeaseLost, SessionDone, ReadStatus, SetWorking,
      RestrictStatus, ReconcileSome, ReconcileDone, SetDone, ReconcileAgain, WaitReady,
      LeaseExpires, recVars

-----------------------------------------------------------------------------
(* The status that a step of the leaseholder writes. *)
LEMMA Written ==
  ASSUME RecInv, NEW n \in KNode
  PROVE  /\ SetWorking(n) /\ holder = n =>
              /\ recStatus \in RecStatus /\ recStatus' \in RecStatus
              /\ recStatus'.ver = recStatus.ver /\ recStatus'.min = recStatus.min
         /\ RestrictStatus(n) =>
              /\ recStatus \in RecStatus /\ recStatus' \in RecStatus
              /\ recStatus' = Restricted(recStatus, release[n])
         /\ SetDone(n) /\ holder = n => recStatus' = DoneStatus(n)
<1> RecTypeOK /\ (holder = n => LeadKnows(n))
  BY DEF RecInv, HolderKnows
<1>1. ASSUME SetWorking(n), holder = n
      PROVE  /\ recStatus \in RecStatus /\ recStatus' \in RecStatus
             /\ recStatus'.ver = recStatus.ver /\ recStatus'.min = recStatus.min
  <2>1. recStatus \in RecStatus /\ mine[n] = recStatus
    BY <1>1 DEF SetWorking, LeadKnows, RecTypeOK
  <2>2. recStatus' = [recStatus EXCEPT !.state = "working"]
    BY <1>1, <2>1 DEF SetWorking
  <2> QED BY <2>1, <2>2 DEF RecStatus
<1>2. ASSUME RestrictStatus(n)
      PROVE  /\ recStatus \in RecStatus /\ recStatus' \in RecStatus
             /\ recStatus' = Restricted(recStatus, release[n])
  <2>1. recStatus \in RecStatus /\ mine[n] = recStatus
    BY <1>2 DEF RestrictStatus, LeadKnows, RecTypeOK
  <2> QED BY <1>2, <2>1, Statuses DEF RestrictStatus
<1>3. SetDone(n) /\ holder = n => recStatus' = DoneStatus(n)
  BY DEF SetDone
<1> QED BY <1>1, <1>2, <1>3

(* The status covers what is in the API: it is restricted before resources *)
(* of another release are written, and relaxed once they are all there.    *)
LEMMA CoversStep == RecInv /\ [RecNext]_recVars => StatusCovers'
<1> SUFFICES ASSUME RecInv, [RecNext]_recVars PROVE StatusCovers'
  OBVIOUS
<1> RecTypeOK /\ StatusCovers /\ HolderKnows
  BY DEF RecInv
<1>1. ASSUME NEW n \in KNode, SetWorking(n), holder = n PROVE StatusCovers'
  <2>1. recStatus # NoRecStatus /\ builtins' = builtins
    BY <1>1, Written, Statuses DEF SetWorking
  <2> QED BY <1>1, <2>1, Written DEF StatusCovers, Covers
<1>2. ASSUME NEW n \in KNode, RestrictStatus(n) PROVE StatusCovers'
  <2>1. /\ recStatus \in RecStatus /\ recStatus' \in RecStatus
        /\ recStatus' = Restricted(recStatus, release[n])
    BY <1>2, Written
  <2>2. recStatus'.min >= recStatus.min /\ recStatus'.ver <= recStatus.ver
    BY <2>1, Statuses
  <2>3. recStatus # NoRecStatus /\ builtins' = builtins
    BY <1>2, <2>1, Statuses DEF RestrictStatus
  <2>4. /\ recStatus.min \in Nat /\ recStatus.ver \in Nat
        /\ recStatus'.min \in Nat /\ recStatus'.ver \in Nat
    BY <2>1, Constants DEF RecStatus
  <2>5. ASSUME NEW r \in builtins PROVE recStatus'.min >= MinApiserver[r] /\ recStatus'.ver <= r
    <3>1. r \in Nat /\ MinApiserver[r] \in Nat
      BY Constants DEF RecTypeOK
    <3>2. recStatus.min >= MinApiserver[r] /\ recStatus.ver <= r
      BY <2>3 DEF StatusCovers, Covers
    <3> QED BY <2>2, <2>4, <3>1, <3>2
  <2> QED BY <2>3, <2>5 DEF StatusCovers, Covers
<1>3. ASSUME NEW n \in KNode, ReconcileSome(n) PROVE StatusCovers'
  <2>1. recStatus # NoRecStatus => Covers(recStatus, {release[n]})
    BY <1>3 DEF ReconcileSome, HolderKnows, LeadKnows
  <2>2. builtins' = builtins \cup {release[n]} /\ recStatus' = recStatus
    BY <1>3 DEF ReconcileSome
  <2> QED BY <2>1, <2>2 DEF StatusCovers, Covers
<1>4. ASSUME NEW n \in KNode, ReconcileDone(n) \/ ReconcileAgain(n) PROVE StatusCovers'
  <2>1. holder = n /\ recStatus # NoRecStatus => Covers(recStatus, {release[n]})
    BY <1>4 DEF ReconcileDone, ReconcileAgain, HolderKnows, LeadKnows
  <2>2. recStatus' = recStatus /\ (builtins' = builtins \/ (holder = n /\ builtins' = {release[n]}))
    BY <1>4 DEF ReconcileDone, ReconcileAgain
  <2> QED BY <2>1, <2>2 DEF StatusCovers
<1>5. ASSUME NEW n \in KNode, SetDone(n), holder = n PROVE StatusCovers'
  <2>1. builtins' = {release[n]}
    BY <1>5 DEF SetDone, HolderKnows, LeadKnows
  <2> QED BY <1>5, <2>1, Written, Statuses DEF StatusCovers
<1>6. CASE UNCHANGED <<recStatus, builtins>>
  BY <1>6 DEF StatusCovers
<1> QED
  BY <1>1, <1>2, <1>3, <1>4, <1>5, <1>6
  DEF RecNext, WatchNodes, WatchReleasesRestart, Elected, LeaseLost, SessionDone, ReadStatus,
      SetWorking, SetDone, WaitReady, Publish, RebootTo, LeaseExpires, recVars

-----------------------------------------------------------------------------
(* A serving node passes every status that is written while it serves.     *)
(* Where the status becomes stricter, the transaction has seen the nodes   *)
(* as they are: none that serves is too old, and none is newer.            *)
LEMMA ServingStep ==
  ASSUME PublishFirst = "yes"
  PROVE  RecInv /\ [RecNext]_recVars => ServingPasses'
<1> SUFFICES ASSUME RecInv, [RecNext]_recVars PROVE ServingPasses'
  OBVIOUS
<1> RecTypeOK /\ ServingPasses /\ HolderKnows /\ SeenBounds
  BY DEF RecInv
<1> DEFINE Kept == UNCHANGED <<release, published, serving>>
<1>1. ASSUME NEW n \in KNode, SetWorking(n), holder = n PROVE ServingPasses'
  <2>1. Kept
    BY <1>1 DEF SetWorking
  <2>2. /\ recStatus'.ver = recStatus.ver /\ recStatus'.min = recStatus.min
        /\ recStatus' # NoRecStatus
    BY <1>1, Written, Statuses
  <2> QED BY <2>1, <2>2 DEF ServingPasses, Passes
<1>2. ASSUME NEW n \in KNode, RestrictStatus(n) PROVE ServingPasses'
  <2>1. Kept
    BY <1>2 DEF RestrictStatus
  <2>2. /\ recStatus \in RecStatus /\ recStatus' \in RecStatus
        /\ recStatus' = Restricted(recStatus, release[n])
    BY <1>2, Written
  <2>3. recStatus' # NoRecStatus
    BY <2>2, Statuses
  <2>4. seenNodes[n].rev = nodesRev
    BY <1>2 DEF RestrictStatus, NodesUnchanged, SeenBounds, RecTypeOK
  <2>5. release[n] >= seenNodes[n].max /\ seenNodes[n].min >= MinApiserver[release[n]]
    BY <1>2 DEF RestrictStatus
  <2>6. ASSUME NEW m \in KNode, serving[m] = "yes"
        PROVE  release[m] >= recStatus'.min /\ recStatus'.ver >= MinReconciler[release[m]]
    <3>1. /\ release[m] \in Releases /\ release[n] \in Releases
          /\ seenNodes[n].min \in Nat /\ seenNodes[n].max \in Nat
      BY DEF RecTypeOK
    <3>2. recStatus.min \in Releases /\ recStatus.ver \in Releases
      BY <2>2 DEF RecStatus
    <3>3. /\ release[m] >= recStatus.min /\ recStatus.ver >= MinReconciler[release[m]]
          /\ published[m] = release[m]
      BY <2>6 DEF ServingPasses, Passes
    <3>4. seenNodes[n].min <= release[m] /\ release[m] <= seenNodes[n].max
      BY <2>4, <3>3 DEF SeenBounds
    <3>5. release[m] >= MinApiserver[release[n]] /\ release[n] >= MinReconciler[release[m]]
      <4>1. MinApiserver[release[n]] \in Nat /\ MinReconciler[release[m]] \in Nat
              /\ MinReconciler[release[m]] <= release[m] /\ release[m] \in Nat /\ release[n] \in Nat
        BY <3>1, Constants
      <4> QED BY <2>5, <3>1, <3>4, <4>1
    <3>6. recStatus'.min \in {recStatus.min, MinApiserver[release[n]]}
            /\ recStatus'.ver \in {recStatus.ver, release[n]}
      BY <2>2 DEF Restricted, Lower, Higher
    <3> QED BY <3>3, <3>5, <3>6
  <2> QED BY <2>1, <2>3, <2>6, <2>2 DEF ServingPasses, Passes
<1>3. ASSUME NEW n \in KNode, SetDone(n), holder = n PROVE ServingPasses'
  <2>1. Kept
    BY <1>3 DEF SetDone
  <2>2. recStatus' = DoneStatus(n) /\ recStatus' # NoRecStatus
    BY <1>3, Written, Statuses
  <2>3. recStatus'.min = MinApiserver[release[n]] /\ recStatus'.ver = release[n]
    BY <2>2 DEF DoneStatus
  <2>4. ASSUME NEW m \in KNode, serving[m] = "yes"
        PROVE  release[m] >= recStatus'.min /\ recStatus'.ver >= MinReconciler[release[m]]
    <3>1. /\ recStatus # NoRecStatus
          /\ release[m] >= recStatus.min /\ recStatus.ver >= MinReconciler[release[m]]
      BY <2>4 DEF ServingPasses, Passes
    <3>2. recStatus.min >= MinApiserver[release[n]] /\ recStatus.ver <= release[n]
      BY <1>3, <3>1 DEF SetDone, HolderKnows, LeadKnows, Covers
    <3>3. release[m] \in Releases /\ release[n] \in Releases
      BY DEF RecTypeOK
    <3>4. recStatus.min \in Nat /\ recStatus.ver \in Nat
      BY <3>1, Constants DEF RecTypeOK, RecStatus
    <3>5. /\ MinApiserver[release[n]] \in Nat /\ MinReconciler[release[m]] \in Nat
          /\ release[m] \in Nat /\ release[n] \in Nat
      BY <3>3, Constants
    <3> QED BY <2>3, <3>1, <3>2, <3>4, <3>5
  <2> QED BY <2>1, <2>2, <2>4 DEF ServingPasses, Passes
<1>4. ASSUME NEW n \in KNode, WaitReady(n) PROVE ServingPasses'
  <2>1. published[n] = release[n] /\ Passes(n, recStatus)
    BY <1>4 DEF WaitReady, Active, Passes
  <2>2. /\ UNCHANGED <<release, published, recStatus>>
        /\ \A m \in KNode \ {n} : serving'[m] = serving[m]
    BY <1>4 DEF WaitReady, RecTypeOK
  <2> QED BY <2>1, <2>2 DEF ServingPasses, Passes
<1>5. ASSUME NEW n \in KNode, Publish(n) PROVE ServingPasses'
  <2>1. /\ UNCHANGED <<release, serving, recStatus>>
        /\ \A m \in KNode \ {n} : published'[m] = published[m]
        /\ published'[n] = release[n]
    BY <1>5 DEF Publish, RecTypeOK
  <2> QED BY <2>1 DEF ServingPasses, Passes
<1>6. ASSUME NEW n \in KNode, NEW r \in Releases, RebootTo(n, r) PROVE ServingPasses'
  <2>1. /\ UNCHANGED <<published, recStatus>>
        /\ \A m \in KNode \ {n} : serving'[m] = serving[m] /\ release'[m] = release[m]
        /\ serving'[n] = "no"
    BY <1>6 DEF RebootTo, RecTypeOK
  <2> QED BY <2>1 DEF ServingPasses, Passes
<1>7. CASE Kept /\ UNCHANGED recStatus
  BY <1>7 DEF ServingPasses, Passes
<1> QED
  BY <1>1, <1>2, <1>3, <1>4, <1>5, <1>6, <1>7
  DEF RecNext, WatchNodes, WatchReleasesRestart, Elected, LeaseLost, SessionDone, ReadStatus,
      SetWorking, ReconcileSome, ReconcileDone, SetDone, ReconcileAgain, LeaseExpires, recVars

-----------------------------------------------------------------------------
(* The leaseholder knows the status: nobody else writes it, and a node     *)
(* that wins the election starts by reading it.                            *)
LEMMA HolderStep == RecInv /\ [RecNext]_recVars => HolderKnows'
<1> SUFFICES ASSUME RecInv, [RecNext]_recVars PROVE HolderKnows'
  OBVIOUS
<1> RecTypeOK /\ HolderKnows
  BY DEF RecInv
<1> DEFINE Same(m) == /\ lead'[m] = lead[m] /\ mine'[m] = mine[m] /\ release'[m] = release[m]
                      /\ recStatus' = recStatus /\ builtins' = builtins
<1>1. ASSUME NEW m \in KNode, holder = m, Same(m) PROVE LeadKnows(m)'
  <2>1. LeadKnows(m)
    BY <1>1 DEF HolderKnows
  <2> QED BY <1>1, <2>1 DEF LeadKnows
<1>2. ASSUME NEW m \in KNode, lead'[m] \in {"off", "read"} PROVE LeadKnows(m)'
  BY <1>2 DEF LeadKnows
<1>3. ASSUME NEW n \in KNode, WatchNodes(n) \/ WaitReady(n) \/ Publish(n) PROVE HolderKnows'
  BY <1>1, <1>3 DEF WatchNodes, WaitReady, Publish, HolderKnows
<1>4. ASSUME NEW n \in KNode, WatchReleasesRestart(n) PROVE HolderKnows'
  <2>1. ASSUME NEW m \in KNode, holder' = m PROVE LeadKnows(m)'
    <3>1. CASE m = n
      BY <1>2, <1>4, <3>1 DEF WatchReleasesRestart, RecTypeOK
    <3>2. CASE m # n
      <4>1. holder = m
        BY <1>4, <2>1, <3>2, Constants DEF WatchReleasesRestart, Quit
      <4> QED BY <1>1, <1>4, <3>2, <4>1 DEF WatchReleasesRestart, RecTypeOK
    <3> QED BY <3>1, <3>2
  <2> QED BY <2>1 DEF HolderKnows
<1>5. ASSUME NEW n \in KNode, Elected(n) PROVE HolderKnows'
  BY <1>2, <1>5 DEF Elected, HolderKnows, RecTypeOK
<1>6. ASSUME NEW n \in KNode, LeaseLost(n) PROVE HolderKnows'
  BY <1>6, Constants DEF LeaseLost, HolderKnows
<1>7. ASSUME NEW n \in KNode, SessionDone(n) PROVE HolderKnows'
  BY <1>1, <1>7 DEF SessionDone, HolderKnows, RecTypeOK
<1>8. ASSUME NEW n \in KNode, ReadStatus(n) PROVE HolderKnows'
  <2>1. ASSUME NEW m \in KNode, holder' = m, m # n PROVE LeadKnows(m)'
    BY <1>1, <1>8, <2>1 DEF ReadStatus, RecTypeOK
  <2>2. /\ UNCHANGED <<recStatus, release, builtins>>
        /\ mine'[n] = recStatus
        /\ lead'[n] \in {"reconcile", "working", "restrict"}
    BY <1>8 DEF ReadStatus, RecTypeOK
  <2>3. lead'[n] \in {"working", "restrict"} => recStatus # NoRecStatus
    BY <1>8 DEF ReadStatus, RecTypeOK
  <2>4. lead'[n] # "restrict" /\ recStatus # NoRecStatus =>
          recStatus = DoneStatus(n) \/ Compatible(recStatus, release[n])
    BY <1>8 DEF ReadStatus, RecTypeOK
  <2>5. lead'[n] # "restrict" /\ recStatus # NoRecStatus => Covers(recStatus, {release[n]})
    <3> SUFFICES ASSUME lead'[n] # "restrict", recStatus # NoRecStatus
                 PROVE  Covers(recStatus, {release[n]})
      OBVIOUS
    <3>1. recStatus.ver \in Nat /\ release[n] \in Nat
      BY Constants DEF RecTypeOK, RecStatus
    <3> QED BY <2>4, <3>1, Statuses DEF Compatible, Covers
  <2>6. LeadKnows(n)'
    BY <2>2, <2>3, <2>5 DEF LeadKnows
  <2> QED BY <2>1, <2>6 DEF HolderKnows
<1>9. ASSUME NEW n \in KNode, SetWorking(n) PROVE HolderKnows'
  <2>1. CASE holder # n
    BY <1>1, <1>9, <2>1 DEF SetWorking, HolderKnows, RecTypeOK
  <2>2. CASE holder = n
    <3>1. /\ recStatus' \in RecStatus
          /\ recStatus'.ver = recStatus.ver /\ recStatus'.min = recStatus.min
          /\ recStatus # NoRecStatus
      BY <1>9, <2>2, Written, Statuses
    <3>2. Covers(recStatus, {release[n]})
      BY <1>9, <2>2, <3>1 DEF SetWorking, HolderKnows, LeadKnows
    <3>3. /\ holder' = n /\ lead'[n] = "reconcile" /\ release' = release
          /\ mine'[n] = recStatus'
      BY <1>9, <2>2 DEF SetWorking, RecTypeOK
    <3>4. Covers(recStatus', {release'[n]})
      BY <3>1, <3>2, <3>3 DEF Covers
    <3> QED BY <3>3, <3>4 DEF HolderKnows, LeadKnows
  <2> QED BY <2>1, <2>2
<1>10. ASSUME NEW n \in KNode, RestrictStatus(n) PROVE HolderKnows'
  <2>1. recStatus \in RecStatus /\ recStatus' = Restricted(recStatus, release[n])
    BY <1>10, Written
  <2>2. Covers(recStatus', {release[n]})
    BY <2>1, Statuses
  <2>3. /\ holder' = n /\ lead'[n] = "reconcile" /\ release' = release
        /\ mine'[n] = recStatus'
    BY <1>10 DEF RestrictStatus, RecTypeOK
  <2> QED BY <2>2, <2>3 DEF HolderKnows, LeadKnows
<1>11. ASSUME NEW n \in KNode, ReconcileSome(n) \/ ReconcileAgain(n) PROVE HolderKnows'
  <2>1. LeadKnows(n) /\ holder' = n
    BY <1>11 DEF ReconcileSome, ReconcileAgain, HolderKnows
  <2>2. /\ UNCHANGED <<lead, mine, recStatus, release>>
        /\ lead[n] = "reconcile" \/ (lead[n] = "steady" /\ builtins' = {release[n]})
    BY <1>11 DEF ReconcileSome, ReconcileAgain
  <2> QED BY <2>1, <2>2 DEF HolderKnows, LeadKnows
<1>12. ASSUME NEW n \in KNode, ReconcileDone(n) PROVE HolderKnows'
  <2>1. CASE holder # n
    BY <1>1, <1>12, <2>1 DEF ReconcileDone, HolderKnows, RecTypeOK
  <2>2. CASE holder = n
    <3>1. /\ holder' = n /\ lead[n] = "reconcile" /\ lead'[n] \in {"finish", "steady"}
          /\ UNCHANGED <<mine, recStatus, release>> /\ builtins' = {release[n]}
      BY <1>12, <2>2 DEF ReconcileDone, RecTypeOK
    <3>2. LeadKnows(n)
      BY <2>2 DEF HolderKnows
    <3> QED BY <3>1, <3>2 DEF HolderKnows, LeadKnows
  <2> QED BY <2>1, <2>2
<1>13. ASSUME NEW n \in KNode, SetDone(n) PROVE HolderKnows'
  <2>1. CASE holder # n
    BY <1>1, <1>13, <2>1 DEF SetDone, HolderKnows, RecTypeOK
  <2>2. CASE holder = n
    <3>1. /\ holder' = n /\ lead'[n] = "steady" /\ release' = release
          /\ recStatus' = DoneStatus(n) /\ builtins' = builtins
      BY <1>13, <2>2 DEF SetDone, RecTypeOK
    <3>2. builtins = {release[n]}
      BY <1>13, <2>2 DEF SetDone, HolderKnows, LeadKnows
    <3>3. Covers(DoneStatus(n), {release[n]})
      BY Statuses
    <3> QED BY <3>1, <3>2, <3>3 DEF HolderKnows, LeadKnows
  <2> QED BY <2>1, <2>2
<1>14. ASSUME NEW n \in KNode, NEW r \in Releases, RebootTo(n, r) PROVE HolderKnows'
  <2>1. lead'[n] = "off" /\ \A m \in KNode \ {n} : Same(m)
    BY <1>14 DEF RebootTo, RecTypeOK
  <2>2. holder' = holder
    BY <1>14 DEF RebootTo
  <2> QED BY <1>1, <1>2, <2>1, <2>2 DEF HolderKnows
<1>15. CASE LeaseExpires
  BY <1>15, Constants DEF LeaseExpires, HolderKnows
<1>16. CASE UNCHANGED recVars
  BY <1>1, <1>16 DEF recVars, HolderKnows
<1> QED
  BY <1>3, <1>4, <1>5, <1>6, <1>7, <1>8, <1>9, <1>10, <1>11, <1>12, <1>13, <1>14, <1>15, <1>16
  DEF RecNext

-----------------------------------------------------------------------------
LEMMA Inductive ==
  ASSUME PublishFirst = "yes"
  PROVE  RecInv /\ [RecNext]_recVars => RecInv'
BY TypeStep, SeenStep, CoversStep, ServingStep, HolderStep DEF RecInv

(* The status covers what is in the API, and the serving nodes pass it.    *)
LEMMA Implied == RecInv => ReconcilerSound
<1> SUFFICES ASSUME RecInv, NEW n \in KNode, NEW r \in builtins, serving[n] = "yes"
             PROVE  release[n] >= MinApiserver[r] /\ r >= MinReconciler[release[n]]
  BY DEF ReconcilerSound
<1>1. /\ recStatus # NoRecStatus
      /\ release[n] >= recStatus.min /\ recStatus.ver >= MinReconciler[release[n]]
  BY DEF RecInv, ServingPasses, Passes
<1>2. recStatus.min >= MinApiserver[r] /\ recStatus.ver <= r
  BY <1>1 DEF RecInv, StatusCovers, Covers
<1>3. release[n] \in Releases /\ r \in Releases /\ recStatus.min \in Releases /\ recStatus.ver \in Releases
  BY <1>1 DEF RecInv, RecTypeOK, RecStatus
<1>4. /\ release[n] \in Nat /\ r \in Nat /\ recStatus.min \in Nat /\ recStatus.ver \in Nat
      /\ MinApiserver[r] \in Nat /\ MinReconciler[release[n]] \in Nat
  BY <1>3, Constants
<1> QED BY <1>1, <1>2, <1>4

(* However many controller nodes of whatever releases there are, and       *)
(* however they reboot, win and lose the election, a serving node is       *)
(* always compatible with all the resources in the API, if a node's status *)
(* push precedes its Kubernetes controller (WaitReady, watchNodes, lead).  *)
THEOREM ServingCompatible ==
  ASSUME PublishFirst = "yes"
  PROVE  RecSpec => []ReconcilerSound
<1>1. RecInit => RecInv
  BY InitHolds
<1>2. RecInv /\ [RecNext]_recVars => RecInv'
  BY Inductive
<1>3. RecInv => ReconcilerSound
  BY Implied
<1> QED BY <1>1, <1>2, <1>3, PTL DEF RecSpec

(* The variables of the reconciler service have their types throughout,    *)
(* under the same assumption.                                              *)
THEOREM ReconcilerTypes ==
  ASSUME PublishFirst = "yes"
  PROVE  RecSpec => []RecTypeOK
<1>1. RecInit => RecInv
  BY InitHolds
<1>2. RecInv /\ [RecNext]_recVars => RecInv'
  BY Inductive
<1>3. RecInv => RecTypeOK
  BY DEF RecInv
<1> QED BY <1>1, <1>2, <1>3, PTL DEF RecSpec

=============================================================================
