------------------------------ MODULE Resolver ------------------------------
(***************************************************************************)
(* The gRPC resolver of the control plane (metropolis/node/core/rpc/       *)
(* resolver): the processor that owns the curator map and the current      *)
(* leader, the leader updater, the curator updater, and one watcher per    *)
(* gRPC client connection.  The processor is fed over an unbuffered        *)
(* channel and hands leader updates to the watchers over unbuffered        *)
(* channels, so it stands still until each of them has taken its update.   *)
(* An endpoint is the address a node reports or the override's; what a     *)
(* curator answers about the leader is an input.                           *)
(***************************************************************************)
EXTENDS NodeWatch

CONSTANTS
  CurNode,        \* nodes of the cluster
  Client,         \* gRPC connections dialled through the resolver
  MaxAnswers      \* bound on the answers of curators and on seeds and overrides

VARIABLES
  curators,       \* curatorMap.curators: node -> endpoint or "none"
  overrides,      \* curatorMap.overrides: node -> endpoint or "none"
  seeds,          \* curatorMap.seeds
  leader,         \* the processor's leader, NoLeader before the first update
  resSubscribers, \* clients with a registered subscription channel
  toSend,         \* subscribers the processor has yet to hand the leader to
  processor,      \* "select" | "sending" | "returned"
  cancelled,      \* the resolver's context
  updaters,       \* how often the updaters were started
  resClient,      \* client -> where its Build, watch and Close have got to
  held,           \* client -> update taken from subC and not yet applied
  resConn,        \* client -> leader its gRPC connection was given
  finder,         \* the leader updater
  curStatus,     \* status the cluster has of each node: "gone" | "idle" | "curator"
  ons,            \* WatchNodes' node set, as the watch events give it
  ns,             \* WatchNodes' node set, as the curator updater follows it
  nodesSeen,      \* the curator updater's nodes map: node -> endpoint
  batch,          \* a batch is done and its nodes update not yet received
  answers         \* inputs used so far

resolverVars == <<curators, overrides, seeds, leader, resSubscribers, toSend, processor,
                  cancelled, updaters, resClient, held, resConn, finder, curStatus, ons, ns, nodesSeen,
                  batch, answers>>

Reported(n) == <<"reported", n>>
Local(n) == <<"override", n>>
NoEndpoint == <<"none", "none">>
Endpoints == {Reported(n) : n \in CurNode} \cup {Local(n) : n \in CurNode}
Leader(n, e) == [nodeID |-> n, endpoint |-> e]
NoLeader == Leader("none", NoEndpoint)
Leaders == {Leader(n, e) : n \in CurNode, e \in Endpoints \cup {NoEndpoint}}

\* The leader updater: the candidates left to try, the one in use,
\* and the leader it is about to submit.
Finder(at, rest, via, found) ==
  [at |-> at, rest |-> rest, via |-> via, found |-> found]
NoOverrides == [n \in CurNode |-> NoEndpoint]
FinderOff == Finder("off", {}, NoEndpoint, NoLeader)

ResolverInit ==
  /\ curators = NoOverrides /\ overrides = NoOverrides /\ seeds = {}
  /\ leader = NoLeader /\ resSubscribers = {} /\ toSend = {}
  /\ processor = "select" /\ cancelled = "no" /\ updaters = 0
  /\ resClient = [c \in Client |-> "idle"]
  /\ held = [c \in Client |-> NoLeader] /\ resConn = [c \in Client |-> NoLeader]
  /\ finder = FinderOff
  /\ curStatus = [n \in CurNode |-> "gone"]
  /\ ons = EmptyNodeSet(CurNode, "gone") /\ ns = EmptyNodeSet(CurNode, "gone")
  /\ nodesSeen = NoOverrides
  /\ batch = "no" /\ answers = 0

Receives == processor = "select"
mapVars == <<curators, overrides, seeds>>
clientVars == <<resClient, held, resConn>>
resWatchVars == <<curStatus, ons, ns, nodesSeen, batch>>
\* The processor goes on to hand its leader to the subscribers of S.
SendTo(S) == /\ toSend' = S
             /\ processor' = IF S = {} THEN "select" ELSE "sending"

AddEndpoint(e) ==
  /\ Receives /\ e \notin seeds /\ answers < MaxAnswers
  /\ seeds' = seeds \cup {e}
  /\ answers' = answers + 1
  /\ UNCHANGED <<curators, overrides, leader, resSubscribers, toSend, processor, cancelled,
                 updaters, clientVars, finder, resWatchVars>>

AddOverride(n) ==
  /\ Receives /\ overrides[n] = NoEndpoint /\ answers < MaxAnswers
  /\ overrides' = [overrides EXCEPT ![n] = Local(n)]
  /\ answers' = answers + 1
  /\ UNCHANGED <<curators, seeds, leader, resSubscribers, toSend, processor, cancelled,
                 updaters, clientVars, finder, resWatchVars>>

\* Build: the dial options of the first connection start the updaters.
StartedFault == updaters + 1
Started == IF updaters = 0 THEN 1 ELSE updaters
DialOptionsSet(c) ==
  /\ resClient[c] = "idle" /\ Receives
  /\ updaters' = Started
  /\ finder' = IF updaters = 0 THEN [finder EXCEPT !.at = "retry"] ELSE finder
  /\ resClient' = [resClient EXCEPT ![c] = "options"]
  /\ UNCHANGED <<mapVars, leader, resSubscribers, toSend, processor, cancelled, held, resConn,
                 resWatchVars, answers>>

\* Build continues with the subscription, to which the processor at once
\* provides the leader it knows.
ProvidedFault(c) == {}
Provided(c) == IF leader = NoLeader THEN {} ELSE {c}
Subscribe(c) ==
  /\ resClient[c] = "options" /\ Receives
  /\ resClient' = [resClient EXCEPT ![c] = "watching"]
  /\ resSubscribers' = resSubscribers \cup {c}
  /\ SendTo(Provided(c))
  /\ UNCHANGED <<mapVars, leader, cancelled, updaters, held, resConn, finder, resWatchVars, answers>>

\* Build returns ErrResolverClosed.
BuildFails(c) ==
  /\ resClient[c] \in {"idle", "options"} /\ cancelled = "yes"
  /\ resClient' = [resClient EXCEPT ![c] = "failed"]
  /\ UNCHANGED <<mapVars, leader, resSubscribers, toSend, processor, cancelled, updaters, held,
                 resConn, finder, resWatchVars, answers>>

\* watch takes the update the processor is handing out, ...
TakeUpdate(c) ==
  /\ c \in toSend /\ resClient[c] \in {"watching", "closing"} /\ held[c] = NoLeader
  /\ held' = [held EXCEPT ![c] = leader]
  /\ SendTo(toSend \ {c})
  /\ UNCHANGED <<mapVars, leader, resSubscribers, cancelled, updaters, resClient, resConn, finder,
                 resWatchVars, answers>>

\* ... and passes it to its connection.
UpdateState(c) ==
  /\ held[c] # NoLeader
  /\ resConn' = [resConn EXCEPT ![c] = held[c]]
  /\ held' = [held EXCEPT ![c] = NoLeader]
  /\ UNCHANGED <<mapVars, leader, resSubscribers, toSend, processor, cancelled, updaters, resClient,
                 finder, resWatchVars, answers>>

\* Close is called from gRPC while watch runs on.
CloseClient(c) ==
  /\ resClient[c] = "watching"
  /\ resClient' = [resClient EXCEPT ![c] = "closing"]
  /\ UNCHANGED <<mapVars, leader, resSubscribers, toSend, processor, cancelled, updaters, held,
                 resConn, finder, resWatchVars, answers>>

Unsubscribe(c) ==
  /\ resClient[c] = "closing" /\ c \in resSubscribers /\ Receives
  /\ resSubscribers' = resSubscribers \ {c}
  /\ UNCHANGED <<mapVars, leader, toSend, processor, cancelled, updaters, clientVars, finder,
                 resWatchVars, answers>>

\* watch finds its channel closed, once it has applied what it held.
WatchEnds(c) ==
  /\ resClient[c] \in {"watching", "closing"} /\ c \notin resSubscribers /\ held[c] = NoLeader
  /\ resClient' = [resClient EXCEPT ![c] = "closed"]
  /\ UNCHANGED <<mapVars, leader, resSubscribers, toSend, processor, cancelled, updaters, held,
                 resConn, finder, resWatchVars, answers>>

Cancel ==
  /\ cancelled = "no" /\ cancelled' = "yes"
  /\ UNCHANGED <<mapVars, leader, resSubscribers, toSend, processor, updaters, clientVars, finder,
                 resWatchVars, answers>>

\* run returns and closes every subscription channel.
ClosedOnReturnFault == {}
ClosedOnReturn == resSubscribers
ProcessorReturns ==
  /\ cancelled = "yes" /\ Receives
  /\ processor' = "returned"
  /\ resSubscribers' = resSubscribers \ ClosedOnReturn
  /\ UNCHANGED <<mapVars, leader, toSend, cancelled, updaters, clientVars, finder, resWatchVars,
                 answers>>

\* candidates: the seeds and the curators, an overridden node by its override.
CandidatesFault == seeds \cup {curators[n] : n \in {m \in CurNode : curators[m] # NoEndpoint}}
Candidates ==
  seeds \cup {IF overrides[n] # NoEndpoint THEN overrides[n] ELSE curators[n] :
                n \in {m \in CurNode : curators[m] # NoEndpoint}}

\* A round of runLeaderUpdater; curatorMap() is answered by the processor only.
FindRound ==
  /\ finder.at = "retry" /\ Receives
  /\ finder' = [finder EXCEPT !.at = "next", !.rest = Candidates]
  /\ UNCHANGED <<mapVars, leader, resSubscribers, toSend, processor, cancelled, updaters,
                 clientVars, resWatchVars, answers>>

WatchLeaderVia ==
  /\ finder.at = "next"
  /\ \/ /\ finder.rest = {}
        /\ finder' = [finder EXCEPT !.at = IF cancelled = "yes" THEN "exited" ELSE "retry"]
     \/ \E e \in finder.rest :
          finder' = [finder EXCEPT !.at = "receiving", !.rest = @ \ {e}, !.via = e]
  /\ UNCHANGED <<mapVars, leader, resSubscribers, toSend, processor, cancelled, updaters,
                 clientVars, resWatchVars, answers>>

\* The dial, the call or the stream fails or ends.
ViaFails ==
  /\ finder.at = "receiving"
  /\ finder' = [finder EXCEPT !.at = "next", !.via = NoEndpoint]
  /\ UNCHANGED <<mapVars, leader, resSubscribers, toSend, processor, cancelled, updaters,
                 clientVars, resWatchVars, answers>>

\* leaderInfo of the curator asked: no leader, or a leader with or without a host.
LeaderReceived ==
  /\ finder.at = "receiving" /\ cancelled = "no" /\ answers < MaxAnswers
  /\ \E l \in {NoLeader} \cup {Leader(n, Reported(n)) : n \in CurNode}
            \cup {Leader(n, NoEndpoint) : n \in CurNode} :
       finder' = [finder EXCEPT !.at = "mapping", !.found = l]
  /\ answers' = answers + 1
  /\ UNCHANGED <<mapVars, leader, resSubscribers, toSend, processor, cancelled, updaters,
                 clientVars, resWatchVars>>

FindEndpoint ==
  /\ finder.at = "mapping" /\ Receives
  /\ finder' = IF finder.found = NoLeader
                 THEN [finder EXCEPT !.at = "next", !.via = NoEndpoint]
                 ELSE [finder EXCEPT !.at = "submit",
                         !.found.endpoint = IF @ = NoEndpoint
                                              THEN overrides[finder.found.nodeID] ELSE @]
  /\ UNCHANGED <<mapVars, leader, resSubscribers, toSend, processor, cancelled, updaters,
                 clientVars, resWatchVars, answers>>

LeaderUpdate ==
  /\ finder.at = "submit" /\ Receives
  /\ leader' = finder.found
  /\ SendTo(resSubscribers)
  /\ finder' = [finder EXCEPT !.at = "receiving", !.found = NoLeader]
  /\ UNCHANGED <<mapVars, resSubscribers, cancelled, updaters, clientVars, resWatchVars, answers>>

SubmitCancelled ==
  /\ finder.at = "submit" /\ cancelled = "yes"
  /\ finder' = [finder EXCEPT !.at = "next", !.via = NoEndpoint, !.found = NoLeader]
  /\ UNCHANGED <<mapVars, leader, resSubscribers, toSend, processor, cancelled, updaters,
                 clientVars, resWatchVars, answers>>

\* A node starts or stops running the curator, joins or leaves.
StatusChanges(n) ==
  /\ answers < MaxAnswers /\ answers' = answers + 1
  /\ \E v \in {"gone", "idle", "curator"} \ {curStatus[n]} : curStatus' = [curStatus EXCEPT ![n] = v]
  /\ UNCHANGED <<mapVars, leader, resSubscribers, toSend, processor, cancelled, updaters,
                 clientVars, finder, ons, ns, nodesSeen, batch>>

\* runCuratorUpdater: an event of the watch, and the calls into the follower.
CuratorFilter == [d \in {"gone", "idle", "curator"} |-> d = "curator"]
CuratorEquals == [a, b \in {"gone", "idle", "curator"} |-> a = b]
NodesFollowed ==
  /\ updaters > 0 /\ cancelled = "no" /\ batch = "no" /\ ons.nodes # curStatus
  /\ batch' = "yes"
  /\ LET differs == {n \in CurNode : ons.nodes[n] # curStatus[n]}
         tombstones == {n \in differs : curStatus[n] = "gone"} IN
       ons' = UpdateFromEvent(ons, [n \in differs \ tombstones |-> curStatus[n]], tombstones, "gone")
  /\ LET new == NewUpdated(ns, ons', "gone", CuratorFilter, CuratorEquals)
         deleted == Deleted(ns, ons', CuratorFilter) IN
       nodesSeen' = [n \in CurNode |-> IF n \in deleted THEN NoEndpoint
                                       ELSE IF n \in new THEN Reported(n) ELSE nodesSeen[n]]
  /\ ns' = Followed(ns, ons', "gone", CuratorFilter)
  /\ UNCHANGED <<mapVars, leader, resSubscribers, toSend, processor, cancelled, updaters,
                 clientVars, finder, curStatus, answers>>

\* The watch fails and is retried with a new map and new node sets.
WatchRetried ==
  /\ updaters > 0 /\ cancelled = "no" /\ answers < MaxAnswers /\ answers' = answers + 1
  /\ ons.names # {} /\ batch = "no"
  /\ ons' = EmptyNodeSet(CurNode, "gone") /\ ns' = EmptyNodeSet(CurNode, "gone")
  /\ nodesSeen' = NoOverrides
  /\ UNCHANGED <<mapVars, leader, resSubscribers, toSend, processor, cancelled, updaters,
                 clientVars, finder, curStatus, batch>>

\* OnBatchDone: the nodes update.  A node of the batch is stored, with its
\* override if it has one; a node that is not in the batch is removed.
NodesUpdate ==
  /\ batch = "yes" /\ Receives
  /\ batch' = "no"
  /\ curators' = [n \in CurNode |->
                    IF nodesSeen[n] = NoEndpoint THEN NoEndpoint
                    ELSE IF overrides[n] # NoEndpoint THEN overrides[n] ELSE nodesSeen[n]]
  /\ UNCHANGED <<overrides, seeds, leader, resSubscribers, toSend, processor, cancelled, updaters,
                 clientVars, finder, curStatus, ons, ns, nodesSeen, answers>>

ResolverNext ==
  \/ \E n \in CurNode : AddEndpoint(Reported(n)) \/ AddOverride(n) \/ StatusChanges(n)
  \/ \E c \in Client : \/ DialOptionsSet(c) \/ Subscribe(c) \/ BuildFails(c) \/ TakeUpdate(c)
                       \/ UpdateState(c) \/ CloseClient(c) \/ Unsubscribe(c) \/ WatchEnds(c)
  \/ Cancel \/ ProcessorReturns
  \/ FindRound \/ WatchLeaderVia \/ ViaFails \/ LeaderReceived \/ FindEndpoint
  \/ LeaderUpdate \/ SubmitCancelled \/ NodesFollowed \/ WatchRetried \/ NodesUpdate

ResolverTypeOK ==
  /\ curators \in [CurNode -> Endpoints \cup {NoEndpoint}]
  /\ overrides \in [CurNode -> Endpoints \cup {NoEndpoint}]
  /\ seeds \subseteq Endpoints
  /\ leader \in Leaders \cup {NoLeader}
  /\ toSend \subseteq resSubscribers /\ resSubscribers \subseteq Client
  /\ processor \in {"select", "sending", "returned"}
  /\ updaters \in Nat
  /\ held \in [Client -> Leaders \cup {NoLeader}] /\ resConn \in [Client -> Leaders \cup {NoLeader}]

\* What a connection was told, or is about to be told.
Told(c) == IF held[c] # NoLeader THEN held[c] ELSE resConn[c]

\* Whenever the processor is back at its select, every subscribed connection
\* has been told exactly the leader the processor holds, however its
\* subscription, leader updates and closes interleaved; the updaters were
\* started at most once for any number of connections; nobody is left waiting
\* on a subscription channel the returned processor will never close; and the
\* leader is never sought at the reported address of a node that has an
\* override, except where that address was given as a seed.
ResolverSound ==
  /\ processor = "select" => \A c \in resSubscribers : Told(c) = leader
  /\ updaters <= 1
  /\ processor = "returned" => resSubscribers = {}
  /\ \A n \in CurNode : (overrides[n] # NoEndpoint /\ Reported(n) \notin seeds)
                          => Reported(n) \notin Candidates

\* A Follower's New "will be called when a node has appeared from the point of
\* view of the Follower (i.e. started existing on the cluster and then also
\* passed the Filter function)": a node that runs a curator is in the map the
\* updater built from the calls. It does not hold: a node that was deleted
\* keeps its entry in the follower's map (Followed) and is not new again.
CuratorsFollowed ==
  \A n \in ons.names : CuratorFilter[ons.nodes[n]] => nodesSeen[n] # NoEndpoint
=============================================================================
