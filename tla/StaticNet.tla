----------------------------- MODULE StaticNet ------------------------------
(***************************************************************************)
(* Static network configuration and the dependency order it is applied in. *)
(***************************************************************************)
EXTENDS Naturals, Sequences, FiniteSets, SequencesExt

(***************************************************************************)
(* go/algorithm/toposort: a dependency graph and its two orders.  A graph  *)
(* is [nodes, added, edges] with edges[n] the nodes n points to.  Nodes    *)
(* are numbers, compared as such.                                          *)
(***************************************************************************)

CONSTANTS
  TopoNode,      \* nodes of the graphs explored on their own
  MaxTopoEdges   \* bound on their edges

VARIABLE topoGraph  \* a graph under construction

EmptyGraph == [nodes |-> {}, added |-> {}, edges |-> {}]

EdgesOf(g, n) == {e[2] : e \in {f \in g.edges : f[1] = n}}

AddNode(g, n) == [g EXCEPT !.nodes = @ \cup {n}, !.added = @ \cup {n}]

\* AddEdge: nodes that do not exist are added implicitly.
AddEdge(g, from, to) ==
  [g EXCEPT !.nodes = @ \cup {from, to},
            !.edges = @ \cup {<<from, to>>}]

ImplicitNodeReferences(g) ==
  [n \in {m \in g.nodes : m \notin g.added} |->
     EdgesOf(g, n) \cup {m \in g.nodes : n \in EdgesOf(g, m)}]

Unvisited(g) == [unmarked |-> g.nodes, stack |-> {}, solution |-> <<>>, cycle |-> FALSE]

Entered(s, n) == [s EXCEPT !.stack = @ \cup {n}]

Left(s, n) ==
  IF s.cycle THEN s
  ELSE [s EXCEPT !.stack = @ \ {n}, !.unmarked = @ \ {n}, !.solution = Append(@, n)]

(* TopologicalOrder: a map is visited in any order, so visit has a set of  *)
(* outcomes.                                                               *)

\* Fault: a node that was visited already is visited again.
AlreadyVisitedFault(s, n) == FALSE

AlreadyVisited(s, n) == n \notin s.unmarked

RECURSIVE VisitAny(_, _, _)
VisitAny(g, todo, s) ==
  IF s.cycle \/ todo = {} THEN {s}
  ELSE UNION {UNION {VisitAny(g, todo \ {n}, t) :
                t \in CASE AlreadyVisited(s, n) -> {s}
                        [] ~AlreadyVisited(s, n) /\ n \in s.stack -> {[s EXCEPT !.cycle = TRUE]}
                        [] OTHER -> {Left(t, n) : t \in VisitAny(g, EdgesOf(g, n), Entered(s, n))}}
              : n \in todo}

TopologicalOrder(g) == VisitAny(g, g.nodes, Unvisited(g))

(* DetTopologicalOrder: the unmarked nodes are listed and sorted first and *)
(* then all visited, those marked meanwhile included.                      *)
RECURSIVE VisitSorted(_, _, _)
VisitSorted(g, todo, s) ==
  IF s.cycle \/ todo = <<>> THEN s
  ELSE LET n == Head(todo) IN
       IF n \in s.stack THEN [s EXCEPT !.cycle = TRUE]
       ELSE VisitSorted(g, Tail(todo),
              Left(VisitSorted(g, SetToSortSeq(EdgesOf(g, n) \cap s.unmarked, <), Entered(s, n)), n))

DetTopologicalOrder(g) ==
  VisitSorted(g, SetToSortSeq(g.nodes, <), Unvisited(g))

-----------------------------------------------------------------------------
TopoInit == topoGraph = EmptyGraph

TopoNext ==
  \/ \E n \in TopoNode : topoGraph' = AddNode(topoGraph, n)
  \/ \E m, n \in TopoNode :
       /\ Cardinality(topoGraph.edges) < MaxTopoEdges
       /\ topoGraph' = AddEdge(topoGraph, m, n)

-----------------------------------------------------------------------------
\* Nodes reachable from n along at least one edge.
RECURSIVE Reach(_, _)
Reach(g, from) ==
  LET next == from \cup UNION {EdgesOf(g, n) : n \in from}
  IN IF next = from THEN from ELSE Reach(g, next)

Cyclic(g) == \E n \in g.nodes : n \in Reach(g, EdgesOf(g, n))

\* Every node an entry points to is listed before it.
DependenciesFirst(g, order) ==
  \A i \in DOMAIN order : \A m \in EdgesOf(g, order[i]) : \E j \in 1 .. i - 1 : order[j] = m

(* Whatever order the maps are visited in, TopologicalOrder lists every    *)
(* node once, after all it points to, and fails exactly for a graph with a *)
(* cycle; so does DetTopologicalOrder, but that it may list a node again;  *)
(* and ImplicitNodeReferences is empty exactly when every node was added.  *)
TopoSound ==
  LET g == topoGraph
      det == DetTopologicalOrder(g)
  IN /\ \A s \in TopologicalOrder(g) :
          /\ s.cycle = Cyclic(g)
          /\ ~s.cycle => /\ Range(s.solution) = g.nodes /\ Len(s.solution) = Cardinality(g.nodes)
                         /\ DependenciesFirst(g, s.solution)
     /\ det.cycle = Cyclic(g)
     /\ ~det.cycle => Range(det.solution) = g.nodes /\ DependenciesFirst(g, det.solution)
     /\ (DOMAIN ImplicitNodeReferences(g) = {}) = (g.nodes = g.added)

-----------------------------------------------------------------------------
(***************************************************************************)
(* metropolis/node/core/network/static.go: runStaticConfig brings the      *)
(* interfaces of a static network configuration up in dependency order,    *)
(* takes them down again when a step fails, and is run again by its        *)
(* supervisor.  The graph that orders the interfaces is the one above.     *)
(***************************************************************************)

CONSTANTS
  NetConfigs,       \* configurations: sequences of interfaces
  HostDevice,       \* network devices of the host
  MaxStaticFaults,  \* bound on netlink calls that fail on their own
  MaxStaticRuns     \* bound on runs of runStaticConfig

VARIABLES
  netConfig,    \* Service.StaticConfig.Interface
  staticRun,    \* what runStaticConfig does: "down", "configure", "undo", "done"
  ifaceOrder,   \* getSortedIfaces' result not yet configured
  undo,         \* the deferred teardown functions, last one first
  newLinks,     \* links made by LinkAdd: a set of [name, master, parent]
  devLinks,     \* host device -> [name, up, master]
  linkAddrs,    \* addresses in the kernel: a set of <<link name, address>>
  dhcpOn,       \* interfaces with a running DHCP client
  netStatus,    \* <<>> or <<Status.ExternalAddress>>, <<0>> for nil
  staticFaults, \* failed calls so far
  staticRuns,
  undoFaults    \* failed teardowns so far (history)

staticVars == <<netConfig, staticRun, ifaceOrder, undo, newLinks, devLinks, linkAddrs, dhcpOn,
                netStatus, staticFaults, staticRuns, undoFaults>>

\* An interface is [name, type, members, parent, device, auto4, addrs]; names
\* are numbers in strings.Compare's order, addresses positive for IPv4.
Iface(n) == LET k == CHOOSE j \in DOMAIN netConfig : netConfig[j].name = n IN netConfig[k]

-----------------------------------------------------------------------------
(* getSortedIfaces: a bond comes before its members, a VLAN after its      *)
(* parent; a reference to an interface that is not configured is an error. *)

\* Fault: the edge between a bond and its members points the other way.
BondEdgeFault(g, bond, member) == AddEdge(g, bond, member)

BondEdge(g, bond, member) == AddEdge(g, member, bond)

DepGraph ==
  LET step(g, i) ==
        LET h == AddNode(g, i.name) IN
        CASE i.type = "bond" -> FoldLeft(LAMBDA x, m : BondEdge(x, i.name, m), h, i.members)
          [] i.type = "vlan" -> AddEdge(h, i.name, i.parent)
          [] OTHER -> h
  IN FoldLeft(step, EmptyGraph, netConfig)

SortedIfaces == DetTopologicalOrder(DepGraph)

SortFails == DOMAIN ImplicitNodeReferences(DepGraph) # {} \/ SortedIfaces.cycle

-----------------------------------------------------------------------------
StaticInit ==
  /\ netConfig \in NetConfigs
  /\ staticRun = "down"
  /\ ifaceOrder = <<>> /\ undo = <<>>
  /\ newLinks = {} /\ devLinks = [d \in HostDevice |-> [name |-> 0, up |-> "no", master |-> 0]]
  /\ linkAddrs = {} /\ dhcpOn = {} /\ netStatus = <<>>
  /\ staticFaults = 0 /\ staticRuns = 0 /\ undoFaults = 0

StaticStart ==
  /\ staticRun = "down"
  /\ staticRuns < MaxStaticRuns
  /\ staticRuns' = staticRuns + 1
  /\ IF SortFails THEN staticRun' = "undo" /\ ifaceOrder' = <<>>
     ELSE staticRun' = "configure" /\ ifaceOrder' = SortedIfaces.solution
  /\ UNCHANGED <<netConfig, undo, newLinks, devLinks, linkAddrs, dhcpOn, netStatus, staticFaults,
                 undoFaults>>

LinkNames == {l.name : l \in newLinks} \cup {devLinks[d].name : d \in HostDevice}

\* The bond that names the interface a member, 0 for none (nameParentMap).
MasterOf(n) ==
  LET bonds == {k \in DOMAIN netConfig : netConfig[k].type = "bond" /\ n \in Range(netConfig[k].members)}
  IN IF bonds = {} THEN 0 ELSE netConfig[CHOOSE k \in bonds : TRUE].name

\* What the kernel and the spec refuse: a device that matches no host device,
\* a name that is taken, an address that is there already.
LinkRefused(i) ==
  IF i.type = "device"
  THEN \A d \in HostDevice : i.device = d => devLinks[d].name # i.name /\ i.name \in LinkNames
  ELSE i.name \in LinkNames

Refused(i) == LinkRefused(i) \/ \E a \in Range(i.addrs) : <<i.name, a>> \in linkAddrs

\* LinkAdd or LinkModify.
Linked(i) ==
  LET master == MasterOf(i.name) IN
  IF i.type = "device"
  THEN /\ devLinks' = [devLinks EXCEPT ![i.device] =
                         [name |-> i.name, up |-> IF master = 0 THEN "yes" ELSE @.up, master |-> master]]
       /\ undo' = <<[op |-> "down", link |-> i.device]>> \o undo
       /\ UNCHANGED newLinks
  ELSE /\ newLinks' = newLinks \cup {[name |-> i.name, master |-> master, parent |-> i.parent]}
       /\ undo' = <<[op |-> "delete", link |-> i.name]>> \o undo
       /\ UNCHANGED devLinks

\* One turn of the loop over the interfaces.
ConfigureIface ==
  LET i == Iface(Head(ifaceOrder)) IN
  /\ staticRun = "configure" /\ ifaceOrder # <<>>
  /\ ~Refused(i)
  /\ Linked(i)
  /\ ifaceOrder' = Tail(ifaceOrder)
  /\ linkAddrs' = linkAddrs \cup {<<i.name, a>> : a \in Range(i.addrs)}
  /\ dhcpOn' = IF i.auto4 = "yes" THEN dhcpOn \cup {i.name} ELSE dhcpOn
  /\ UNCHANGED <<netConfig, staticRun, netStatus, staticFaults, staticRuns, undoFaults>>

(* A turn that fails, in the link's setup or after it, with some of the    *)
(* addresses set.  A netlink call may also fail on its own.                *)
IfaceFails ==
  LET i == Iface(Head(ifaceOrder)) IN
  /\ staticRun = "configure" /\ ifaceOrder # <<>>
  /\ staticRun' = "undo"
  /\ IF Refused(i) THEN UNCHANGED staticFaults
     ELSE /\ staticFaults < MaxStaticFaults
          /\ staticFaults' = staticFaults + 1
  /\ \/ /\ LinkRefused(i) \/ ~Refused(i)
        /\ UNCHANGED <<newLinks, devLinks, undo, linkAddrs>>
     \/ /\ ~LinkRefused(i)
        /\ Linked(i)
        /\ linkAddrs' = linkAddrs \cup
             {<<i.name, i.addrs[k]>> : k \in {j \in DOMAIN i.addrs :
                Refused(i) => \A m \in 1 .. j : <<i.name, i.addrs[m]>> \notin linkAddrs}}
  /\ UNCHANGED <<netConfig, ifaceOrder, dhcpOn, netStatus, staticRuns, undoFaults>>

\* The first IPv4 address of an interface, in the configuration's order.
SelectedAddr ==
  LET with4 == {k \in DOMAIN netConfig : \E a \in Range(netConfig[k].addrs) : a > 0}
      of == netConfig[CHOOSE k \in with4 : \A j \in with4 : k <= j].addrs
  IN IF with4 = {} THEN 0 ELSE SelectSeq(of, LAMBDA a : a > 0)[1]

HasAutoconfig == \E k \in DOMAIN netConfig : netConfig[k].auto4 = "yes"

StaticDone ==
  /\ staticRun = "configure" /\ ifaceOrder = <<>>
  /\ staticRun' = "done"
  /\ netStatus' = IF HasAutoconfig THEN netStatus ELSE <<SelectedAddr>>
  /\ undo' = <<>>
  /\ UNCHANGED <<netConfig, ifaceOrder, newLinks, devLinks, linkAddrs, dhcpOn, staticFaults,
                 staticRuns, undoFaults>>

\* Deleting a link frees its members and deletes the VLANs on it.
LinkDel(name) ==
  LET gone == {name} \cup {l.name : l \in {m \in newLinks : m.parent = name}} IN
  /\ newLinks' = {[l EXCEPT !.master = IF @ \in gone THEN 0 ELSE @] :
                    l \in {m \in newLinks : m.name \notin gone}}
  /\ devLinks' = [d \in HostDevice |->
                    [devLinks[d] EXCEPT !.master = IF @ \in gone THEN 0 ELSE @]]
  /\ linkAddrs' = {x \in linkAddrs : x[1] \notin gone}

\* Fault: a link that was added is set down, not deleted.
TeardownFault(u) ==
  /\ devLinks' = IF u.op = "down" THEN [devLinks EXCEPT ![u.link].up = "no"] ELSE devLinks
  /\ UNCHANGED <<newLinks, linkAddrs>>

Teardown(u) ==
  IF u.op = "down"
  THEN devLinks' = [devLinks EXCEPT ![u.link].up = "no"] /\ UNCHANGED <<newLinks, linkAddrs>>
  ELSE LinkDel(u.link)

\* A deferred teardown; one that fails is logged.
StaticUndo ==
  /\ staticRun = "undo" /\ undo # <<>>
  /\ undo' = Tail(undo)
  /\ \/ Teardown(Head(undo)) /\ UNCHANGED <<staticFaults, undoFaults>>
     \/ /\ staticFaults < MaxStaticFaults
        /\ staticFaults' = staticFaults + 1 /\ undoFaults' = undoFaults + 1
        /\ UNCHANGED <<newLinks, devLinks, linkAddrs>>
  /\ UNCHANGED <<netConfig, staticRun, ifaceOrder, dhcpOn, netStatus, staticRuns>>

\* runStaticConfig returned its error; the supervisor stops its DHCP clients.
StaticFailed ==
  /\ staticRun = "undo" /\ undo = <<>>
  /\ staticRun' = "down"
  /\ dhcpOn' = {}
  /\ ifaceOrder' = <<>>
  /\ UNCHANGED <<netConfig, undo, newLinks, devLinks, linkAddrs, netStatus, staticFaults, staticRuns,
                 undoFaults>>

StaticNext ==
  \/ StaticStart \/ ConfigureIface \/ IfaceFails \/ StaticDone \/ StaticUndo \/ StaticFailed

StaticSpec == StaticInit /\ [][StaticNext]_staticVars

-----------------------------------------------------------------------------
StaticTypeOK ==
  /\ netConfig \in NetConfigs
  /\ staticRun \in {"down", "configure", "undo", "done"}
  /\ staticFaults \in 0 .. MaxStaticFaults /\ staticRuns \in 0 .. MaxStaticRuns
  /\ undoFaults \in 0 .. staticFaults
  /\ \A d \in HostDevice : devLinks[d].up \in {"yes", "no"}

LinkOf(n) ==
  IF Iface(n).type = "device" THEN devLinks[Iface(n).device]
  ELSE CHOOSE l \in newLinks : l.name = n

(* A configuration that is up has every interface as configured: members   *)
(* below their bond, VLANs on their parent, all addresses set, every other *)
(* device up, and an external address unless DHCP provides it; each link   *)
(* is set up after what it needs; and a run that failed, unless a teardown *)
(* failed too, leaves no link of its own and no device up.                 *)
StaticSound ==
  /\ staticRun = "configure" /\ ~SortFails =>
       LET order == SortedIfaces.solution
           earlier(i, n) == \E j \in 1 .. i - 1 : order[j] = n
       IN /\ Range(order) = {netConfig[k].name : k \in DOMAIN netConfig}
          /\ \A i \in DOMAIN order :
               /\ MasterOf(order[i]) # 0 => earlier(i, MasterOf(order[i]))
               /\ Iface(order[i]).type = "vlan" => earlier(i, Iface(order[i]).parent)
  /\ staticRun = "done" =>
       /\ \A k \in DOMAIN netConfig :
            LET i == netConfig[k] IN
            /\ i.name \in LinkNames
            /\ LinkOf(i.name).name = i.name
            /\ LinkOf(i.name).master = MasterOf(i.name)
            /\ i.type = "vlan" => i.parent \in LinkNames
            /\ i.type = "device" /\ MasterOf(i.name) = 0 => LinkOf(i.name).up = "yes"
            /\ \A a \in Range(i.addrs) : <<i.name, a>> \in linkAddrs
            /\ (i.auto4 = "yes") = (i.name \in dhcpOn)
       /\ HasAutoconfig \/ netStatus = <<SelectedAddr>>
  /\ staticRun = "down" /\ undoFaults = 0 =>
       newLinks = {} /\ \A d \in HostDevice : devLinks[d].up = "no"

(* getSortedIfaces "returns a list of all interfaces to be configured in   *)
(* an order which is valid to configure them in": a configuration whose    *)
(* references are sound and which has no cycle fails only when a call      *)
(* failed on its own. It does not hold: DetTopologicalOrder may list an    *)
(* interface again, whose link or address then exists.                     *)
ValidConfigApplies ==
  staticRun = "undo" /\ ~SortFails
    /\ (\A k \in DOMAIN netConfig : netConfig[k].type = "device" => netConfig[k].device \in HostDevice)
    => staticFaults > 0
=============================================================================
