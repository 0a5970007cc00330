------------------------------ MODULE NodeWatch ------------------------------
(***************************************************************************)
(* WatchNodes (metropolis/node/core/curator/watcher/watch_nodes.go): the   *)
(* node set rebuilt from the Curator's watch events and the follower's     *)
(* filtered view of it, with the calls into the follower.  A node set is a *)
(* function from node to data, absent where there is none, and the list of *)
(* names the set holds beside it.                                          *)
(***************************************************************************)
EXTENDS Naturals, FiniteSets

\* A nodeSet: nodes is a map, names the nodeNames kept beside it.  Their order
\* is the order of the calls only.
NodeSet(nodeset, names) == [nodes |-> nodeset, names |-> names]
EmptyNodeSet(Ids, absent) == NodeSet([n \in Ids |-> absent], {})

\* updateFromEvent: nodes are replaced, then the tombstoned ones deleted.
UpdateFromEvent(nset, differs, tombstones, absent) ==
  NodeSet([n \in DOMAIN nset.nodes |->
             IF n \in tombstones THEN absent
             ELSE IF n \in DOMAIN differs THEN differs[n] ELSE nset.nodes[n]],
          (nset.names \cup DOMAIN differs) \ tombstones)

\* follow: the nodes of origin that pass the filter.  A follower's Filter and
\* Equals are Boolean functions on node data.
Seen(orig, filter) == {n \in orig.names : filter[orig.nodes[n]]}

\* New and Updated calls: of the nodes seen, those the map does not know and
\* those that differ from what it knows.
NewUpdated(nset, orig, absent, filter, equals) ==
  {n \in Seen(orig, filter) :
     \/ nset.nodes[n] = absent
     \/ ~equals[nset.nodes[n], orig.nodes[n]]}

\* Deleted calls: the names that are not seen any more, with their last data.
Deleted(nset, orig, filter) == nset.names \ Seen(orig, filter)

\* The follower's node set after the batch.  A name is added for a new node
\* only; a deleted node loses its name and keeps its entry in the map.
Followed(nset, orig, absent, filter) ==
  LET got == Seen(orig, filter) IN
  NodeSet([n \in DOMAIN nset.nodes |-> IF n \in got THEN orig.nodes[n] ELSE nset.nodes[n]],
          (nset.names \cup {n \in got : nset.nodes[n] = absent}) \cap got)
=============================================================================
