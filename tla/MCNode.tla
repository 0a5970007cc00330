------------------------------- MODULE MCNode -------------------------------
(***************************************************************************)
(* The components that run on one node, one of them at a time: each        *)
(* behaviour belongs to one part, and the others keep their initial state. *)
(***************************************************************************)
EXTENDS LogTree, LogBuffer, Dhcp4c, StaticNet, Update, EfiBoot, DiskImage, Crypt, Kmod, Proxies,
        Resolver, ClusterPeers

CONSTANTS p1, p2, r1, r2, c1, c2, NodeParts

VARIABLE part

nodeVars == <<part, ltVars, lineVars, klogVars, dhcpVars, leaseVars, topoGraph, staticVars,
              updateVars, efiVars, bootVars, gptVars, fatVars, qcowVars, cryptVars, verityVars,
              kmodVars, socksVars, resolverVars, lbVars, netVars, hostVars>>

\* Logging: two DNs of which one is above the other, and a third.
LogDNs == {<<"a">>, <<"a", "b">>, <<"c">>}
LogPublishers == {p1, p2}
LogReaders == {r1, r2}
LogOptions == {[dn |-> <<"a">>, children |-> "no", only |-> "any", severity |-> ""]}
ResolverClients == {c1, c2}

\* Two publishers and two readers, raw entries only.
StreamNext ==
  /\ LogTreeNext /\ logged' <= 2
  /\ \A e \in 1..logged' : payload'[e] = "raw" /\ origin'[e] # <<"a", "b">>
\* One publisher, and raw entries only at the third DN.
BacklogNext ==
  \/ notify(p1)
  \/ \E d \in LogDN, s \in Payloads : (d = <<"c">> => s = "raw") /\ Log(p1, d, s)

\* Two hours before midnight at the start and at the end of a leap year, of the
\* year after it, and on the 29th of February.
KlogStarts == {YearStart[2024] - 23, YearStart[2024] + 24 * 58 + 23, YearStart[2025] - 22,
               YearStart[2026] - 1}

LeaseTerm(lease, t1, t2) == [lease |-> lease, t1 |-> t1, t2 |-> t2]
LeaseTerms == {LeaseTerm(4, 0, 0), LeaseTerm(4, 1, 6), LeaseTerm(2, 3, 0), LeaseTerm(3, 0, 1)}

\* Addresses are 0..15; the host has 6 in a network of 4.
LeaseRoute(ip, ones, router) == [ip |-> ip, ones |-> ones, router |-> router]
LeaseRoutes == {LeaseRoute(0, 0, 5), LeaseRoute(8, 2, 5), LeaseRoute(8, 2, 9),
                LeaseRoute(12, 2, 0), LeaseRoute(4, 2, 0), LeaseRoute(9, -1, 5), LeaseRoute(14, 3, 9)}
DhcpLease(classless, legacy, routers, dns) ==
  [ip |-> 6, ones |-> 2, classless |-> classless, legacy |-> legacy, routers |-> routers, dns |-> dns]
DhcpLeases ==
  {DhcpLease(<<s>>, <<8, 5>>, <<5>>, <<5>>) : s \in UNION {[1..n -> LeaseRoutes] : n \in 1..2}}
  \cup {DhcpLease(<<>>, g, r, <<9, 9, 15, 5>>) :
          g \in {<<>>, <<0, 5, 9, 5, 8>>, <<12, 5>>}, r \in {<<>>, <<15, 5, 7>>, <<9>>}}

\* Static configurations: single, bonds, VLANs, a cycle, a dangling reference
\* and a device that is not there.
DeviceIface(name, device, auto, addrs) ==
  [name |-> name, type |-> "device", members |-> <<>>, parent |-> 0, device |-> device,
   auto4 |-> auto, addrs |-> addrs]
BondIface(name, members, auto, addrs) ==
  [name |-> name, type |-> "bond", members |-> members, parent |-> 0, device |-> "none",
   auto4 |-> auto, addrs |-> addrs]
VlanIface(name, parent, auto, addrs) ==
  [name |-> name, type |-> "vlan", members |-> <<>>, parent |-> parent, device |-> "none",
   auto4 |-> auto, addrs |-> addrs]
StaticConfigs == {
  <<DeviceIface(1, "d1", "no", <<10>>)>>,
  <<BondIface(1, <<2, 3>>, "no", <<>>), DeviceIface(2, "d1", "no", <<>>),
    DeviceIface(3, "d2", "no", <<>>), VlanIface(4, 1, "no", <<-6, 10, 11>>)>>,
  <<DeviceIface(1, "d1", "no", <<>>), BondIface(2, <<1>>, "yes", <<>>)>>,
  <<VlanIface(2, 1, "no", <<12>>), DeviceIface(1, "d2", "yes", <<13>>),
    DeviceIface(3, "d1", "no", <<>>)>>,
  <<VlanIface(1, 2, "no", <<>>), VlanIface(2, 1, "no", <<>>)>>,
  <<BondIface(1, <<5>>, "no", <<>>)>>,
  <<DeviceIface(1, "d9", "no", <<>>)>> }

\* Kernel parameters: a letter, s for a space, q for a quote, and the marks.
BootStrings == {<<>>, <<"a">>, <<"-", "-">>, <<"a", "s", "b">>, <<"s">>, <<"=">>, <<"a", "=">>,
                <<"q", "a">>, <<"a", "q">>, <<"a", "s">>}
BootPairs == {<<>>} \cup {<<p>> : p \in BootStrings \X BootStrings}
             \cup {<<p, q>> : p \in {<<>>, <<"a">>, <<"-", "-">>, <<"a", "s", "b">>} \X BootStrings,
                              q \in BootStrings \X {<<>>, <<"a">>, <<"q", "a">>}}
BootRemains == {<<>>, <<"s", "a", "q", "=">>, <<"-", "-", "s", "a">>}

FatName(key, valid, base, length) == [key |-> key, valid |-> valid, base |-> base, length |-> length]
FatNames == {FatName(<<"EFI", 0>>, "yes", "efi", 3), FatName(<<"EFI", 0>>, "yes", "EFI", 3),
             FatName(<<"LONG", 0>>, "yes", "LONG", 8), FatName(<<"long1", 0>>, "no", "LONG", 12)}

DiskDevice(name, table) ==
  [name |-> name, kind |-> "disk", prefixes |-> {name}, disk |-> name, num |-> 0, table |-> table]
PartDevice(name, d, num) ==
  [name |-> name, kind |-> "partition", prefixes |-> {d}, disk |-> d, num |-> num, table |-> <<>>]
TableEntry(type, partId) == [type |-> type, id |-> partId]
Layouts == {
  <<DiskDevice("sda", <<TableEntry("esp", 1), TableEntry("system-a", 2), TableEntry("data", 3)>>),
    PartDevice("sda1", "sda", 1), PartDevice("sda2", "sda", 2), PartDevice("sda3", "sda", 3)>>,
  <<DiskDevice("sda", <<TableEntry("esp", 4), TableEntry("other", 5), TableEntry("data", 6)>>),
    PartDevice("sda1", "sda", 1), PartDevice("sda2", "sda", 2), PartDevice("sda3", "sda", 3),
    DiskDevice("sdb", <<TableEntry("esp", 1), TableEntry("data", 3)>>),
    PartDevice("sdb1", "sdb", 1), PartDevice("sdb2", "sdb", 2)>>,
  <<DiskDevice("sda", <<TableEntry("data", 3), TableEntry("esp", 1), TableEntry("data", 7)>>),
    PartDevice("sda1", "sda", 1), PartDevice("sda2", "sda", 2), PartDevice("sda3", "sda", 3),
    DiskDevice("sr0", <<>>)>> }

\* Aliases over the bytes 97 and 98, and two sets of modules.
Alias == {<<>>, <<97>>, <<97, 98>>, <<97, 98, 98>>, <<97, Star>>, <<97, Star, Star, 98>>,
          <<97, 98, Star, 97>>, <<Open, 97, Dash, 98, Closing, 98>>, <<Open, 98, Dash, 97, Closing>>,
          <<97, Open, 97>>, <<Escape>>, <<Question, 98>>, <<Escape, Star, 97>>, <<Star, 98>>,
          <<97, Question, 98>>}
Needles == UNION {[1..n -> {97, 98, Star}] : n \in 0..2} \cup [1..3 -> {97, 98}]
ModuleInfo(name, path, depends) == [name |-> name, path |-> path, depends |-> depends]
Modules == {
  <<ModuleInfo("m1", TRUE, <<>>), ModuleInfo("m2", TRUE, <<"m1">>),
    ModuleInfo("m3", TRUE, <<"m2", "m4">>), ModuleInfo("m4", FALSE, <<>>)>>,
  <<ModuleInfo("m1", TRUE, <<>>), ModuleInfo("m2", TRUE, <<"m3">>),
    ModuleInfo("m3", TRUE, <<"m0">>), ModuleInfo("m4", TRUE, <<"m3", "m1">>)>> }
BuiltinTokens == UNION {[1..n -> {"m1", "m2"} \X {"v1", "v2"}] : n \in 0..4}

-----------------------------------------------------------------------------
\* Where a component may start in several states, it has one of them in the
\* parts of the others.
Fixed(p, v, S) == IF part = p THEN TRUE ELSE v = CHOOSE x \in S : TRUE

NodeInit ==
  /\ part \in NodeParts
  /\ LogTreeInit /\ LogBufferInit
  /\ Fixed("klog", clock, ClockStart) /\ KlogInit
  /\ DhcpInit /\ NetLeaseInit /\ TopoInit
  /\ Fixed("static", netConfig, NetConfigs) /\ StaticInit
  /\ UpdateInit
  /\ Fixed("efi", bootEntry, {[i \in Index |-> "none"]}) /\ Fixed("efi", bootOrder, {<<>>}) /\ EfiInit
  /\ Fixed("bootparam", bootIn, {<<<<>>, <<>>>>}) /\ BootParamInit
  /\ GptInit
  /\ Fixed("fat", option, BlockCounts) /\ FatInit
  /\ Fixed("qcow", imageSize, ImageSizes) /\ QcowInit
  /\ Fixed("crypt", layout, DiskLayouts) /\ Fixed("crypt", loaderId, {0}) /\ CryptInit
  /\ Fixed("verity", blockUnits, VerityBlocks) /\ Fixed("verity", writeSb, {"no"}) /\ VerityInit
  /\ Fixed("kmod", infos, KmodInfos) /\ KmodInit
  /\ SocksInit /\ ResolverInit /\ LbInit /\ NetInit /\ HostInit

\* What a part leaves alone comes first: it is the same for all its steps.
Untouched(p, vars) == IF part \in p THEN TRUE ELSE UNCHANGED vars

NodeNext ==
  /\ UNCHANGED part
  /\ Untouched({"stream", "backlog"}, ltVars)
  /\ Untouched({"buffer"}, lineVars)
  /\ Untouched({"klog"}, klogVars)
  /\ Untouched({"dhcp"}, dhcpVars)
  /\ Untouched({"lease"}, leaseVars)
  /\ Untouched({"topo"}, topoGraph)
  /\ Untouched({"static"}, staticVars)
  /\ Untouched({"update"}, updateVars)
  /\ Untouched({"efi"}, efiVars)
  /\ Untouched({"bootparam"}, bootVars)
  /\ Untouched({"gpt"}, gptVars)
  /\ Untouched({"fat"}, fatVars)
  /\ Untouched({"qcow"}, qcowVars)
  /\ Untouched({"crypt"}, cryptVars)
  /\ Untouched({"verity"}, verityVars)
  /\ Untouched({"kmod"}, kmodVars)
  /\ Untouched({"socks"}, socksVars)
  /\ Untouched({"resolver"}, resolverVars)
  /\ Untouched({"balancer"}, lbVars)
  /\ Untouched({"mesh"}, netVars)
  /\ Untouched({"hosts"}, hostVars)
  /\ CASE part = "stream" -> StreamNext
       [] part = "backlog" -> BacklogNext
       [] part = "buffer" -> LogBufferNext
       [] part = "klog" -> KlogNext
       [] part = "dhcp" -> DhcpNext
       [] part = "lease" -> NetLeaseNext
       [] part = "topo" -> TopoNext
       [] part = "static" -> StaticNext
       [] part = "update" -> UpdateNext
       [] part = "efi" -> EfiNext
       [] part = "bootparam" -> BootParamNext
       [] part = "gpt" -> GptNext
       [] part = "fat" -> FatNext
       [] part = "qcow" -> QcowNext
       [] part = "crypt" -> CryptNext
       [] part = "verity" -> VerityNext
       [] part = "kmod" -> KmodNext
       [] part = "socks" -> SocksNext
       [] part = "resolver" -> ResolverNext
       [] part = "balancer" -> LbNext
       [] part = "mesh" -> NetNext
       [] part = "hosts" -> HostNext

NodeSpec == NodeInit /\ [][NodeNext]_nodeVars

-----------------------------------------------------------------------------
\* The journal keeps exactly the newest entries of every DN, on lists that are
\* whole; a backlog is the newest entries that match, and a stream continues
\* it without a gap; lines survive however they are cut into writes; and a
\* kernel-style log line keeps its time across the end of a year.
LoggingSound ==
  CASE part = "stream" -> LogTreeTypeOK /\ JournalSound /\ StreamContinues
    [] part = "backlog" -> LogTreeTypeOK /\ JournalSound /\ BacklogExact
    [] part = "buffer" -> LinesExact
    [] part = "klog" -> KlogTimeExact
    [] OTHER -> TRUE

\* What the DHCP client obtained is on the host exactly as long as the lease
\* lasts, its routes and name servers are the ones the lease gives, and a
\* static configuration is applied in dependency order or undone.
HostNetworkSound ==
  CASE part = "dhcp" -> DhcpTypeOK /\ DhcpSound
    [] part = "lease" -> NetLeaseTypeOK /\ NetLeaseSound
    [] part = "topo" -> TopoSound
    [] part = "static" -> StaticTypeOK /\ StaticSound
    [] OTHER -> TRUE

\* However an update is interrupted, the node boots a complete image from a
\* slot, through an entry the firmware has, with the parameters meant for it,
\* and loads the modules of its devices, each after those it needs.
BootSound ==
  CASE part = "update" -> UpdateTypeOK /\ UpdateSound
    [] part = "efi" -> EfiTypeOK /\ EfiSound
    [] part = "bootparam" -> BootParamSound
    [] part = "kmod" -> KmodTypeOK /\ KmodSound
    [] OTHER -> TRUE

\* Partition tables, images and hash trees are what a reader of them expects,
\* and the data partition is stacked and unstacked without leaving devices
\* behind.
StorageSound ==
  CASE part = "gpt" -> GptTypeOK /\ GptSound
    [] part = "fat" -> FatTypeOK /\ FatSound
    [] part = "qcow" -> QcowTypeOK /\ QcowSound
    [] part = "crypt" -> CryptTypeOK /\ CryptSound
    [] part = "verity" -> VerityTypeOK /\ VeritySound
    [] OTHER -> TRUE

\* Connections reach who they are meant for and leave nothing behind: those of
\* the resolver to the Curator's leader, those of the load balancer to its
\* backends, and those of the proxy.
ConnectionsSound ==
  CASE part = "resolver" -> ResolverTypeOK /\ ResolverSound
    [] part = "balancer" -> LbTypeOK /\ LbSound
    [] part = "socks" -> SocksTypeOK /\ SocksSound
    [] OTHER -> TRUE

\* The mesh and the hosts file follow what the cluster knows of its nodes, and
\* what the node knows of itself.
PeersSound ==
  CASE part = "mesh" -> NetTypeOK /\ NetSound
    [] part = "hosts" -> HostTypeOK /\ HostsSound
    [] OTHER -> TRUE
=============================================================================
