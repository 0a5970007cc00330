------------------------------- MODULE Dhcp4c -------------------------------
(***************************************************************************)
(* Leases of a node: the DHCPv4 client, and what a lease makes of the      *)
(* host.                                                                   *)
(***************************************************************************)
EXTENDS Integers, FiniteSets, Sequences, SequencesExt, FiniteSetsExt

(***************************************************************************)
(* The DHCPv4 client of metropolis/node/core/network/dhcp4c and the lease  *)
(* callback that the network service gives it.                             *)
(*                                                                         *)
(* Time is counted in ticks.  A client that has nothing to wait for takes  *)
(* its next step before the clock moves.  Servers are the environment: a   *)
(* message of the transaction may be of any type, from any server, early,  *)
(* late or repeated; one of another transaction is skipped by Receive and  *)
(* changes nothing.  Run is a supervised runnable: when it fails it is run *)
(* again, later, with the same Client.                                     *)
(***************************************************************************)

CONSTANTS
    Address,      \* addresses that are leased
    Terms,        \* lease, renewal and rebinding times that servers send; 0 is no option
    RequestLimit, \* MaxElapsedTime of AcceptOfferBackoff
    MaxBackoff,   \* the longest wait for an answer
    MaxClock,     \* bound on the clock
    MaxDhcpFaults \* bound on the failures of callbacks and transports

VARIABLES
    client,    \* [state, offer, lease] of the Client
    deadline,  \* its leaseBoundDeadline, leaseRenewDeadline and leaseDeadline
    conn,      \* its broadcast and unicast transports: "open" or "closed"
    clientRun,       \* what Run does: "send", "receive", "down"
    until,     \* the receive deadline, 0 outside of a transaction
    sentTime,  \* when the request was sent, likewise
    accepting, \* when AcceptOfferBackoff was reset
    ticks,     \* the clock
    host,      \* what the callbacks configured: address, routes and network status
    told,      \* how the last LeaseCallback ended: "ok" or "failed"
    openFailed,\* "yes" once a transport failed to open
    faults     \* failures so far

dhcpVars == <<client, deadline, conn, clientRun, until, sentTime, accepting, ticks, host, told,
              openFailed, faults>>

None == "none"

Transaction == {"discovering", "requesting", "renewing", "rebinding"}

NoDeadlines == [bound |-> 0, renew |-> 0, lease |-> 0]

NewClient == [state |-> "discovering", offer |-> None, lease |-> None]

DhcpInit ==
    /\ client = NewClient
    /\ deadline = NoDeadlines
    /\ conn = [broadcast |-> "open", unicast |-> "closed"]
    /\ clientRun = "send"
    /\ until = 0
    /\ sentTime = 0
    /\ accepting = 0
    /\ ticks = 0
    /\ host = [address |-> None, routes |-> None, status |-> None]
    /\ told = "ok"
    /\ openFailed = "no"
    /\ faults = 0

-----------------------------------------------------------------------------
(* Compose(ManageIP, arpAnnounceCB, ManageRoutes, statusCallback): netlink *)
(* may fail in ManageIP, with the old addresses there, gone or already     *)
(* replaced, or in ManageRoutes; the callbacks after it are not called.    *)

Callback(ip) ==
    /\ told' = "ok"
    /\ host' = [address |-> ip, routes |-> ip, status |-> ip]
    /\ UNCHANGED faults

CallbackFails(ip) ==
    /\ faults < MaxDhcpFaults
    /\ faults' = faults + 1
    /\ told' = "failed"
    /\ \/ \E a \in {host.address, None} : host' = [host EXCEPT !.address = a]
       \/ \E r \in {host.routes, None, ip} : host' = [host EXCEPT !.address = ip, !.routes = r]

(* Closing one transport and opening the other. *)
Switched(to) ==
    IF to = "unicast" THEN [broadcast |-> "closed", unicast |-> "open"]
    ELSE [broadcast |-> "open", unicast |-> "closed"]

AllClosed == [broadcast |-> "closed", unicast |-> "closed"]

SwitchFails ==
    /\ faults < MaxDhcpFaults
    /\ faults' = faults + 1
    /\ openFailed' = "yes"
    /\ conn' = AllClosed

ConnUsed ==
    IF client.state \in {"bound", "renewing"} THEN "unicast" ELSE "broadcast"

-----------------------------------------------------------------------------

(* acceptableLease refuses a lease time below a second and clamps the      *)
(* other two times; an absent option reads as zero.                        *)
Clamped(t) ==
    LET t2 == IF t.t2 > t.lease THEN t.lease ELSE t.t2
    IN  [t EXCEPT !.t2 = t2, !.t1 = IF t.t1 > t2 THEN t2 ELSE t.t1]

(* An option that was clamped to zero is present, with the value zero. *)
DeadlinesFault(t, sentAt) ==
    [bound |-> sentAt + (IF t.t1 = 0 THEN t.lease \div 2 ELSE t.t1),
     renew |-> sentAt + (IF t.t2 = 0 THEN (t.lease * 85) \div 100 ELSE t.t2),
     lease |-> sentAt + t.lease]

Deadlines(t, sentAt) ==
    LET c == Clamped(t)
    IN  [bound |-> sentAt + (IF t.t1 = 0 THEN t.lease \div 2 ELSE c.t1),
         renew |-> sentAt + (IF t.t2 = 0 THEN (t.lease * 85) \div 100 ELSE c.t2),
         lease |-> sentAt + t.lease]

(* The deadlines are set first.  A failure of the callback or of the       *)
(* switch ends Run in the state that received the message.                 *)
transitionToBound(ip, t) ==
    /\ deadline' = Deadlines(t, sentTime)
    /\ \/ /\ Callback(ip)
          /\ conn' = IF client.state # "renewing" THEN Switched("unicast") ELSE conn
          /\ client' = [client EXCEPT !.state = "bound", !.lease = ip]
          /\ clientRun' = "send"
          /\ UNCHANGED openFailed
       \/ /\ CallbackFails(ip)
          /\ clientRun' = "down"
          /\ UNCHANGED <<client, conn, openFailed>>
       \/ /\ client.state # "renewing"
          /\ SwitchFails
          /\ told' = "ok"
          /\ host' = [address |-> ip, routes |-> ip, status |-> ip]
          /\ clientRun' = "down"
          /\ UNCHANGED client

leaseToDiscovering ==
    \/ /\ conn' = IF client.state = "renewing" THEN Switched("broadcast") ELSE conn
       /\ client' = [client EXCEPT !.state = "discovering", !.lease = None]
       /\ \/ Callback(None) /\ clientRun' = "send"
          \/ CallbackFails(None) /\ clientRun' = "down"
       /\ UNCHANGED <<deadline, openFailed>>
    \/ /\ client.state = "renewing"
       /\ SwitchFails
       /\ clientRun' = "down"
       /\ UNCHANGED <<client, deadline, told, host>>

requestingToDiscovering ==
    /\ client' = [client EXCEPT !.state = "discovering", !.offer = None]
    /\ clientRun' = "send"
    /\ UNCHANGED <<deadline, conn, told, host, openFailed, faults>>

renewingToRebinding ==
    /\ client' = [client EXCEPT !.state = "rebinding"]
    /\ \/ /\ conn' = Switched("broadcast")
          /\ clientRun' = "send"
          /\ UNCHANGED <<openFailed, faults>>
       \/ /\ SwitchFails
          /\ clientRun' = "down"
    /\ UNCHANGED <<deadline, told, host>>

StateDeadline ==
    CASE client.state = "renewing" -> deadline.renew
      [] client.state = "rebinding" -> deadline.lease
      [] OTHER -> MaxClock + MaxBackoff

stateDeadlineExceeded ==
    CASE client.state = "requesting" -> requestingToDiscovering
      [] client.state = "renewing" -> renewingToRebinding
      [] client.state = "rebinding" -> leaseToDiscovering

(* runTransactionState up to its first Receive. *)
Expired ==
    \/ client.state = "requesting" /\ ticks > accepting + RequestLimit
    \/ client.state \in {"renewing", "rebinding"} /\ StateDeadline <= ticks

GiveUp ==
    /\ clientRun = "send"
    /\ client.state \in Transaction
    /\ Expired
    /\ stateDeadlineExceeded
    /\ UNCHANGED <<until, sentTime, accepting, ticks>>

Send ==
    /\ clientRun = "send"
    /\ client.state \in Transaction
    /\ ~Expired
    /\ conn[ConnUsed] = "open"
    /\ clientRun' = "receive"
    /\ sentTime' = ticks
    /\ \E wait \in 1..MaxBackoff :
          until' = IF ticks + wait < StateDeadline THEN ticks + wait ELSE StateDeadline
    /\ UNCHANGED <<client, deadline, conn, accepting, ticks, host, told, openFailed, faults>>

SendFails ==
    /\ clientRun = "send"
    /\ client.state \in Transaction
    /\ ~Expired
    /\ conn[ConnUsed] = "closed"
    /\ clientRun' = "down"
    /\ UNCHANGED <<client, deadline, conn, until, sentTime, accepting, ticks, host, told,
                   openFailed, faults>>

-----------------------------------------------------------------------------

EndTransaction == until' = 0 /\ sentTime' = 0

(* A message of the transaction that handleMessage does not refuse. *)
ReceiveOffer(ip) ==
    /\ clientRun = "receive"
    /\ client.state = "discovering"
    /\ client' = [client EXCEPT !.state = "requesting", !.offer = ip]
    /\ accepting' = ticks
    /\ clientRun' = "send"
    /\ EndTransaction
    /\ UNCHANGED <<deadline, conn, ticks, host, told, openFailed, faults>>

ReceiveAck(ip, t) ==
    /\ clientRun = "receive"
    /\ transitionToBound(ip, t)
    /\ EndTransaction
    /\ UNCHANGED <<accepting, ticks>>

ReceiveNak ==
    /\ clientRun = "receive"
    /\ \/ client.state = "requesting" /\ requestingToDiscovering
       \/ client.state \in {"renewing", "rebinding"} /\ leaseToDiscovering
    /\ EndTransaction
    /\ UNCHANGED <<accepting, ticks>>

ReceiveTimeout ==
    /\ clientRun = "receive"
    /\ until <= ticks
    /\ clientRun' = "send"
    /\ EndTransaction
    /\ UNCHANGED <<client, deadline, conn, accepting, ticks, host, told,
                   openFailed, faults>>

BoundExpires ==
    /\ clientRun = "send"
    /\ client.state = "bound"
    /\ deadline.bound <= ticks
    /\ client' = [client EXCEPT !.state = "renewing"]
    /\ UNCHANGED <<deadline, conn, clientRun, until, sentTime, accepting, ticks, host, told,
                   openFailed, faults>>

(* The supervisor runs Run again. *)
RunAgain ==
    /\ clientRun = "down"
    /\ clientRun' = "send"
    /\ UNCHANGED <<client, deadline, conn, until, sentTime, accepting, ticks, host, told,
                   openFailed, faults>>

(* The context ends: cleanup drops what a callback says.  The parent, when *)
(* it runs again, makes a new client.                                      *)
Cancelled ==
    /\ \/ clientRun = "receive" /\ client.state \in Transaction
       \/ clientRun = "send" /\ client.state = "bound"
    /\ client' = NewClient
    /\ deadline' = NoDeadlines
    /\ conn' = [broadcast |-> "open", unicast |-> "closed"]
    /\ clientRun' = "send"
    /\ IF client.lease = None THEN UNCHANGED <<told, host, faults>>
       ELSE Callback(None) \/ CallbackFails(None)
    /\ openFailed' = "no"
    /\ EndTransaction
    /\ UNCHANGED <<accepting, ticks>>

(* The clock waits for a client that is due. *)
Due ==
    \/ clientRun = "send" /\ (client.state = "bound" => deadline.bound <= ticks)
    \/ clientRun = "receive" /\ until <= ticks

DhcpTick ==
    /\ ticks < MaxClock
    /\ ~Due
    /\ ticks' = ticks + 1
    /\ UNCHANGED <<client, deadline, conn, clientRun, until, sentTime, accepting, host, told,
                   openFailed, faults>>

DhcpNext ==
    \/ GiveUp \/ Send \/ SendFails \/ ReceiveNak \/ ReceiveTimeout
    \/ BoundExpires \/ RunAgain \/ Cancelled \/ DhcpTick
    \/ \E ip \in Address : ReceiveOffer(ip) \/ \E t \in Terms : ReceiveAck(ip, t)

-----------------------------------------------------------------------------

DhcpTypeOK ==
    /\ client \in [state : Transaction \union {"bound"}, offer : Address \union {None},
                   lease : Address \union {None}]
    /\ deadline \in [bound : Nat, renew : Nat, lease : Nat]
    /\ conn \in [broadcast : {"open", "closed"}, unicast : {"open", "closed"}]
    /\ clientRun \in {"send", "receive", "down"}
    /\ ticks \in 0..MaxClock

(* Answered or not, through renewing and rebinding, after failed callbacks *)
(* and restarts, a client that waits for a message or for its lease to age *)
(* does not hold the lease past its deadline.                              *)
LeaseGivenUp ==
    clientRun # "down" /\ ~Due /\ client.lease # None => ticks <= deadline.lease

(* What the host is configured with, from its addresses to the published   *)
(* network status, is the lease of the client, unless the last callback    *)
(* failed half way or the transports could not be switched.                *)
HostFollowsLease ==
    told = "ok" /\ openFailed = "no" =>
        host = [address |-> client.lease, routes |-> client.lease, status |-> client.lease]

(* "Valid in states Discovering, Requesting, Rebinding" of broadcastConn   *)
(* and "Valid in states Bound, Renewing" of unicastConn: the transport of  *)
(* the state is open, the other one closed.                                *)
TransportOfState ==
    /\ conn[ConnUsed] = "open"
    /\ \A c \in {"broadcast", "unicast"} : conn[c] = "open" => c = ConnUsed

(* A lease is given up when it expires, the host follows the client's      *)
(* lease, and each state has its transport, however messages, deadlines,   *)
(* failed calls and restarts are ordered.                                  *)
DhcpSound ==
    /\ LeaseGivenUp
    /\ HostFollowsLease
    /\ openFailed = "no" => TransportOfState

-----------------------------------------------------------------------------
(***************************************************************************)
(* What a DHCPv4 lease makes of the host: the routes and DNS servers read  *)
(* from its options (dhcp4c/lease.go), the address and routes installed by *)
(* the callbacks (dhcp4c/callback), the status and DNS upstreams of the    *)
(* network service (network/main.go) and the CoreDNS configuration         *)
(* (network/dns).  An IPv4 address is a number of AddrBits bits, 0 the     *)
(* unspecified address; a network is [ip, ones], ones = -1 for a mask that *)
(* is not ones followed by zeros.                                          *)
(***************************************************************************)

CONSTANTS
  Leases,          \* leases: [ip, ones, classless, legacy, routers, dns]
  LoopbackIPs,     \* the addresses of the loopback network
  MulticastIPs,    \* addresses that are neither global nor link-local unicast
  MaxLeases,       \* bound on calls of the lease callback
  MaxLeaseFaults   \* bound on failing netlink calls and file writes

VARIABLES
  kernelAddrs,  \* addresses on the interface without IFA_F_PERMANENT
  kernelRoutes, \* its RTPROT_DHCP routes: a set of [ip, ones, router]
  dnsServers,   \* Service.dnsServers
  netAddress,   \* Service.dhcpAddress, 0 for nil
  extAddress,   \* Status.ExternalAddress, 0 for nil
  sending,      \* <<>> or <<servers>>: ConfigureDNS waits for the DNS service
  registering,  \* <<>> or <<servers>>: the directive the registration loop holds
  leaseCall,    \* [lease, result]: the last callback, <<>> for a nil lease
  dnsUpstream,  \* dns.Service.directives[""], <<>> for none
  corefile,     \* the upstreams in the Corefile
  argsError,    \* FileArgs.lastError
  coredns,      \* "down" or "running"
  served,       \* the upstreams CoreDNS has loaded
  leaseCalls, leaseFaults

leaseVars == <<kernelAddrs, kernelRoutes, dnsServers, netAddress, extAddress, sending, registering,
               leaseCall, dnsUpstream, corefile, argsError, coredns, served, leaseCalls, leaseFaults>>

AddrBits == 4

Base(ip, ones) == LET size == 2 ^ (AddrBits - ones) IN (ip \div size) * size

NetContains(net, ip) == Base(ip, net.ones) = Base(net.ip, net.ones)

IsUnicast(ip) == ip # 0 /\ ip \notin LoopbackIPs /\ ip \notin MulticastIPs

\* The classful mask of an address.
DefaultOnes(ip) == IF ip < 8 THEN 1 ELSE 2

-----------------------------------------------------------------------------
(* lease.go.  Classless routes replace the legacy ones and the router; a   *)
(* legacy route to the default destination is illegal; only the first      *)
(* usable router gives the default route.                                  *)

\* Fault: reachability is not checked against the assigned network.
ReachableFault(sane, assigned, router) == \E k \in DOMAIN sane : NetContains(sane[k], router)

Reachable(sane, assigned, router) ==
  (\E k \in DOMAIN sane : NetContains(sane[k], router)) \/ NetContains(assigned, router)

\* sanitizeRoutes, one route.
Sanitized(sane, r, assigned) ==
  IF \/ r.router # 0 /\ (~IsUnicast(r.router) \/ ~Reachable(sane, assigned, r.router))
     \/ r.ones = -1
     \/ r.ip \in LoopbackIPs /\ r.ones >= 2
     \/ r.ip = assigned.ip /\ r.ones = assigned.ones
     \/ \E k \in DOMAIN sane : sane[k].ip = r.ip /\ sane[k].ones = r.ones
  THEN sane ELSE Append(sane, r)

Routes(l) ==
  LET assigned == [ip |-> Base(l.ip, l.ones), ones |-> l.ones]
      route(ip, ones, router) == [ip |-> ip, ones |-> ones, router |-> router]
      pairs == [k \in 1 .. Len(l.legacy) \div 2 |-> <<l.legacy[2 * k - 1], l.legacy[2 * k]>>]
      legal == SelectSeq(pairs, LAMBDA p : p[1] # 0)
      usable == SelectSeq(l.routers, IsUnicast)
      given == IF l.classless # <<>> THEN l.classless[1]
               ELSE [k \in DOMAIN legal |-> route(Base(legal[k][1], DefaultOnes(legal[k][1])),
                                                  DefaultOnes(legal[k][1]), legal[k][2])]
                    \o (IF usable = <<>> THEN <<>> ELSE <<route(0, 0, usable[1])>>)
  IN FoldLeft(LAMBDA sane, r : Sanitized(sane, r, assigned), <<>>, given)

\* Lease.DNSServers: the unicast servers, each once.
DNSServers(l) ==
  FoldLeft(LAMBDA out, s : IF IsUnicast(s) /\ s \notin Range(out) THEN Append(out, s) ELSE out,
           <<>>, l.dns)

\* A nil lease is <<>>.
RoutesOf(lease) == IF lease = <<>> THEN <<>> ELSE Routes(lease[1])
NetsOf(lease) == IF lease = <<>> THEN {} ELSE {[ip |-> lease[1].ip, ones |-> lease[1].ones]}
ServersOf(lease) == IF lease = <<>> THEN <<>> ELSE DNSServers(lease[1])
AddressOf(lease) == IF lease = <<>> THEN 0 ELSE lease[1].ip

-----------------------------------------------------------------------------
(* callback.go.  ManageIP: other addresses go, the lease's is replaced.    *)
(* ManageRoutes: routes without a successor go first, then each route of   *)
(* the lease replaces the one with its destination.                        *)
Same(a, b) == a.ip = b.ip /\ a.ones = b.ones

\* Fault: the routes of the previous lease stay.
KeptFault(routes, new) == routes

KeptRoutes(routes, new) == {r \in routes : \E k \in DOMAIN new : Same(new[k], r)}

InstalledRoutes(routes, new) ==
  {r \in routes : \A k \in DOMAIN new : ~Same(new[k], r)} \cup Range(new)

NetLeaseInit ==
  /\ kernelAddrs = {} /\ kernelRoutes = {}
  /\ dnsServers = <<>> /\ netAddress = 0 /\ extAddress = 0 /\ sending = <<>> /\ registering = <<>>
  /\ leaseCall = [lease |-> <<>>, result |-> "ok"]
  /\ dnsUpstream = <<>> /\ corefile = <<>> /\ argsError = "no"
  /\ coredns = "down" /\ served = <<>>
  /\ leaseCalls = 0 /\ leaseFaults = 0

dnsVars == <<registering, dnsUpstream, corefile, argsError, coredns, served>>

\* statusCallback: ConfigureDNS blocks on the registration channel.
StatusCallback(lease) ==
  /\ dnsServers' = ServersOf(lease)
  /\ IF ServersOf(lease) # dnsServers
     THEN /\ sending' = <<ServersOf(lease)>>
          /\ UNCHANGED <<netAddress, extAddress>>
          /\ leaseCall' = [lease |-> lease, result |-> "sending"]
     ELSE /\ sending' = <<>>
          /\ netAddress' = AddressOf(lease)
          /\ extAddress' = IF AddressOf(lease) # netAddress THEN AddressOf(lease) ELSE extAddress
          /\ leaseCall' = [lease |-> lease, result |-> "ok"]

\* Compose(ManageIP, arpAnnounceCB, ManageRoutes, statusCallback).
LeaseCallback(lease) ==
  /\ sending = <<>>
  /\ leaseCalls < MaxLeases
  /\ leaseCalls' = leaseCalls + 1
  /\ kernelAddrs' = NetsOf(lease)
  /\ kernelRoutes' = InstalledRoutes(KeptRoutes(kernelRoutes, RoutesOf(lease)), RoutesOf(lease))
  /\ StatusCallback(lease)
  /\ UNCHANGED leaseFaults
  /\ UNCHANGED dnsVars

\* A netlink call fails: what came before it is done, what follows is not.
LeaseCallbackFails(lease) ==
  LET new == RoutesOf(lease) IN
  /\ sending = <<>>
  /\ leaseCalls < MaxLeases /\ leaseFaults < MaxLeaseFaults
  /\ leaseCalls' = leaseCalls + 1 /\ leaseFaults' = leaseFaults + 1
  /\ \/ kernelAddrs' \in SUBSET kernelAddrs /\ UNCHANGED kernelRoutes
     \/ /\ kernelAddrs' = NetsOf(lease)
        /\ \E k \in 0 .. Len(new) :
             kernelRoutes' = InstalledRoutes(IF k = 0 THEN kernelRoutes ELSE KeptRoutes(kernelRoutes, new),
                                       SubSeq(new, 1, k - 1))
  /\ leaseCall' = [lease |-> lease, result |-> "failed"]
  /\ UNCHANGED <<dnsServers, netAddress, extAddress, sending>>
  /\ UNCHANGED dnsVars

(* The registration loop receives the directive, which lets the callback   *)
(* go on, and then processes it: the Corefile is written and, when the     *)
(* process listens, a signal makes CoreDNS load it.  A failed write leaves *)
(* FileArgs in error for good.                                             *)
ReceiveDirective ==
  /\ sending # <<>> /\ registering = <<>>
  /\ registering' = sending /\ sending' = <<>>
  /\ netAddress' = AddressOf(leaseCall.lease)
  /\ extAddress' = IF AddressOf(leaseCall.lease) # netAddress THEN AddressOf(leaseCall.lease) ELSE extAddress
  /\ leaseCall' = [leaseCall EXCEPT !.result = "ok"]
  /\ UNCHANGED <<kernelAddrs, kernelRoutes, dnsServers, leaseCalls, leaseFaults>>
  /\ UNCHANGED <<dnsUpstream, corefile, argsError, coredns, served>>

\* FileArgs.ArgPath("Corefile", makeCorefile) with upstreams u.
WriteCorefile(u) ==
  \/ argsError = "no" /\ corefile' = u /\ UNCHANGED <<argsError, leaseFaults>>
  \/ argsError = "yes" /\ UNCHANGED <<corefile, argsError, leaseFaults>>
  \/ /\ argsError = "no" /\ leaseFaults < MaxLeaseFaults
     /\ leaseFaults' = leaseFaults + 1
     /\ argsError' = "yes" /\ corefile' \in {corefile, <<>>}

\* Fault: a directive without servers is kept, not deleted.
RegisteredFault(servers) == IF servers = <<>> THEN dnsUpstream ELSE servers

Registered(servers) == servers

ProcessRegistration ==
  /\ registering # <<>>
  /\ registering' = <<>>
  /\ dnsUpstream' = Registered(registering[1])
  /\ WriteCorefile(Registered(registering[1]))
  /\ served' \in {served} \cup (IF coredns = "running" THEN {corefile'} ELSE {})
  /\ UNCHANGED <<kernelAddrs, kernelRoutes, dnsServers, netAddress, extAddress, sending, leaseCall,
                 coredns, leaseCalls>>

\* runCoreDNS writes the Corefile before it starts the process.
RunCoreDNS ==
  /\ coredns = "down"
  /\ WriteCorefile(dnsUpstream)
  /\ coredns' = IF argsError' = "no" THEN "running" ELSE "down"
  /\ served' = IF argsError' = "no" THEN dnsUpstream ELSE <<>>
  /\ UNCHANGED <<kernelAddrs, kernelRoutes, dnsServers, netAddress, extAddress, sending, registering,
                 leaseCall, dnsUpstream, leaseCalls>>

CoreDNSExits ==
  /\ coredns = "running" /\ leaseFaults < MaxLeaseFaults
  /\ coredns' = "down" /\ served' = <<>>
  /\ leaseFaults' = leaseFaults + 1
  /\ UNCHANGED <<kernelAddrs, kernelRoutes, dnsServers, netAddress, extAddress, sending, registering,
                 leaseCall, dnsUpstream, corefile, argsError, leaseCalls>>

\* The "reload 10s" of the Corefile.
Reload ==
  /\ coredns = "running"
  /\ served' = corefile
  /\ UNCHANGED <<kernelAddrs, kernelRoutes, dnsServers, netAddress, extAddress, sending, registering,
                 leaseCall, dnsUpstream, corefile, argsError, coredns, leaseCalls, leaseFaults>>

NetLeaseNext ==
  \/ \E l \in {<<>>} \cup {<<x>> : x \in Leases} : LeaseCallback(l) \/ LeaseCallbackFails(l)
  \/ ReceiveDirective \/ ProcessRegistration \/ RunCoreDNS \/ CoreDNSExits \/ Reload

NetLeaseSpec == NetLeaseInit /\ [][NetLeaseNext]_leaseVars

-----------------------------------------------------------------------------
NetLeaseTypeOK ==
  /\ extAddress \in 0 .. 2 ^ AddrBits - 1 /\ netAddress \in 0 .. 2 ^ AddrBits - 1
  /\ Len(sending) <= 1 /\ leaseCall.result \in {"ok", "sending", "failed"}
  /\ argsError \in {"yes", "no"} /\ coredns \in {"down", "running"}
  /\ leaseCalls \in 0 .. MaxLeases /\ leaseFaults \in 0 .. MaxLeaseFaults

AssignedNet(lease, r) ==
  lease # <<>> /\ r.ip = Base(lease[1].ip, lease[1].ones) /\ r.ones = lease[1].ones

\* The routes of the classless static route option.
ClasslessOf(lease) ==
  IF lease = <<>> THEN {} ELSE IF lease[1].classless = <<>> THEN {} ELSE Range(lease[1].classless[1])

(* Once a callback has succeeded the host follows its lease and nothing    *)
(* older: the one address, exactly the lease's routes, the status address  *)
(* and the DNS upstreams.  The routes are usable in the order they are     *)
(* installed: every router is on the assigned network or behind an earlier *)
(* route, no destination comes twice, and none takes over loopback or the  *)
(* assigned network; a destination given with a usable router on the       *)
(* assigned network is always routed.  The Corefile always has the         *)
(* registered upstreams, unless writing it failed once.                    *)
NetLeaseSound ==
  LET rs == RoutesOf(leaseCall.lease) IN
  /\ leaseCall.result \in {"ok", "sending"} =>
       kernelAddrs = NetsOf(leaseCall.lease) /\ kernelRoutes = Range(rs)
  /\ leaseCall.result = "ok" =>
       /\ extAddress = AddressOf(leaseCall.lease)
       /\ IF registering = <<>> THEN dnsUpstream = ServersOf(leaseCall.lease)
          ELSE registering[1] = ServersOf(leaseCall.lease)
  /\ \A k \in DOMAIN rs :
       /\ rs[k].router # 0 =>
            \/ \E n \in NetsOf(leaseCall.lease) : NetContains(n, rs[k].router)
            \/ \E j \in 1 .. k - 1 : NetContains(rs[j], rs[k].router)
       /\ \A j \in 1 .. k - 1 : ~Same(rs[j], rs[k])
       /\ rs[k].ones >= 2 => rs[k].ip \notin LoopbackIPs
       /\ ~AssignedNet(leaseCall.lease, rs[k])
  /\ \A r \in ClasslessOf(leaseCall.lease) :
       (\E n \in NetsOf(leaseCall.lease) : NetContains(n, r.router))
         /\ IsUnicast(r.router) /\ r.ones # -1 /\ ~AssignedNet(leaseCall.lease, r)
         /\ (r.ones >= 2 => r.ip \notin LoopbackIPs)
         => \E k \in DOMAIN rs : Same(rs[k], r)
  /\ argsError = "no" => corefile = dnsUpstream
=============================================================================
