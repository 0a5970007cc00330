----------------------------- MODULE Ownership ------------------------------
(***************************************************************************)
(* Who may call a cluster: the authentication of RPCs, and how an operator *)
(* comes to own a cluster.                                                 *)
(***************************************************************************)
EXTENDS Naturals, Sequences, SequencesExt, FiniteSets

(***************************************************************************)
(* How the two ends of a cluster RPC know each other                       *)
(* (metropolis/node/core/rpc, metropolis/node/core/identity): certificates *)
(* of users and nodes, the ephemeral self-signed ones, the options a       *)
(* client verifies a server by, and the check before a handler runs.  A CA *)
(* is named by its cluster, and a key and its node ID are one value.       *)
(***************************************************************************)

\* Certificates, by who signed them.
NoPeerCert == [signer |-> "none", key |-> "none", usage |-> "none", cn |-> "", dns |-> {}]
Ephemeral(key) == [signer |-> "self", key |-> key, usage |-> "client", cn |-> "", dns |-> {}]
UserCertificate(ca, key, identity) ==
  [signer |-> ca, key |-> key, usage |-> "client", cn |-> identity, dns |-> {}]
NodeCertificate(ca, key) ==
  [signer |-> ca, key |-> key, usage |-> "server", cn |-> key, dns |-> {key}]

VerifyInCluster(cert, ca) == cert.signer = ca
VerifyNodeInCluster(cert, ca) ==
  VerifyInCluster(cert, ca) /\ cert.usage = "server" /\ cert.cn = cert.key /\ cert.key \in cert.dns
VerifyUserInCluster(cert, ca) ==
  VerifyInCluster(cert, ca) /\ cert.usage = "client" /\ cert.cn # ""

\* CredentialsOpt: merged in order, what an earlier option set stays.
NoOpt == [ca |-> "none", node |-> "", insecure |-> "no"]
WantRemoteCluster(c) == [NoOpt EXCEPT !.ca = c]
WantRemoteNode(uid) == [NoOpt EXCEPT !.node = uid]
WantInsecure == [NoOpt EXCEPT !.insecure = "yes"]
MergeOpt(a, o) ==
  [ca |-> IF a.ca = "none" THEN o.ca ELSE a.ca,
   node |-> IF a.node = "" THEN o.node ELSE a.node,
   insecure |-> IF a.insecure = "no" THEN o.insecure ELSE a.insecure]
MergedOpts(opts) == FoldLeft(MergeOpt, NoOpt, opts)

\* NewAuthenticatedTLSConfig: whether the connection to a server is accepted.
VerifyPeerCertificate(opts, srv) ==
  LET o == MergedOpts(opts) IN
  IF o.insecure = "yes" THEN o.node = "" /\ o.ca = "none"
  ELSE /\ o.ca # "none" /\ VerifyNodeInCluster(srv, o.ca)
       /\ o.node # "" => srv.key = o.node

\* A method: whether it has the authorization extension, allow_unauthenticated
\* and need.
RpcMethod(ext, unauth, need) == [ext |-> ext, unauth |-> unauth, need |-> need]
Unauthenticated(m) == m.unauth = "yes" /\ m.need = {}
nodePermissions == {"READ_CLUSTER_STATUS", "UPDATE_NODE_SELF"}

\* getPeerInfo and CheckPermissions; users have all permissions.
PeerInfo(ca, cert) ==
  IF VerifyNodeInCluster(cert, ca) THEN "node"
  ELSE IF VerifyUserInCluster(cert, ca) THEN "user" ELSE "none"
CheckPermissionsFault(kind, need) == kind # "none"
CheckPermissions(kind, need) ==
  \A k \in {kind} : /\ k # "none"
                    /\ k = "node" => need \subseteq nodePermissions

\* authenticationCheck at a node of the cluster: what becomes of the call.
AuthenticationCheck(ca, m, cert) ==
  CASE m.ext = "no" -> "refused"
    [] m.ext = "yes" /\ Unauthenticated(m) -> "unauthenticated"
    [] OTHER -> IF CheckPermissions(PeerInfo(ca, cert), m.need) THEN PeerInfo(ca, cert) ELSE "refused"

\* The key an unauthenticated caller has proved to hold.
SelfSignedPublicKey(cert) == IF cert.signer = "self" THEN cert.key ELSE "none"

-----------------------------------------------------------------------------
(***************************************************************************)
(* Ownership of a cluster: metroctl (metropolis/cli/metroctl) makes the    *)
(* owner key an image is built with, trusts a cluster's CA on first use,   *)
(* exchanges the key for the owner certificate with AAA.Escrow             *)
(* (curator/impl_leader_aaa.go) and calls the cluster with it.  Several    *)
(* metroctl processes may share a configuration directory, and each of     *)
(* them may be interrupted, perhaps in the middle of writing a file.       *)
(***************************************************************************)

CONSTANTS
  Metroctl,       \* processes
  OwnCluster,     \* clusters, each with one node that serves
  OwnerKey,       \* keys metroctl may generate
  OwnMethod,      \* methods called, as of RpcMethod
  MaxOwnFaults,   \* bound on interruptions and lost responses
  MaxCommands     \* bound on commands

VARIABLES
  owner,          \* cluster -> its initial owner, "none" before it is bootstrapped
  ownerCert,      \* cluster -> the owner certificate in etcd
  images,         \* owner keys that were built into an image
  dir,            \* the configuration directory: [key, cert, ca]
  metro,          \* process -> [cmd, at, to, key, cert, ca]
  clobbered,      \* a write replaced another content
  rpc,            \* the call just made: [cert, to, method, result]
  commands,
  ownFaults

ownVars == <<owner, ownerCert, images, dir, metro, clobbered, rpc, commands, ownFaults>>

TornCert == [NoPeerCert EXCEPT !.key = "torn"]
EmptyDir == [key |-> "none", cert |-> NoPeerCert, ca |-> "none"]
NoCommand == [cmd |-> "none", at |-> "idle", to |-> "none", key |-> "none", cert |-> NoPeerCert, ca |-> "none"]
NoRpc == [cert |-> NoPeerCert, to |-> "none", method |-> RpcMethod("no", "no", {}), result |-> "none"]
ServerOf(c) == NodeCertificate(c, c)

OwnInit ==
  /\ owner = [c \in OwnCluster |-> "none"] /\ ownerCert = [c \in OwnCluster |-> NoPeerCert]
  /\ images = {} /\ dir = EmptyDir /\ metro = [p \in Metroctl |-> NoCommand]
  /\ clobbered = "no" /\ rpc = NoRpc /\ commands = 0 /\ ownFaults = 0

OwnFault == ownFaults < MaxOwnFaults /\ ownFaults' = ownFaults + 1
Metro(p, at) == metro' = [metro EXCEPT ![p].at = at]
\* log.Fatalf, or the end of the command.
Exits(p) == metro' = [metro EXCEPT ![p] = NoCommand]

Command(p) ==
  /\ metro[p].at = "idle" /\ commands < MaxCommands /\ commands' = commands + 1
  /\ \E cmd \in {"install", "own", "call"}, c \in OwnCluster :
       metro' = [metro EXCEPT ![p] = [NoCommand EXCEPT !.cmd = cmd, !.to = c,
                   !.at = CASE cmd = "install" -> "key" [] cmd = "own" -> "ca" [] OTHER -> "creds"]]
  /\ rpc' = NoRpc /\ UNCHANGED <<owner, ownerCert, images, dir, clobbered, ownFaults>>

\* The process is interrupted.
CommandKilled(p) ==
  /\ metro[p].at # "idle" /\ OwnFault /\ Exits(p)
  /\ rpc' = NoRpc /\ UNCHANGED <<owner, ownerCert, images, dir, clobbered, commands>>

\* os.WriteFile truncates first: an interruption leaves an unreadable file.
WriteConfigFile(p, file, value, half, at) ==
  /\ \/ dir' = [dir EXCEPT ![file] = value] /\ Metro(p, at) /\ UNCHANGED ownFaults
     \/ dir' = [dir EXCEPT ![file] = half] /\ Exits(p) /\ OwnFault
  /\ clobbered' = IF \/ dir[file] \in {half, EmptyDir[file]}
                     \/ dir'[file] = dir[file]
                     \/ file = "cert" /\ dir[file] = value
                    THEN clobbered ELSE "yes"

\* GetOrMakeOwnerKey.
GetOrMakeOwnerKey(p) ==
  CASE dir.key \in OwnerKey -> metro' = [metro EXCEPT ![p].key = dir.key, ![p].at = "image"]
    [] dir.key = "torn" -> Exits(p)
    [] OTHER -> \E k \in OwnerKey \ (images \cup {metro[q].key : q \in Metroctl}) :
                  metro' = [metro EXCEPT ![p].key = k, ![p].at = "writeKey"]
ReadKey(p) ==
  /\ metro[p].at = "key" /\ GetOrMakeOwnerKey(p)
  /\ rpc' = NoRpc /\ UNCHANGED <<owner, ownerCert, images, dir, clobbered, commands, ownFaults>>
WriteOwnerKey(p) ==
  /\ metro[p].at = "writeKey" /\ WriteConfigFile(p, "key", metro[p].key, "torn", "image")
  /\ rpc' = NoRpc /\ UNCHANGED <<owner, ownerCert, images, commands>>
MakeImage(p) ==
  /\ metro[p].at = "image" /\ images' = images \cup {metro[p].key} /\ Exits(p)
  /\ rpc' = NoRpc /\ UNCHANGED <<owner, ownerCert, dir, clobbered, commands, ownFaults>>

\* A cluster is bootstrapped from an image.
BootstrapCluster(c) ==
  /\ owner[c] = "none" /\ \E k \in images : owner' = [owner EXCEPT ![c] = k]
  /\ rpc' = NoRpc /\ UNCHANGED <<ownerCert, images, dir, metro, clobbered, commands, ownFaults>>

\* GetOwnerCredentials, before a call.
GetOwnerCredentials(p) ==
  /\ metro[p].at = "creds"
  /\ IF dir.key \in OwnerKey /\ dir.cert \notin {NoPeerCert, TornCert}
       THEN metro' = [metro EXCEPT ![p].key = dir.key, ![p].cert = dir.cert, ![p].at = "ca"]
       ELSE Exits(p)
  /\ rpc' = NoRpc /\ UNCHANGED <<owner, ownerCert, images, dir, clobbered, commands, ownFaults>>

\* GetClusterCAWithTOFU: the saved CA, or a connection to the endpoint with the
\* owner certificate, or else with the owner key.
GetClusterCA(p) ==
  /\ metro[p].at = "ca"
  /\ IF dir.ca \in OwnCluster THEN metro' = [metro EXCEPT ![p].ca = dir.ca, ![p].at = "dial"]
     ELSE IF dir.ca = "torn" \/ dir.key \notin OwnerKey \/ dir.cert = TornCert THEN Exits(p)
     ELSE Metro(p, "tofu")
  /\ rpc' = NoRpc /\ UNCHANGED <<owner, ownerCert, images, dir, clobbered, commands, ownFaults>>

\* The CA the endpoint returns is checked against the owner certificate, or
\* accepted or rejected by the user.
GetCACertificate == RpcMethod("yes", "yes", {})
Tofu(p) ==
  LET c == metro[p].to
      cert == IF dir.cert = NoPeerCert THEN Ephemeral(dir.key) ELSE dir.cert IN
  /\ metro[p].at = "tofu"
  /\ \/ /\ owner[c] # "none" /\ dir.cert # TornCert
        /\ VerifyPeerCertificate(<<WantInsecure>>, ServerOf(c))
        /\ AuthenticationCheck(c, GetCACertificate, cert) # "refused"
        /\ dir.cert # NoPeerCert => VerifyInCluster(dir.cert, c)
        /\ metro' = [metro EXCEPT ![p].ca = c, ![p].at = "writeCA"]
     \/ Exits(p)
  /\ rpc' = NoRpc /\ UNCHANGED <<owner, ownerCert, images, dir, clobbered, commands, ownFaults>>
WriteCACertificate(p) ==
  /\ metro[p].at = "writeCA" /\ WriteConfigFile(p, "ca", metro[p].ca, "torn", "ca")
  /\ rpc' = NoRpc /\ UNCHANGED <<owner, ownerCert, images, commands>>

\* doTakeOwnership: Escrow with an ephemeral certificate for the owner key, at
\* a server of the cluster whose CA is trusted.
Escrow == RpcMethod("yes", "yes", {})
EscrowOpts(ca) == <<WantRemoteCluster(ca)>>
RetrieveOwnerCertificate(p) ==
  LET c == metro[p].to
      cert == Ephemeral(dir.key) IN
  /\ metro[p].cmd = "own" /\ metro[p].at = "dial"
  /\ IF /\ dir.key \in OwnerKey
        /\ owner[c] # "none"
        /\ VerifyPeerCertificate(EscrowOpts(metro[p].ca), ServerOf(c))
        /\ AuthenticationCheck(c, Escrow, cert) = "unauthenticated"
        /\ SelfSignedPublicKey(cert) = owner[c]
       THEN metro' = [metro EXCEPT ![p].key = dir.key, ![p].at = "ensure"]
       ELSE Exits(p)
  /\ rpc' = NoRpc /\ UNCHANGED <<owner, ownerCert, images, dir, clobbered, commands, ownFaults>>

\* Certificate.ensure: the certificate that is stored, if it is for this key,
\* or a new one, unless another call has just stored one.
EnsureStored(p) ==
  /\ metro[p].at = "ensure"
  /\ LET cert == ownerCert[metro[p].to] IN
     CASE cert = NoPeerCert -> Metro(p, "issue")
       [] cert # NoPeerCert /\ cert.key = metro[p].key ->
            metro' = [metro EXCEPT ![p].cert = cert, ![p].at = "writeCert"]
       [] OTHER -> Exits(p)
  /\ rpc' = NoRpc /\ UNCHANGED <<owner, ownerCert, images, dir, clobbered, commands, ownFaults>>
EnsureIssued(p) ==
  LET c == metro[p].to
      cert == UserCertificate(c, metro[p].key, "owner") IN
  /\ metro[p].at = "issue"
  /\ IF ownerCert[c] = NoPeerCert
       THEN ownerCert' = [ownerCert EXCEPT ![c] = cert]
            /\ metro' = [metro EXCEPT ![p].cert = cert, ![p].at = "writeCert"]
       ELSE Exits(p) /\ UNCHANGED ownerCert
  /\ rpc' = NoRpc /\ UNCHANGED <<owner, images, dir, clobbered, commands, ownFaults>>
WriteOwnerCertificate(p) ==
  /\ metro[p].at = "writeCert" /\ WriteConfigFile(p, "cert", metro[p].cert, TornCert, "done")
  /\ rpc' = NoRpc /\ UNCHANGED <<owner, ownerCert, images, commands>>
TakenOwnership(p) ==
  /\ metro[p].at = "done" /\ Exits(p)
  /\ rpc' = NoRpc /\ UNCHANGED <<owner, ownerCert, images, dir, clobbered, commands, ownFaults>>

\* dialAuthenticated and dialAuthenticatedNode: any cluster node, or a given one.
DialAuthenticated(p) ==
  LET c == metro[p].to IN
  /\ metro[p].cmd = "call" /\ metro[p].at = "dial" /\ owner[c] # "none"
  /\ \E m \in OwnMethod, opts \in {<<WantRemoteCluster(metro[p].ca)>>,
                                   <<WantRemoteCluster(metro[p].ca), WantRemoteNode(c)>>} :
       rpc' = [cert |-> metro[p].cert, to |-> c, method |-> m,
               result |-> IF VerifyPeerCertificate(opts, ServerOf(c))
                            THEN AuthenticationCheck(c, m, metro[p].cert) ELSE "unverified"]
  /\ Exits(p)
  /\ UNCHANGED <<owner, ownerCert, images, dir, clobbered, commands, ownFaults>>

\* A node of a cluster calls a server, of its own cluster or by mistake of
\* another one, and a machine that registers does so with an ephemeral key.
NodeCalls(d, c) ==
  /\ rpc = NoRpc /\ owner[c] # "none" /\ owner[d] # "none"
  /\ \E m \in OwnMethod, cert \in {NodeCertificate(d, d), Ephemeral("machine")} :
       rpc' = [cert |-> cert, to |-> c, method |-> m,
               result |-> IF VerifyPeerCertificate(<<WantRemoteCluster(d)>>, ServerOf(c))
                            THEN AuthenticationCheck(c, m, cert) ELSE "unverified"]
  /\ UNCHANGED <<owner, ownerCert, images, dir, metro, clobbered, commands, ownFaults>>

OwnNext ==
  \/ \E p \in Metroctl :
       \/ Command(p) \/ CommandKilled(p) \/ ReadKey(p) \/ WriteOwnerKey(p) \/ MakeImage(p)
       \/ GetOwnerCredentials(p) \/ GetClusterCA(p) \/ Tofu(p) \/ WriteCACertificate(p)
       \/ RetrieveOwnerCertificate(p) \/ EnsureStored(p) \/ EnsureIssued(p)
       \/ WriteOwnerCertificate(p) \/ TakenOwnership(p) \/ DialAuthenticated(p)
  \/ \E c \in OwnCluster : BootstrapCluster(c)
  \/ \E c, d \in OwnCluster : NodeCalls(d, c)

-----------------------------------------------------------------------------
OwnTypeOK ==
  /\ owner \in [OwnCluster -> OwnerKey \cup {"none"}] /\ images \subseteq OwnerKey
  /\ dir.key \in OwnerKey \cup {"none", "torn"} /\ dir.ca \in OwnCluster \cup {"none", "torn"}
  /\ \A p \in Metroctl : metro[p].cmd \in {"none", "install", "own", "call"}

\* What a call may come to, stated by who holds the certificate.
Allowed(r) ==
  IF r.method.ext = "no" THEN "refused"
  ELSE IF r.method.unauth = "yes" /\ r.method.need = {} THEN "unauthenticated"
  ELSE CASE r.cert = UserCertificate(r.to, owner[r.to], "owner") -> "user"
         [] r.cert = ServerOf(r.to) /\ r.method.need \subseteq nodePermissions -> "node"
         [] OTHER -> "refused"

\* A cluster issues one owner certificate, for the key it was installed with,
\* however often ownership is taken.  As long as no two metroctl processes
\* replaced each other's files, the directory holds the key of every image that
\* was made from it, its certificate is for that key and from the cluster whose
\* CA it trusts, so that what was interrupted can be repeated.  And whoever
\* calls, a handler runs exactly for those who may call it, at a cluster they
\* meant to reach.
OwnershipSound ==
  /\ \A c \in OwnCluster : ownerCert[c] # NoPeerCert => ownerCert[c] = UserCertificate(c, owner[c], "owner")
  /\ clobbered = "no" =>
       /\ images # {} => images = {dir.key}
       /\ dir.cert \notin {NoPeerCert, TornCert} =>
            /\ dir.cert.key = dir.key
            /\ dir.ca = dir.cert.signer
            /\ ownerCert[dir.ca] = dir.cert
  /\ rpc.result \notin {"none", "unverified"} => rpc.result = Allowed(rpc)
=============================================================================
