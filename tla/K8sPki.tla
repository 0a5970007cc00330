------------------------------- MODULE K8sPki -------------------------------
(***************************************************************************)
(* The Kubernetes PKI (metropolis/node/kubernetes/pki) and those who use   *)
(* it: the controllers, which ensure the static certificates and the       *)
(* service account key and run an API server with them, and the workers,   *)
(* which keep their private keys on disk (localstorage.PKIDirectory) and   *)
(* have the leading Curator issue certificates for them                    *)
(* (curator/impl_leader_certificates.go).  Ensure of one certificate is a  *)
(* step here; it is taken apart in module Pki.                             *)
(***************************************************************************)
EXTENDS Naturals, Sequences

CONSTANTS
  KController,    \* controllers; the leading Curator is another instance of the PKI
  KWorker,        \* nodes that are to be workers
  KStatic,        \* names of the static certificates besides the CA
  MaxKpkiFaults   \* bound on failures, and on changes of the role

VARIABLES
  kcerts,         \* etcd: name -> [key, signer], NoKCert without
  saKey,          \* etcd: the service account key, 0 without
  saMade,         \* service account keys generated so far
  kctl,           \* instance -> [at, left, cm, sa]: the service account keys of the
                  \* controller manager and of the API server
  call,           \* the call of IssueCertificate being served: [node, role]
  kworker,        \* worker -> [at, disk, seq, got]
  workerRole,     \* worker -> it has the KubernetesWorker role
  lostKey,        \* workers that lost a private key
  kpkiFaults

kpkiVars == <<kcerts, saKey, saMade, kctl, call, kworker, workerRole, lostKey, kpkiFaults>>

LeaderPki == "leader"
Instance == KController \cup {LeaderPki}
StaticName == KStatic \cup {"id-ca"}
\* The keys of a worker, and the certificates issued for them, in order.
WorkerKey == {"kubelet", "csi", "netserv"}
Issuance == <<"kubelet-server", "kubelet-client", "csi", "netserv">>
KeyOf(c) == IF c \in {"kubelet-server", "kubelet-client"} THEN "kubelet" ELSE c
Names == {<<"static", n>> : n \in StaticName}
         \cup {<<w, Issuance[i]>> : w \in KWorker, i \in DOMAIN Issuance}

NoKCert == [key |-> <<"none", 0>>, signer |-> "none"]
KCert(key) == [key |-> key, signer |-> "id-ca"]
Ctl(at, left, cm, sa) == [at |-> at, left |-> left, cm |-> cm, sa |-> sa]
CtlOff == Ctl("off", {}, 0, 0)
NoCall == [node |-> "none", role |-> "no"]
NoGot == [c \in {Issuance[i] : i \in DOMAIN Issuance} |-> NoKCert]
Wkr(at, keyfile, seq, got) == [at |-> at, disk |-> keyfile, seq |-> seq, got |-> got]

KpkiInit ==
  /\ kcerts = [n \in Names |-> NoKCert] /\ saKey = 0 /\ saMade = 0
  /\ kctl = [i \in Instance |-> CtlOff] /\ call = NoCall
  /\ kworker = [w \in KWorker |-> Wkr("keys", [k \in WorkerKey |-> 0], 1, NoGot)]
  /\ workerRole = [w \in KWorker |-> "yes"] /\ lostKey = {} /\ kpkiFaults = 0

KpkiFault == kpkiFaults < MaxKpkiFaults /\ kpkiFaults' = kpkiFaults + 1

-----------------------------------------------------------------------------
\* FromLocalConsensus makes a PKI and runs EnsureAll: the certificates in any
\* order, each with the CA before it; then the service account key.  A
\* controller starts with it, and so does the leader's IssueCertificate, once it
\* has read the node's record.
Serve(i) ==
  IF i # LeaderPki THEN UNCHANGED call
  ELSE \E w \in KWorker : kworker[w].at = "request" /\ call' = [node |-> w, role |-> workerRole[w]]
FromLocalConsensus(i) ==
  /\ kctl[i].at = "off" /\ Serve(i)
  /\ kctl' = [kctl EXCEPT ![i].at = "ensure", ![i].left = StaticName]
  /\ UNCHANGED <<kcerts, saKey, saMade, kworker, workerRole, lostKey, kpkiFaults>>

EnsuredStatic(n) == IF kcerts[n] # NoKCert THEN kcerts[n] ELSE KCert(n)
EnsureAll(i) ==
  /\ kctl[i].at = "ensure"
  /\ \E n \in kctl[i].left :
       /\ kcerts' = [kcerts EXCEPT ![<<"static", "id-ca">>] = EnsuredStatic(<<"static", "id-ca">>),
                                   ![<<"static", n>>] = EnsuredStatic(<<"static", n>>)]
       /\ kctl' = [kctl EXCEPT ![i].left = @ \ {n},
                               ![i].at = IF kctl[i].left = {n} THEN "saGet" ELSE "ensure"]
  /\ UNCHANGED <<saKey, saMade, call, kworker, workerRole, lostKey, kpkiFaults>>

\* ServiceAccountKey: the key in etcd, or else a new one, which is put there
\* without a condition.  A controller asks for it once more for the controller
\* manager and once more for the API server.
With(c, key) ==
  CASE c.at \in {"saGet", "saPut"} -> [c EXCEPT !.at = "config", !.sa = 0]
    [] c.at \in {"config", "configPut"} -> [c EXCEPT !.at = "load", !.cm = key, !.sa = 0]
    [] c.at \in {"load", "loadPut"} -> [c EXCEPT !.at = "up", !.sa = key]
Keyed(i, key) == IF i = LeaderPki THEN [CtlOff EXCEPT !.at = "issue"] ELSE With(kctl[i], key)
Putting == [at \in {"saGet", "config", "load"} |->
              IF at = "saGet" THEN "saPut" ELSE IF at = "config" THEN "configPut" ELSE "loadPut"]
ServiceAccountKey(i) ==
  /\ kctl[i].at \in DOMAIN Putting
  /\ IF saKey # 0 THEN kctl' = [kctl EXCEPT ![i] = Keyed(i, saKey)] /\ UNCHANGED saMade
     ELSE /\ saMade' = saMade + 1
          /\ kctl' = [kctl EXCEPT ![i].at = Putting[@], ![i].sa = saMade + 1]
  /\ UNCHANGED <<kcerts, saKey, call, kworker, workerRole, lostKey, kpkiFaults>>
ServiceAccountKeyPut(i) ==
  /\ kctl[i].at \in {"saPut", "configPut", "loadPut"}
  /\ saKey' = kctl[i].sa
  /\ kctl' = [kctl EXCEPT ![i] = Keyed(i, @.sa)]
  /\ UNCHANGED <<kcerts, saMade, call, kworker, workerRole, lostKey, kpkiFaults>>

\* The external address changes: the API server is run anew, and loads again.
NetworkedExits(i) ==
  /\ kctl[i].at = "up" /\ KpkiFault
  /\ kctl' = [kctl EXCEPT ![i].at = "load", ![i].sa = 0]
  /\ UNCHANGED <<kcerts, saKey, saMade, call, kworker, workerRole, lostKey>>

\* A call to etcd fails, or another instance was faster: the controller is
\* restarted, and the Curator's call fails.
WorkerAnew(w) == Wkr("keys", kworker[w].disk, 1, NoGot)
KpkiFails(i) ==
  /\ kctl[i].at # "off" /\ KpkiFault
  /\ kctl' = [kctl EXCEPT ![i] = CtlOff]
  /\ kworker' = [w \in KWorker |-> IF i = LeaderPki /\ call.node = w THEN WorkerAnew(w) ELSE kworker[w]]
  /\ call' = IF i = LeaderPki THEN NoCall ELSE call
  /\ UNCHANGED <<kcerts, saKey, saMade, workerRole, lostKey>>

-----------------------------------------------------------------------------
\* GeneratePrivateKey: does nothing if the key can be read, and otherwise
\* writes a new one over it.  Keys count up; 0 is a file that cannot be read.
Generation(w, k) == IF <<w, k>> \in lostKey THEN 2 ELSE 1
GeneratePrivateKeyFault(w) ==
  [k \in WorkerKey |-> IF kworker[w].disk[k] # 0 THEN 2 ELSE Generation(w, k)]
GeneratePrivateKey(w) ==
  [k \in WorkerKey |-> IF kworker[w].disk[k] # 0 THEN kworker[w].disk[k] ELSE Generation(w, k)]
WorkerKeys(w) ==
  /\ kworker[w].at = "keys"
  /\ kworker' = [kworker EXCEPT ![w] = Wkr("request", GeneratePrivateKey(w), 1, NoGot)]
  /\ UNCHANGED <<kcerts, saKey, saMade, kctl, call, workerRole, lostKey, kpkiFaults>>

\* issueKubernetesWorkerCertificates: refused without the role; then one
\* certificate after the other is ensured for the key of the request, if the
\* one in etcd is not for another.
PubKey(w, c) == <<w, KeyOf(c), kworker[w].disk[KeyOf(c)]>>
EnsureMatchesFault(w, c) == TRUE
EnsureMatches(w, c) == kcerts[<<w, c>>] = NoKCert \/ kcerts[<<w, c>>].key = PubKey(w, c)
Answer(w, at) ==
  /\ kworker' = [kworker EXCEPT ![w].at = at, ![w].seq = 1]
  /\ kctl' = [kctl EXCEPT ![LeaderPki] = CtlOff] /\ call' = NoCall
IssueCertificate(w) ==
  /\ kctl[LeaderPki].at = "issue" /\ call.node = w /\ kworker[w].seq <= Len(Issuance)
  /\ LET c == Issuance[kworker[w].seq]
         n == <<w, c>> IN
     \/ /\ call.role = "no" /\ Answer(w, "denied") /\ UNCHANGED kcerts
     \/ /\ call.role = "yes" /\ ~EnsureMatches(w, c)
        /\ Answer(w, "mismatch") /\ UNCHANGED kcerts
     \/ /\ call.role = "yes" /\ EnsureMatches(w, c)
        /\ kcerts' = [kcerts EXCEPT ![n] = IF @ = NoKCert THEN KCert(PubKey(w, c)) ELSE @]
        /\ kworker' = [kworker EXCEPT ![w].got[c] = kcerts'[n], ![w].seq = @ + 1]
        /\ UNCHANGED <<kctl, call>>
  /\ UNCHANGED <<saKey, saMade, workerRole, lostKey, kpkiFaults>>
IssueResponse(w) ==
  /\ kctl[LeaderPki].at = "issue" /\ call.node = w /\ kworker[w].seq > Len(Issuance)
  /\ Answer(w, "response")
  /\ UNCHANGED <<kcerts, saKey, saMade, workerRole, lostKey, kpkiFaults>>

\* KubeconfigRaw refuses a certificate that is not for the key on the disk or
\* not from the CA it came with; with all of them the sub-services start.
KubeconfigRaw(w) ==
  \A c \in DOMAIN NoGot : kworker[w].got[c] = KCert(PubKey(w, c))
SetCertificates(w) ==
  /\ kworker[w].at = "response"
  /\ kworker' = [kworker EXCEPT ![w].at = IF KubeconfigRaw(w) THEN "up" ELSE "refused"]
  /\ UNCHANGED <<kcerts, saKey, saMade, kctl, call, workerRole, lostKey, kpkiFaults>>

\* The response is lost, or the worker is restarted for another reason; Run
\* starts over with the keys on the disk.
WorkerRestarts(w) ==
  /\ kworker[w].at \in {"response", "denied", "mismatch", "up"} /\ KpkiFault
  /\ kworker' = [kworker EXCEPT ![w] = WorkerAnew(w)]
  /\ UNCHANGED <<kcerts, saKey, saMade, kctl, call, workerRole, lostKey>>

\* A power failure takes back the rename of a key, or its file cannot be read.
\* The Curator gives up a call whose caller is gone.
LoseKey(w, k) ==
  /\ kworker[w].disk[k] = 1 /\ KpkiFault
  /\ lostKey' = lostKey \cup {<<w, k>>}
  /\ kworker' = [kworker EXCEPT ![w] = [WorkerAnew(w) EXCEPT !.disk[k] = 0]]
  /\ IF call.node = w THEN kctl' = [kctl EXCEPT ![LeaderPki] = CtlOff] /\ call' = NoCall
     ELSE UNCHANGED <<kctl, call>>
  /\ UNCHANGED <<kcerts, saKey, saMade, workerRole>>

\* UpdateNodeRoles.
ChangeRole(w) ==
  /\ KpkiFault
  /\ workerRole' = [workerRole EXCEPT ![w] = IF @ = "yes" THEN "no" ELSE "yes"]
  /\ UNCHANGED <<kcerts, saKey, saMade, kctl, call, kworker, lostKey>>

KpkiNext ==
  \/ \E i \in Instance : \/ FromLocalConsensus(i) \/ EnsureAll(i) \/ ServiceAccountKey(i)
                         \/ ServiceAccountKeyPut(i) \/ NetworkedExits(i) \/ KpkiFails(i)
  \/ \E w \in KWorker : \/ WorkerKeys(w) \/ IssueCertificate(w) \/ IssueResponse(w) \/ WorkerRestarts(w)
                        \/ SetCertificates(w) \/ ChangeRole(w)
                        \/ \E k \in WorkerKey : LoseKey(w, k)

-----------------------------------------------------------------------------
KpkiTypeOK ==
  /\ \A i \in Instance :
       kctl[i].at \in {"off", "ensure", "saGet", "saPut", "config", "configPut", "load", "loadPut",
                      "issue", "up"}
  /\ \A w \in KWorker :
       /\ kworker[w].at \in {"keys", "request", "response", "denied", "mismatch", "refused", "up"}
       /\ kworker[w].seq \in 1..(Len(Issuance) + 1)

\* However requests are interrupted, repeated and refused in between: a
\* controller never gets past EnsureAll without all static certificates; the
\* controller manager signs with the key the API servers verify with, on every
\* controller and after every restart, unless two instances generated one at the
\* same time; a worker's kubelet has both its certificates for one key; what a
\* worker is answered always fits the keys on its disk; and only a worker that
\* lost a key is ever told that a certificate was emitted for another one.
KpkiSound ==
  /\ \A i \in KController : kctl[i].at \notin {"off", "ensure"} =>
       \A n \in StaticName : kcerts[<<"static", n>>] # NoKCert
  /\ saMade <= 1 => \A i, j \in KController :
       kctl[i].at = "up" /\ kctl[j].cm # 0 => kctl[i].sa = kctl[j].cm
  /\ \A w \in KWorker :
       /\ kcerts[<<w, "kubelet-client">>] # NoKCert =>
            kcerts[<<w, "kubelet-client">>] = kcerts[<<w, "kubelet-server">>]
       /\ kworker[w].at # "refused"
       /\ kworker[w].at = "mismatch" => \E k \in WorkerKey : <<w, k>> \in lostKey
=============================================================================
