------------------------------ MODULE PkiProofs ------------------------------
(***************************************************************************)
(* Proof that the processes that share a PKI in etcd work with one CA, for *)
(* any number of processes, subjects, certificates and failures.           *)
(***************************************************************************)
EXTENDS Pki, TLAPS

Steps == {"idle", "certGet", "revokeGet", "keyGet", "keyPut", "caCert", "caCertPut", "crlPut",
          "certPut", "revokePut"}
Calls == {"none", "ca", "member", "revoke"}
Operation == [at : Steps, call : Calls, subject : Subject \cup {NoPkiKey}, fresh : {"yes", "no"},
              seen : SUBSET (1 .. MaxSerial)]

(* The steps a process takes with the CA's key, and those behind the CA's  *)
(* certificate.                                                            *)
WithKey == {"caCert", "caCertPut", "crlPut", "certPut", "revokePut"}
WithCert == {"crlPut", "certPut", "revokePut"}

(* Serials of the certificates that are stored. *)
Serials == {issued[s].serial : s \in {t \in Subject : issued[t] # NoCert}}

TypesInv ==
  /\ PkiTypeOK
  /\ op \in [Proc -> Operation]
  /\ crl.exists \in {"yes", "no"} /\ crl = [exists |-> crl.exists, revoked |-> crl.revoked]
  /\ pkiFaults \in Nat

(* There is one key, and nobody works with another. *)
KeyInv ==
  /\ \A p \in Proc : caKey[p] \in {NoPkiKey, etcdKey}
  /\ \A p \in Proc : op[p].at \in WithKey => caKey[p] # NoPkiKey
  /\ \A p \in Proc : op[p].at \in WithCert => caCert # NoCert
  /\ caCert # NoCert => caCert.key = etcdKey /\ etcdKey # NoPkiKey /\ caCert.serial \in 1 .. serial

(* Certificates are issued behind that of the CA, and never replaced. *)
IssuedInv ==
  /\ \A s \in Subject : issued[s] # NoCert =>
       /\ caCert # NoCert /\ issued[s].key = etcdKey
       /\ issued[s].serial \in 1 .. serial /\ issued[s].serial # caCert.serial
  /\ \A h \in handedOut : issued[h[1]] # NoCert /\ issued[h[1]].serial = h[2]

(* What a process is about to put on the list. *)
RevokeInv ==
  /\ \A p \in Proc : op[p].seen \subseteq Serials
  /\ \A p \in Proc : op[p].call = "none" <=> op[p].at = "idle"
  /\ \A p \in Proc : op[p].call \in {"member", "revoke"} => op[p].subject \in Subject
  /\ \A p \in Proc : op[p].at = "certPut" => op[p].call = "member"
  /\ \A p \in Proc : op[p].at = "certGet" => op[p].call = "member"
  /\ \A p \in Proc : op[p].at \in {"revokeGet", "revokePut"} => op[p].call = "revoke"
  /\ \A p \in Proc : op[p].call = "revoke" /\ op[p].at # "revokeGet" => issued[op[p].subject] # NoCert
  /\ crl.revoked \subseteq Serials
  /\ revoked \subseteq Serials

(* Nobody has loaded the key that another process made. *)
Lone == \A p \in Proc : caKey[p] \in {NoPkiKey, p}

(* Who made the key puts the list, before anything is issued, unless it    *)
(* fails or somebody else is faster.                                       *)
ListInv ==
  /\ \A p \in Proc : op[p].fresh = "yes" => op[p].at \in {"caCert", "caCertPut", "crlPut"}
  /\ pkiFaults = 0 /\ crl.exists = "no" /\ Lone =>
       /\ etcdKey # NoPkiKey => op[etcdKey].fresh = "yes" /\ caKey[etcdKey] = etcdKey
       /\ caCert # NoCert => op[etcdKey].at = "crlPut"
       /\ \A s \in Subject : issued[s] = NoCert

PkiInv == TypesInv /\ KeyInv /\ IssuedInv /\ RevokeInv /\ ListInv

-----------------------------------------------------------------------------
(* What a step does to the operation of its process. *)
Becomes(p, a, c, s, f, n) ==
  /\ op' \in [Proc -> Operation]
  /\ \A q \in Proc : q # p => op'[q] = op[q]
  /\ op'[p].at = a /\ op'[p].call = c /\ op'[p].subject = s /\ op'[p].fresh = f /\ op'[p].seen = n

Moves(p, a) == Becomes(p, a, op[p].call, op[p].subject, op[p].fresh, op[p].seen)
Returns(p) == Becomes(p, "idle", "none", NoPkiKey, "no", {})

(* A process that goes on changes nothing but where it is. *)
LEMMA GotoMoves ==
  ASSUME TypesInv, NEW p \in Proc, NEW a \in Steps, PkiGoto(p, a)
  PROVE  Moves(p, a)
BY DEF TypesInv, Operation, PkiGoto, Moves, Becomes

(* A process that returns has nothing in hand. *)
LEMMA ReturnReturns ==
  ASSUME TypesInv, NEW p \in Proc, PkiReturn(p)
  PROVE  Returns(p)
BY DEF TypesInv, Operation, PkiReturn, Returns, Becomes, Idle, Steps, Calls

(* A call is begun, and nothing else changes. *)
LEMMA CallKeeps ==
  ASSUME PkiInv, NEW p \in Proc,
         \/ Call(p, "ca", NoPkiKey)
         \/ \E s \in Subject : Call(p, "member", s) \/ Call(p, "revoke", s)
  PROVE  PkiInv'
<1>1. PICK c \in {"ca", "member", "revoke"}, s \in Subject \cup {NoPkiKey} :
        Call(p, c, s) /\ (c # "ca" => s \in Subject)
  OBVIOUS
<1>2. PICK a \in {"keyGet", "caCert", "certGet", "revokeGet"} :
        /\ op' = [op EXCEPT ![p] = [Idle EXCEPT !.at = a, !.call = c, !.subject = s]]
        /\ (c = "member") = (a = "certGet") /\ (c = "revoke") = (a = "revokeGet")
        /\ a = "caCert" => caKey[p] # NoPkiKey
  BY <1>1 DEF Call, AfterKey
<1>3. Becomes(p, a, c, s, "no", {})
  BY <1>2 DEF PkiInv, TypesInv, Operation, Becomes, Idle, Steps, Calls
<1>4. UNCHANGED <<etcdKey, caCert, issued, crl, caKey, serial, handedOut, revoked, pkiFaults>>
  BY <1>1 DEF Call
<1>5. op[p].at = "idle"
  BY <1>1 DEF Call, At
<1>6. TypesInv' /\ Serials' = Serials
  BY <1>3, <1>4 DEF PkiInv, TypesInv, PkiTypeOK, Becomes, Serials
<1>7. KeyInv' /\ IssuedInv'
  BY <1>2, <1>3, <1>4 DEF PkiInv, KeyInv, IssuedInv, Becomes, WithKey, WithCert
<1>8. RevokeInv'
  BY <1>1, <1>2, <1>3, <1>4, <1>6 DEF PkiInv, RevokeInv, Becomes
<1>9. ListInv'
  <2>1. Lone' = Lone /\ op[p].fresh = "no"
    BY <1>4, <1>5 DEF PkiInv, TypesInv, ListInv, Lone, Operation
  <2>2. QED
    BY <1>3, <1>4, <1>5, <2>1 DEF PkiInv, KeyInv, TypesInv, PkiTypeOK, ListInv, Becomes
<1>10. QED
  BY <1>6, <1>7, <1>8, <1>9 DEF PkiInv

-----------------------------------------------------------------------------
(* The key is loaded: it is the one in etcd. *)
LEMMA KeyGetKeeps ==
  ASSUME PkiInv, NEW p \in Proc, KeyGet(p)
  PROVE  PkiInv'
<1>1. PICK a \in {"caCert", "keyPut"} :
        PkiGoto(p, a) /\ (a = "caCert" => etcdKey # NoPkiKey)
  BY DEF KeyGet, AfterKey
<1>2. Moves(p, a)
  BY <1>1, GotoMoves DEF PkiInv, Steps
<1>3. /\ caKey' = [caKey EXCEPT ![p] = etcdKey] /\ op[p].at = "keyGet"
      /\ UNCHANGED <<etcdKey, caCert, issued, crl, serial, handedOut, revoked, pkiFaults>>
  BY DEF KeyGet, At
<1>4. TypesInv' /\ Serials' = Serials
  BY <1>2, <1>3 DEF PkiInv, TypesInv, PkiTypeOK, Moves, Becomes, Serials
<1>5. KeyInv' /\ IssuedInv'
  BY <1>1, <1>2, <1>3 DEF PkiInv, KeyInv, IssuedInv, TypesInv, PkiTypeOK, Moves, Becomes, WithKey, WithCert
<1>6. RevokeInv'
  BY <1>2, <1>3, <1>4 DEF PkiInv, RevokeInv, Moves, Becomes
<1>7. ListInv'
  <2>1. Lone' => Lone
    BY <1>3 DEF PkiInv, KeyInv, TypesInv, PkiTypeOK, Lone
  <2>2. op[p].fresh = "no"
    BY <1>3 DEF PkiInv, TypesInv, ListInv, Operation
  <2>3. QED
    BY <1>2, <1>3, <2>1, <2>2 DEF PkiInv, TypesInv, PkiTypeOK, KeyInv, ListInv, Moves, Becomes
<1>8. QED
  BY <1>4, <1>5, <1>6, <1>7 DEF PkiInv

(* A process that returns and does nothing else. *)
LEMMA ReturnKeeps ==
  ASSUME PkiInv, NEW p \in Proc, PkiReturn(p),
         op[p].fresh = "no" \/ pkiFaults' > 0 \/ ~(crl.exists = "no" /\ Lone),
         UNCHANGED <<etcdKey, caCert, issued, crl, handedOut>>,
         serial' \in serial .. MaxSerial, pkiFaults' \in Nat, pkiFaults <= pkiFaults',
         caKey' = caKey \/ (caKey' = [caKey EXCEPT ![p] = NoPkiKey] /\ pkiFaults' > 0),
         revoked' \subseteq Serials
  PROVE  PkiInv'
<1>1. Returns(p)
  BY ReturnReturns DEF PkiInv
<1>2. TypesInv' /\ Serials' = Serials
  BY <1>1, PkiAssumption
  DEF PkiInv, TypesInv, PkiTypeOK, IssuedInv, Returns, Becomes, Serials, Cert
<1>3. KeyInv' /\ IssuedInv'
  BY <1>1, PkiAssumption
  DEF PkiInv, KeyInv, IssuedInv, TypesInv, PkiTypeOK, Returns, Becomes, WithKey, WithCert
<1>4. RevokeInv'
  BY <1>1, <1>2 DEF PkiInv, RevokeInv, Returns, Becomes
<1>5. ListInv'
  <2>1. CASE pkiFaults' > 0
    BY <1>1, <2>1 DEF PkiInv, TypesInv, ListInv, Returns, Becomes
  <2>2. CASE ~(pkiFaults' > 0) /\ ~(crl.exists = "no" /\ Lone)
    BY <1>1, <2>2 DEF PkiInv, TypesInv, ListInv, Returns, Becomes, Lone
  <2>3. CASE ~(pkiFaults' > 0) /\ op[p].fresh = "no"
    <3>1. Lone' = Lone /\ pkiFaults = 0 /\ op[p].fresh = "no"
      BY <2>3 DEF PkiInv, TypesInv, Lone
    <3>2. pkiFaults = 0 /\ crl.exists = "no" /\ Lone /\ etcdKey # NoPkiKey => etcdKey # p
      BY <3>1 DEF PkiInv, ListInv
    <3>3. caCert # NoCert => etcdKey # NoPkiKey
      BY DEF PkiInv, KeyInv
    <3>4. QED
      BY <1>1, <3>1, <3>2, <3>3 DEF PkiInv, TypesInv, PkiTypeOK, ListInv, Returns, Becomes
  <2>4. QED
    BY <2>1, <2>2, <2>3
<1>6. QED
  BY <1>2, <1>3, <1>4, <1>5 DEF PkiInv

(* A request fails, or the process is started anew. *)
LEMMA FailsKeep ==
  ASSUME PkiInv, NEW p \in Proc, RequestFails(p) \/ PkiRestart(p)
  PROVE  PkiInv'
<1>1. pkiFaults' \in Nat /\ pkiFaults <= pkiFaults' /\ pkiFaults' > 0
  BY DEF RequestFails, PkiRestart, PkiInv, TypesInv
<1>2. serial \in serial .. MaxSerial /\ revoked \subseteq Serials
  BY PkiAssumption DEF PkiInv, TypesInv, PkiTypeOK, RevokeInv
<1>3. QED
  BY <1>1, <1>2, ReturnKeeps DEF RequestFails, PkiRestart

(* A process that looked and returns. *)
LEMMA QuietReturn ==
  ASSUME PkiInv, NEW p \in Proc, PkiReturn(p),
         op[p].fresh = "no" \/ ~(pkiFaults = 0 /\ crl.exists = "no" /\ Lone),
         UNCHANGED <<etcdKey, caCert, issued, crl, caKey, handedOut, revoked, pkiFaults>>,
         serial' = serial \/ (serial < MaxSerial /\ serial' = serial + 1)
  PROVE  PkiInv'
<1>1. serial' \in serial .. MaxSerial /\ revoked \subseteq Serials /\ pkiFaults \in Nat
  BY PkiAssumption DEF PkiInv, TypesInv, PkiTypeOK, RevokeInv
<1>2. op[p].fresh = "no" \/ pkiFaults' > 0 \/ ~(crl.exists = "no" /\ Lone)
  BY <1>1
<1>3. QED
  BY <1>1, <1>2, ReturnKeeps

-----------------------------------------------------------------------------
(* The key is made where there is none, so nobody works with a key yet. *)
LEMMA KeyPutKeeps ==
  ASSUME PkiInv, NEW p \in Proc, KeyPut(p)
  PROVE  PkiInv'
<1>1. op[p].at = "keyPut" /\ op[p].fresh = "no"
  BY DEF KeyPut, At, PkiInv, TypesInv, ListInv, Operation
<1>2. CASE etcdKey # NoPkiKey
  BY <1>1, <1>2, QuietReturn DEF KeyPut
<1>3. CASE etcdKey = NoPkiKey
  <2>1. /\ etcdKey' = p /\ caKey' = [caKey EXCEPT ![p] = p] /\ p # NoPkiKey
        /\ op' = [op EXCEPT ![p].at = "caCert", ![p].fresh = "yes"]
        /\ UNCHANGED <<caCert, issued, crl, serial, handedOut, revoked, pkiFaults>>
    BY <1>3, PkiAssumption DEF KeyPut, AfterKey, NoPkiKey
  <2>2. Becomes(p, "caCert", op[p].call, op[p].subject, "yes", op[p].seen)
    BY <2>1 DEF PkiInv, TypesInv, Operation, Becomes, Steps
  <2>3. caCert = NoCert /\ \A s \in Subject : issued[s] = NoCert
    BY <1>3 DEF PkiInv, KeyInv, IssuedInv
  <2>4. TypesInv' /\ Serials' = Serials
    BY <2>1, <2>2 DEF PkiInv, TypesInv, PkiTypeOK, Becomes, Serials
  <2>5. KeyInv' /\ IssuedInv'
    BY <1>3, <2>1, <2>2, <2>3
    DEF PkiInv, KeyInv, IssuedInv, TypesInv, PkiTypeOK, Becomes, WithKey, WithCert
  <2>6. RevokeInv'
    BY <1>1, <2>1, <2>2, <2>4 DEF PkiInv, RevokeInv, Becomes
  <2>7. ListInv'
    BY <2>1, <2>2, <2>3 DEF PkiInv, TypesInv, PkiTypeOK, ListInv, Becomes
  <2>8. QED
    BY <2>4, <2>5, <2>6, <2>7 DEF PkiInv
<1>4. QED
  BY <1>2, <1>3

(* The list is put where there is none. *)
LEMMA CrlPutKeeps ==
  ASSUME PkiInv, NEW p \in Proc, CrlPut(p)
  PROVE  PkiInv'
<1>1. /\ op[p].at = "crlPut" /\ op' = [op EXCEPT ![p].at = "caCert", ![p].fresh = "no"]
      /\ UNCHANGED <<etcdKey, caCert, issued, caKey, serial, handedOut, revoked, pkiFaults>>
  BY DEF CrlPut, At, AfterKey
<1>2. /\ crl' = [exists |-> "yes", revoked |-> crl'.revoked]
      /\ crl'.exists = "yes" /\ crl'.revoked \subseteq crl.revoked
  BY DEF CrlPut, PkiInv, TypesInv
<1>3. Becomes(p, "caCert", op[p].call, op[p].subject, "no", op[p].seen)
  BY <1>1 DEF PkiInv, TypesInv, Operation, Becomes, Steps
<1>4. TypesInv' /\ Serials' = Serials
  BY <1>1, <1>2, <1>3 DEF PkiInv, TypesInv, PkiTypeOK, Becomes, Serials
<1>5. KeyInv' /\ IssuedInv'
  BY <1>1, <1>3 DEF PkiInv, KeyInv, IssuedInv, Becomes, WithKey, WithCert
<1>6. RevokeInv'
  BY <1>1, <1>2, <1>3, <1>4 DEF PkiInv, RevokeInv, Becomes
<1>7. ListInv'
  BY <1>1, <1>2, <1>3 DEF PkiInv, ListInv, Becomes
<1>8. QED
  BY <1>4, <1>5, <1>6, <1>7 DEF PkiInv

-----------------------------------------------------------------------------
(* Behind the certificate of the CA. *)
LEMMA EnsuredMoves ==
  ASSUME PkiInv, NEW p \in Proc, op[p].at \in {"caCert", "caCertPut"}, Ensured(p)
  PROVE  \/ op[p].fresh = "yes" /\ Moves(p, "crlPut")
         \/ op[p].fresh = "no" /\ PkiReturn(p)
         \/ op[p].fresh = "no" /\ op[p].call = "member" /\ Moves(p, "certPut")
         \/ op[p].fresh = "no" /\ op[p].call = "revoke" /\ Moves(p, "revokePut")
<1>1. op[p].call \in {"ca", "member", "revoke"} /\ op[p].fresh \in {"yes", "no"}
  BY DEF PkiInv, TypesInv, RevokeInv, Operation, Calls
<1>2. \A a \in {"crlPut", "certPut", "revokePut"} : PkiGoto(p, a) => Moves(p, a)
  BY GotoMoves DEF PkiInv, Steps
<1>3. CASE op[p].fresh = "yes"
  <2>1. PkiGoto(p, "crlPut")
    BY <1>3 DEF Ensured, PkiGoto, PkiReturn
  <2>2. QED
    BY <1>2, <1>3, <2>1
<1>4. CASE op[p].fresh = "no" /\ op[p].call = "ca"
  <2>1. PkiReturn(p)
    BY <1>4 DEF Ensured, PkiGoto, PkiReturn
  <2>2. QED
    BY <1>4, <2>1
<1>5. CASE op[p].fresh = "no" /\ op[p].call = "member"
  <2>1. PkiGoto(p, "certPut")
    BY <1>5 DEF Ensured, PkiGoto, PkiReturn
  <2>2. QED
    BY <1>2, <1>5, <2>1
<1>6. CASE op[p].fresh = "no" /\ op[p].call = "revoke"
  <2>1. PkiGoto(p, "revokePut")
    BY <1>6 DEF Ensured, PkiGoto, PkiReturn
  <2>2. QED
    BY <1>2, <1>6, <2>1
<1>7. QED
  BY <1>1, <1>3, <1>4, <1>5, <1>6

(* A process that moves on behind the certificate of the CA: to the list   *)
(* if it made the key, and to what it was called for otherwise.            *)
LEMMA MovesKeeps ==
  ASSUME PkiInv, NEW p \in Proc, op[p].at \in {"caCert", "caCertPut"}, Ensured(p),
         UNCHANGED <<etcdKey, issued, crl, caKey, handedOut, revoked, pkiFaults>>,
         \/ UNCHANGED <<caCert, serial>> /\ caCert # NoCert
         \/ /\ caCert = NoCert /\ serial < MaxSerial /\ serial' = serial + 1
            /\ caCert' = [serial |-> serial + 1, key |-> caKey[p]]
  PROVE  PkiInv'
<1>1. /\ caKey[p] = etcdKey /\ etcdKey \in Proc /\ serial \in Nat /\ serial' \in Nat
      /\ serial <= serial' /\ serial' <= MaxSerial
  BY PkiAssumption DEF PkiInv, KeyInv, TypesInv, PkiTypeOK, WithKey
<1>2. /\ caCert' \in Cert /\ caCert' # NoCert /\ caCert'.key = etcdKey
      /\ caCert'.serial \in 1 .. serial'
  BY <1>1, PkiAssumption DEF PkiInv, KeyInv, TypesInv, PkiTypeOK, Cert, NoCert
<1>3. caCert' = caCert \/ \A s \in Subject : issued[s] = NoCert
  BY DEF PkiInv, IssuedInv
<1>4. IssuedInv'
  BY <1>1, <1>2, <1>3 DEF PkiInv, IssuedInv, TypesInv, PkiTypeOK
<1>5. Serials' = Serials
  BY DEF Serials
<1>6. Lone => etcdKey = p
  BY <1>1 DEF Lone, PkiInv, KeyInv, TypesInv, PkiTypeOK, WithKey
<1>7. op[p].fresh = "no" => ~(pkiFaults = 0 /\ crl.exists = "no" /\ Lone)
  BY <1>1, <1>6, PkiAssumption DEF PkiInv, ListInv, NoPkiKey
<1>8. /\ op' \in [Proc -> Operation]
      /\ \A q \in Proc : q # p => op'[q] = op[q]
      /\ \/ /\ op[p].fresh = "no" /\ op'[p].at = "idle" /\ op'[p].call = "none"
            /\ op'[p].fresh = "no" /\ op'[p].seen = {}
         \/ /\ op'[p].call = op[p].call /\ op'[p].subject = op[p].subject
            /\ op'[p].fresh = op[p].fresh /\ op'[p].seen = op[p].seen
            /\ \/ op[p].fresh = "yes" /\ op'[p].at = "crlPut"
               \/ op[p].fresh = "no" /\ op[p].call = "member" /\ op'[p].at = "certPut"
               \/ op[p].fresh = "no" /\ op[p].call = "revoke" /\ op'[p].at = "revokePut"
  <2>1. PkiReturn(p) => Returns(p)
    BY ReturnReturns DEF PkiInv
  <2>2. QED
    BY <2>1, EnsuredMoves DEF Moves, Returns, Becomes
<1>9. TypesInv'
  BY <1>1, <1>2, <1>8, PkiAssumption DEF PkiInv, TypesInv, PkiTypeOK
<1>10. KeyInv'
  BY <1>1, <1>2, <1>8, PkiAssumption DEF PkiInv, KeyInv, WithKey, WithCert, NoPkiKey
<1>11. RevokeInv'
  BY <1>5, <1>8 DEF PkiInv, RevokeInv
<1>12. ListInv'
  <2>1. Lone' = Lone
    BY DEF Lone
  <2>2. \A q \in Proc : op'[q].fresh = "yes" => op'[q].at \in {"caCert", "caCertPut", "crlPut"}
    BY <1>8 DEF PkiInv, ListInv
  <2>3. pkiFaults = 0 /\ crl.exists = "no" /\ Lone => op'[p].at = "crlPut" /\ op'[p].fresh = "yes"
    BY <1>7, <1>8
  <2>4. QED
    BY <1>1, <1>6, <2>1, <2>2, <2>3 DEF PkiInv, ListInv
<1>13. QED
  BY <1>4, <1>9, <1>10, <1>11, <1>12 DEF PkiInv

(* The certificate of the CA is looked up. *)
LEMMA CaCertGetKeeps ==
  ASSUME PkiInv, NEW p \in Proc, CaCertGet(p)
  PROVE  PkiInv'
<1>1. /\ op[p].at = "caCert"
      /\ UNCHANGED <<etcdKey, caCert, issued, crl, caKey, serial, handedOut, revoked, pkiFaults>>
  BY DEF CaCertGet, At, AfterKey
<1>2. caCert # NoCert => caCert.key = caKey[p]
  BY <1>1 DEF PkiInv, KeyInv, WithKey
<1>3. CASE caCert # NoCert
  <2>1. Ensured(p)
    BY <1>2, <1>3 DEF CaCertGet, Ensured, PkiGoto, PkiReturn
  <2>2. QED
    BY <1>1, <1>3, <2>1, MovesKeeps
<1>4. CASE caCert = NoCert
  <2>1. Moves(p, "caCertPut")
    <3>1. PkiGoto(p, "caCertPut")
      BY <1>4 DEF CaCertGet, Ensured, PkiGoto, PkiReturn
    <3>2. QED
      BY <3>1, GotoMoves DEF PkiInv, Steps
  <2>2. TypesInv' /\ Serials' = Serials
    BY <1>1, <2>1 DEF PkiInv, TypesInv, PkiTypeOK, Moves, Becomes, Serials
  <2>3. KeyInv' /\ IssuedInv'
    BY <1>1, <2>1 DEF PkiInv, KeyInv, IssuedInv, Moves, Becomes, WithKey, WithCert
  <2>4. RevokeInv'
    BY <1>1, <2>1, <2>2 DEF PkiInv, RevokeInv, Moves, Becomes
  <2>5. ListInv'
    <3>1. Lone' = Lone
      BY <1>1 DEF Lone
    <3>2. QED
      BY <1>1, <1>4, <2>1, <3>1 DEF PkiInv, TypesInv, PkiTypeOK, ListInv, Moves, Becomes
  <2>6. QED
    BY <2>2, <2>3, <2>4, <2>5 DEF PkiInv
<1>5. QED
  BY <1>3, <1>4

(* A process that works for somebody else's key, or is past the list, is   *)
(* not the one that has to put it.                                         *)
LEMMA ListSettled ==
  ASSUME PkiInv, NEW p \in Proc,
         op[p].at \in {"certPut", "revokePut"} \/ (op[p].at = "caCertPut" /\ caCert # NoCert)
  PROVE  /\ op[p].at # "caCertPut" => op[p].fresh = "no"
         /\ ~(pkiFaults = 0 /\ crl.exists = "no" /\ Lone)
<1>1. caKey[p] = etcdKey /\ etcdKey # NoPkiKey
  BY DEF PkiInv, KeyInv, WithKey
<1>2. Lone => etcdKey = p
  BY <1>1 DEF Lone
<1>3. op[p].at # "caCertPut" => op[p].fresh = "no"
  BY DEF PkiInv, TypesInv, ListInv, Operation
<1>4. QED
  BY <1>1, <1>2, <1>3 DEF PkiInv, ListInv

(* The certificate of the CA is put unless somebody else was faster. *)
LEMMA CaCertPutKeeps ==
  ASSUME PkiInv, NEW p \in Proc, CaCertPut(p)
  PROVE  PkiInv'
<1>1. /\ op[p].at = "caCertPut" /\ serial < MaxSerial /\ serial' = serial + 1
      /\ UNCHANGED <<etcdKey, issued, crl, caKey, handedOut, revoked, pkiFaults>>
  BY DEF CaCertPut, At
<1>2. CASE caCert = NoCert
  <2>1. Ensured(p) /\ caCert' = [serial |-> serial + 1, key |-> caKey[p]]
    BY <1>2 DEF CaCertPut
  <2>2. QED
    BY <1>1, <1>2, <2>1, MovesKeeps
<1>3. CASE caCert # NoCert
  <2>1. PkiReturn(p) /\ UNCHANGED caCert
    BY <1>3 DEF CaCertPut
  <2>2. QED
    BY <1>1, <1>3, <2>1, ListSettled, QuietReturn
<1>4. QED
  BY <1>2, <1>3

-----------------------------------------------------------------------------
(* A stored certificate is returned, or the issuer is looked up. *)
LEMMA CertGetKeeps ==
  ASSUME PkiInv, NEW p \in Proc, CertGet(p)
  PROVE  PkiInv'
<1>1. /\ op[p].at = "certGet"
      /\ UNCHANGED <<etcdKey, caCert, issued, crl, caKey, serial, revoked, pkiFaults>>
  BY DEF CertGet, At
<1>2. op[p].fresh = "no" /\ op[p].subject \in Subject /\ op[p].call = "member"
  BY <1>1 DEF PkiInv, TypesInv, ListInv, RevokeInv, Operation
<1>3. Lone' = Lone /\ Serials' = Serials
  BY <1>1 DEF Lone, Serials
<1>4. CASE issued[op[p].subject] # NoCert
  <2>1. Returns(p)
    BY <1>4, ReturnReturns DEF CertGet, PkiInv
  <2>2. handedOut' = handedOut \cup {<<op[p].subject, issued[op[p].subject].serial>>}
    BY <1>4 DEF CertGet
  <2>3. issued[op[p].subject].serial \in 1 .. MaxSerial
    BY <1>2, <1>4, PkiAssumption DEF PkiInv, IssuedInv, TypesInv, PkiTypeOK
  <2>4. TypesInv'
    BY <1>1, <1>2, <2>1, <2>2, <2>3 DEF PkiInv, TypesInv, PkiTypeOK, Returns, Becomes
  <2>5. KeyInv'
    BY <1>1, <2>1 DEF PkiInv, KeyInv, Returns, Becomes, WithKey, WithCert
  <2>6. IssuedInv'
    BY <1>1, <1>2, <1>4, <2>2 DEF PkiInv, IssuedInv
  <2>7. RevokeInv'
    BY <1>1, <1>3, <2>1 DEF PkiInv, RevokeInv, Returns, Becomes
  <2>8. ListInv'
    BY <1>1, <1>2, <1>3, <2>1
    DEF PkiInv, KeyInv, TypesInv, PkiTypeOK, ListInv, Returns, Becomes
  <2>9. QED
    BY <2>4, <2>5, <2>6, <2>7, <2>8 DEF PkiInv
<1>5. CASE issued[op[p].subject] = NoCert
  <2>1. PICK a \in {"keyGet", "caCert"} : PkiGoto(p, a) /\ (a = "caCert" => caKey[p] # NoPkiKey)
    BY <1>5 DEF CertGet, AfterKey
  <2>2. Moves(p, a) /\ UNCHANGED handedOut
    BY <1>5, <2>1, GotoMoves DEF PkiInv, Steps, CertGet
  <2>3. TypesInv'
    BY <1>1, <2>2 DEF PkiInv, TypesInv, PkiTypeOK, Moves, Becomes
  <2>4. KeyInv' /\ IssuedInv'
    BY <1>1, <2>1, <2>2 DEF PkiInv, KeyInv, IssuedInv, Moves, Becomes, WithKey, WithCert
  <2>5. RevokeInv'
    BY <1>1, <1>2, <1>3, <2>2 DEF PkiInv, RevokeInv, Moves, Becomes
  <2>6. ListInv'
    BY <1>1, <1>2, <1>3, <2>2
    DEF PkiInv, KeyInv, TypesInv, PkiTypeOK, ListInv, Moves, Becomes
  <2>7. QED
    BY <2>3, <2>4, <2>5, <2>6 DEF PkiInv
<1>6. QED
  BY <1>4, <1>5

(* A certificate is put unless its subject has one by now. *)
LEMMA CertPutKeeps ==
  ASSUME PkiInv, NEW p \in Proc, CertPut(p)
  PROVE  PkiInv'
<1>1. /\ op[p].at = "certPut" /\ serial < MaxSerial /\ serial' = serial + 1 /\ PkiReturn(p)
      /\ UNCHANGED <<etcdKey, caCert, crl, caKey, revoked, pkiFaults>>
  BY DEF CertPut, At
<1>2. op[p].fresh = "no" /\ ~(pkiFaults = 0 /\ crl.exists = "no" /\ Lone)
  BY <1>1, ListSettled
<1>3. CASE issued[op[p].subject] # NoCert
  <2>1. UNCHANGED <<issued, handedOut>>
    BY <1>3 DEF CertPut
  <2>2. QED
    BY <1>1, <1>2, <2>1, QuietReturn
<1>4. CASE issued[op[p].subject] = NoCert
  <2> DEFINE s == op[p].subject
             c == [serial |-> serial + 1, key |-> caKey[p]]
  <2>1. issued' = [issued EXCEPT ![s] = c] /\ handedOut' = handedOut \cup {<<s, serial + 1>>}
    BY <1>4 DEF CertPut
  <2>2. Returns(p) /\ s \in Subject
    BY <1>1, ReturnReturns DEF PkiInv, RevokeInv
  <2>3. /\ caKey[p] = etcdKey /\ etcdKey \in Proc /\ etcdKey # NoPkiKey /\ caCert # NoCert
        /\ caCert.serial \in 1 .. serial /\ serial \in 0 .. MaxSerial
    BY <1>1 DEF PkiInv, KeyInv, TypesInv, PkiTypeOK, WithKey, WithCert
  <2>4. c \in Cert /\ c # NoCert /\ c.key = etcdKey /\ c.serial \in 1 .. serial'
        /\ c.serial # caCert.serial /\ serial' \in 0 .. MaxSerial
    BY <1>1, <2>3, PkiAssumption DEF Cert, NoCert
  <2>5. issued' \in [Subject -> Cert] /\ issued'[s] = c
        /\ \A t \in Subject : t # s => issued'[t] = issued[t]
    BY <2>1, <2>2, <2>4 DEF PkiInv, TypesInv, PkiTypeOK
  <2> HIDE DEF s, c
  <2>6. Serials \subseteq Serials'
    BY <1>4, <2>5 DEF Serials, s
  <2>7. TypesInv'
    <3>1. handedOut' \subseteq Subject \X (1 .. MaxSerial)
      <4>1. serial + 1 \in 1 .. MaxSerial
        BY <1>1, <2>3, PkiAssumption
      <4>2. handedOut \subseteq Subject \X (1 .. MaxSerial)
        BY DEF PkiInv, TypesInv, PkiTypeOK
      <4>3. <<s, serial + 1>> \in Subject \X (1 .. MaxSerial)
        BY <2>2, <4>1
      <4>4. QED
        BY <2>1, <4>2, <4>3, Zenon
    <3>2. QED
      BY <1>1, <2>2, <2>4, <2>5, <3>1 DEF PkiInv, TypesInv, PkiTypeOK, Returns, Becomes
  <2>8. KeyInv'
    BY <1>1, <2>2, <2>3, PkiAssumption DEF PkiInv, KeyInv, Returns, Becomes, WithKey, WithCert
  <2>9. IssuedInv'
    <3>1. \A t \in Subject : issued'[t] # NoCert =>
            /\ caCert' # NoCert /\ issued'[t].key = etcdKey'
            /\ issued'[t].serial \in 1 .. serial' /\ issued'[t].serial # caCert'.serial
      BY <1>1, <2>3, <2>4, <2>5 DEF PkiInv, IssuedInv
    <3>2. \A h \in handedOut : issued'[h[1]] # NoCert /\ issued'[h[1]].serial = h[2]
      <4>1. \A h \in handedOut : h[1] \in Subject /\ h[1] # s
        BY <1>4 DEF PkiInv, IssuedInv, TypesInv, PkiTypeOK, s
      <4>2. QED
        BY <2>5, <4>1 DEF PkiInv, IssuedInv
    <3>3. c.serial = serial + 1
      BY DEF c
    <3>4. \A h \in handedOut' : issued'[h[1]] # NoCert /\ issued'[h[1]].serial = h[2]
      <4>1. \A h \in handedOut' : h \in handedOut \/ (h[1] = s /\ h[2] = serial + 1)
        BY <2>1
      <4>2. QED
        BY <2>4, <2>5, <3>2, <3>3, <4>1
    <3>5. QED
      BY <3>1, <3>4 DEF IssuedInv
  <2>10. RevokeInv'
    <3>1. \A t \in Subject : issued[t] # NoCert => issued'[t] # NoCert
      BY <2>4, <2>5
    <3>2. QED
      BY <1>1, <2>2, <2>6, <3>1 DEF PkiInv, RevokeInv, Returns, Becomes
  <2>11. ListInv'
    BY <1>1, <1>2, <2>2 DEF PkiInv, ListInv, Returns, Becomes, Lone
  <2>12. QED
    BY <2>7, <2>8, <2>9, <2>10, <2>11 DEF PkiInv
<1>5. QED
  BY <1>3, <1>4

-----------------------------------------------------------------------------
(* The list and the certificate are looked up. *)
LEMMA RevokeGetKeeps ==
  ASSUME PkiInv, NEW p \in Proc, RevokeGet(p)
  PROVE  PkiInv'
<1>1. /\ op[p].at = "revokeGet"
      /\ UNCHANGED <<etcdKey, caCert, issued, crl, caKey, serial, handedOut, pkiFaults>>
  BY DEF RevokeGet, At
<1>2. op[p].fresh = "no" /\ op[p].subject \in Subject /\ op[p].call = "revoke"
  BY <1>1 DEF PkiInv, TypesInv, ListInv, RevokeInv, Operation
<1>3. CASE crl.exists = "no" \/ issued[op[p].subject] = NoCert
  <2>1. PkiReturn(p) /\ UNCHANGED revoked
    BY <1>3 DEF RevokeGet
  <2>2. QED
    BY <1>1, <1>2, <2>1, QuietReturn
<1>4. CASE ~(crl.exists = "no" \/ issued[op[p].subject] = NoCert)
  <2>1. issued[op[p].subject].serial \in Serials /\ crl.revoked \subseteq Serials
    BY <1>2, <1>4 DEF PkiInv, RevokeInv, Serials
  <2>2. CASE issued[op[p].subject].serial \in crl.revoked
    <3>1. PkiReturn(p) /\ revoked' = revoked \cup {issued[op[p].subject].serial}
      BY <1>4, <2>2 DEF RevokeGet
    <3>2. revoked' \subseteq Serials /\ serial' \in serial .. MaxSerial /\ pkiFaults \in Nat
      BY <1>1, <2>1, <3>1, PkiAssumption DEF PkiInv, RevokeInv, TypesInv, PkiTypeOK
    <3>3. QED
      BY <1>1, <1>2, <3>1, <3>2, ReturnKeeps
  <2>3. CASE issued[op[p].subject].serial \notin crl.revoked
    <3>1. PICK a \in {"keyGet", "caCert"} :
            /\ op' = [op EXCEPT ![p].at = a, ![p].seen = crl.revoked \cup {issued[op[p].subject].serial}]
            /\ a = "caCert" => caKey[p] # NoPkiKey
            /\ UNCHANGED revoked
      BY <1>4, <2>3 DEF RevokeGet, AfterKey
    <3>2. crl.revoked \cup {issued[op[p].subject].serial} \subseteq 1 .. MaxSerial
      BY <1>2, <1>4, PkiAssumption DEF PkiInv, IssuedInv, TypesInv, PkiTypeOK
    <3>3. Becomes(p, a, op[p].call, op[p].subject, op[p].fresh,
                  crl.revoked \cup {issued[op[p].subject].serial})
      BY <3>1, <3>2 DEF PkiInv, TypesInv, Operation, Becomes, Steps
    <3>4. Lone' = Lone /\ Serials' = Serials
      BY <1>1 DEF Lone, Serials
    <3>5. TypesInv'
      BY <1>1, <3>1, <3>3 DEF PkiInv, TypesInv, PkiTypeOK, Becomes
    <3>6. KeyInv' /\ IssuedInv'
      BY <1>1, <3>1, <3>3 DEF PkiInv, KeyInv, IssuedInv, Becomes, WithKey, WithCert
    <3>7. RevokeInv'
      BY <1>1, <1>2, <1>4, <2>1, <3>1, <3>3, <3>4 DEF PkiInv, RevokeInv, Becomes
    <3>8. ListInv'
      BY <1>1, <1>2, <3>1, <3>3, <3>4
      DEF PkiInv, KeyInv, TypesInv, PkiTypeOK, ListInv, Becomes
    <3>9. QED
      BY <3>5, <3>6, <3>7, <3>8 DEF PkiInv
  <2>4. QED
    BY <2>2, <2>3
<1>5. QED
  BY <1>3, <1>4

(* The list is replaced by the one that was read and what was added to it. *)
LEMMA RevokePutKeeps ==
  ASSUME PkiInv, NEW p \in Proc, RevokePut(p)
  PROVE  PkiInv'
<1>1. /\ op[p].at = "revokePut" /\ crl' = [crl EXCEPT !.revoked = op[p].seen]
      /\ revoked' = revoked \cup {issued[op[p].subject].serial}
      /\ UNCHANGED <<etcdKey, caCert, issued, caKey, serial, handedOut, pkiFaults>>
  BY DEF RevokePut, At
<1>2. Returns(p)
  BY ReturnReturns DEF RevokePut, PkiInv
<1>3. op[p].fresh = "no" /\ ~(pkiFaults = 0 /\ crl.exists = "no" /\ Lone)
  BY <1>1, ListSettled
<1>4. op[p].subject \in Subject /\ issued[op[p].subject] # NoCert
  BY <1>1 DEF PkiInv, RevokeInv
<1>5. crl'.exists = crl.exists /\ crl'.revoked = op[p].seen
      /\ crl' = [exists |-> crl.exists, revoked |-> op[p].seen]
  BY <1>1 DEF PkiInv, TypesInv
<1>6. /\ issued[op[p].subject].serial \in Serials /\ issued[op[p].subject].serial \in 1 .. MaxSerial
      /\ Serials' = Serials /\ op[p].seen \subseteq 1 .. MaxSerial
  BY <1>1, <1>4, PkiAssumption
  DEF PkiInv, IssuedInv, TypesInv, PkiTypeOK, Operation, Serials
<1>7. TypesInv'
  BY <1>1, <1>2, <1>5, <1>6 DEF PkiInv, TypesInv, PkiTypeOK, Returns, Becomes
<1>8. KeyInv' /\ IssuedInv'
  BY <1>1, <1>2 DEF PkiInv, KeyInv, IssuedInv, Returns, Becomes, WithKey, WithCert
<1>9. RevokeInv'
  BY <1>1, <1>2, <1>5, <1>6 DEF PkiInv, RevokeInv, Returns, Becomes
<1>10. ListInv'
  BY <1>1, <1>2, <1>3, <1>5 DEF PkiInv, ListInv, Returns, Becomes, Lone
<1>11. QED
  BY <1>7, <1>8, <1>9, <1>10 DEF PkiInv

-----------------------------------------------------------------------------
(* No step breaks the invariant. *)
LEMMA PkiStepInv == PkiInv /\ [PkiNext]_pkiVars => PkiInv'
<1> SUFFICES ASSUME PkiInv, [PkiNext]_pkiVars PROVE PkiInv'
  OBVIOUS
<1>1. CASE UNCHANGED pkiVars
  BY <1>1 DEF pkiVars, PkiInv, TypesInv, PkiTypeOK, KeyInv, IssuedInv, RevokeInv, ListInv, Lone, Serials
<1>2. CASE PkiNext
  <2>1. PICK p \in Proc :
          \/ Call(p, "ca", NoPkiKey)
          \/ \E s \in Subject : Call(p, "member", s) \/ Call(p, "revoke", s)
          \/ KeyGet(p) \/ KeyPut(p) \/ CrlPut(p) \/ CaCertGet(p) \/ CaCertPut(p)
          \/ CertGet(p) \/ CertPut(p) \/ RevokeGet(p) \/ RevokePut(p)
          \/ RequestFails(p) \/ PkiRestart(p)
    BY <1>2 DEF PkiNext
  <2>2. QED
    BY <2>1, CallKeeps, KeyGetKeeps, KeyPutKeeps, CrlPutKeeps, CaCertGetKeeps, CaCertPutKeeps,
       CertGetKeeps, CertPutKeeps, RevokeGetKeeps, RevokePutKeeps, FailsKeep
<1>3. QED
  BY <1>1, <1>2

(* The invariant holds in an empty etcd. *)
LEMMA PkiInitInv == PkiInit => PkiInv
<1> SUFFICES ASSUME PkiInit PROVE PkiInv
  OBVIOUS
<1>1. TypesInv
  BY PkiAssumption
  DEF PkiInit, TypesInv, PkiTypeOK, Operation, Steps, Calls, Idle, NoCert, Cert, NoPkiKey
<1>2. KeyInv /\ IssuedInv
  BY DEF PkiInit, KeyInv, IssuedInv, Idle, WithKey, WithCert, NoPkiKey
<1>3. RevokeInv
  BY DEF PkiInit, RevokeInv, Idle
<1>4. ListInv
  BY DEF PkiInit, ListInv, Idle
<1>5. QED
  BY <1>1, <1>2, <1>3, <1>4 DEF PkiInv

(* What the invariant is for. *)
LEMMA PkiInvSound == PkiInv => PkiTypeOK /\ PkiSound
<1> SUFFICES ASSUME PkiInv PROVE PkiTypeOK /\ PkiSound
  OBVIOUS
<1>1. Serials \subseteq {issued[s].serial : s \in Subject}
  BY DEF Serials
<1>2. handedOut # {} /\ crl.exists = "no" /\ pkiFaults = 0 =>
        \E p \in Proc : caKey[p] # NoPkiKey /\ caKey[p] # p
  <2>1. handedOut # {} => \E s \in Subject : issued[s] # NoCert
    BY DEF PkiInv, TypesInv, PkiTypeOK, IssuedInv
  <2>2. QED
    BY <2>1 DEF PkiInv, ListInv, Lone
<1>3. QED
  BY <1>1, <1>2 DEF PkiInv, TypesInv, KeyInv, IssuedInv, RevokeInv, PkiSound

(* However the calls of any number of processes interleave, fail or are    *)
(* cut short by a restart (ensureKey, ensure, makeCRL and Revoke of        *)
(* osbase/pki): one CA key signed whatever was issued, a certificate that  *)
(* was handed out is the one that is stored, and the revocation list names *)
(* only certificates that were issued.                                     *)
THEOREM PkiSafe == PkiSpec => [](PkiTypeOK /\ PkiSound)
<1>1. PkiInit => PkiInv
  BY PkiInitInv
<1>2. PkiInv /\ [PkiNext]_pkiVars => PkiInv'
  BY PkiStepInv
<1>3. PkiInv => PkiTypeOK /\ PkiSound
  BY PkiInvSound
<1>4. QED
  BY <1>1, <1>2, <1>3, PTL DEF PkiSpec
=============================================================================
