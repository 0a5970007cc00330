-------------------------------- MODULE Pki --------------------------------
(***************************************************************************)
(* Certificates kept in etcd by osbase/pki: a self-signed, managed CA,     *)
(* external certificates that it issues, and its revocation list.          *)
(*                                                                         *)
(* Every process (a node, or a call on one) works through Ensure and       *)
(* Revoke step by step, one step for each etcd request.  A key is named    *)
(* after the process that generated it, a certificate by its serial.       *)
(***************************************************************************)
EXTENDS Naturals, FiniteSets

CONSTANTS
    Proc,      \* processes that use the PKI
    Subject,   \* names of the external certificates, one public key each
    MaxSerial, \* bound on the certificates that are issued
    MaxPkiFaults \* bound on the failures of etcd requests and of processes

(* No process is called like the key that is not there. *)
ASSUME PkiAssumption == "none" \notin Proc /\ MaxSerial \in Nat /\ MaxPkiFaults \in Nat

VARIABLES
    etcdKey,  \* keys/CA-privkey.bin
    caCert,   \* issued/CA-cert.der: its serial and its key
    issued,   \* issued/<subject>-cert.der
    crl,      \* CA-crl.der: [exists, revoked]
    caKey,    \* the key of the CA in the memory of a process
    op,       \* what a process does: [at, call, subject, fresh, seen]
    serial,   \* certificates issued so far
    handedOut,\* certificates that Ensure has returned: <<subject, serial>>
    revoked,  \* serials for which Revoke has returned without an error
    pkiFaults \* failures so far

pkiVars == <<etcdKey, caCert, issued, crl, caKey, op, serial, handedOut, revoked, pkiFaults>>

NoPkiKey == "none"

NoCert == [serial |-> 0, key |-> NoPkiKey]

Idle == [at |-> "idle", call |-> "none", subject |-> NoPkiKey, fresh |-> "no", seen |-> {}]

PkiInit ==
    /\ etcdKey = NoPkiKey
    /\ caCert = NoCert
    /\ issued = [s \in Subject |-> NoCert]
    /\ crl = [exists |-> "no", revoked |-> {}]
    /\ caKey = [p \in Proc |-> NoPkiKey]
    /\ op = [p \in Proc |-> Idle]
    /\ serial = 0
    /\ handedOut = {}
    /\ revoked = {}
    /\ pkiFaults = 0

-----------------------------------------------------------------------------

At(p, a) == op[p].at = a

PkiGoto(p, a) == op' = [op EXCEPT ![p].at = a]

PkiReturn(p) == op' = [op EXCEPT ![p] = Idle]

(* Where a process goes on once the key of the CA is there. *)
AfterKey == "caCert"

(* An external certificate is looked up before its issuer is. *)
Call(p, c, s) ==
    /\ At(p, "idle")
    /\ op' = [op EXCEPT ![p] = [Idle EXCEPT
                !.at = CASE c = "ca"     -> IF caKey[p] = NoPkiKey THEN "keyGet" ELSE AfterKey
                         [] c = "member" -> "certGet"
                         [] c = "revoke" -> "revokeGet",
                !.call = c, !.subject = s]]
    /\ UNCHANGED <<etcdKey, caCert, issued, crl, caKey, serial, handedOut, revoked, pkiFaults>>

-----------------------------------------------------------------------------
(* ensureKey of the managed CA *)

KeyGet(p) ==
    /\ At(p, "keyGet")
    /\ caKey' = [caKey EXCEPT ![p] = etcdKey]
    /\ PkiGoto(p, IF etcdKey # NoPkiKey THEN AfterKey ELSE "keyPut")
    /\ UNCHANGED <<etcdKey, caCert, issued, crl, serial, handedOut, revoked, pkiFaults>>

(* A new key is put if there still is none.  makeCRL then ensures the      *)
(* certificate, for which the key is loaded back, before the empty         *)
(* revocation list is put.                                                 *)
KeyPutFault(p) ==
    /\ At(p, "keyPut")
    /\ etcdKey' = p
    /\ caKey' = [caKey EXCEPT ![p] = p]
    /\ op' = [op EXCEPT ![p].at = AfterKey, ![p].fresh = "yes"]
    /\ UNCHANGED <<caCert, issued, crl, serial, handedOut, revoked, pkiFaults>>

KeyPut(p) ==
    /\ At(p, "keyPut")
    /\ IF etcdKey = NoPkiKey
       THEN /\ etcdKey' = p
            /\ caKey' = [caKey EXCEPT ![p] = p]
            /\ op' = [op EXCEPT ![p].at = AfterKey, ![p].fresh = "yes"]
       ELSE PkiReturn(p) /\ UNCHANGED <<etcdKey, caKey>>
    /\ UNCHANGED <<caCert, issued, crl, serial, handedOut, revoked, pkiFaults>>

(* Also attempt to emit an empty CRL if one does not exist yet. *)
CrlPut(p) ==
    /\ At(p, "crlPut")
    /\ crl' = IF crl.exists = "no" THEN [exists |-> "yes", revoked |-> {}] ELSE crl
    /\ op' = [op EXCEPT ![p].at = AfterKey, ![p].fresh = "no"]
    /\ UNCHANGED <<etcdKey, caCert, issued, caKey, serial, handedOut, revoked, pkiFaults>>

-----------------------------------------------------------------------------
(* ensure of the CA certificate, and what comes after it *)

Ensured(p) ==
    IF op[p].fresh = "yes" THEN PkiGoto(p, "crlPut")
    ELSE CASE op[p].call = "ca"     -> PkiReturn(p)
           [] op[p].call = "member" -> PkiGoto(p, "certPut")
           [] op[p].call = "revoke" -> PkiGoto(p, "revokePut")

(* A certificate for another key than the one in memory is refused. *)
CaCertGet(p) ==
    /\ At(p, AfterKey)
    /\ IF caCert = NoCert THEN PkiGoto(p, "caCertPut")
       ELSE IF caCert.key = caKey[p] THEN Ensured(p) ELSE PkiReturn(p)
    /\ UNCHANGED <<etcdKey, caCert, issued, crl, caKey, serial, handedOut, revoked, pkiFaults>>

CaCertPut(p) ==
    /\ At(p, "caCertPut")
    /\ serial < MaxSerial
    /\ serial' = serial + 1
    /\ IF caCert = NoCert
       THEN /\ caCert' = [serial |-> serial + 1, key |-> caKey[p]]
            /\ Ensured(p)
       ELSE PkiReturn(p) /\ UNCHANGED caCert
    /\ UNCHANGED <<etcdKey, issued, crl, caKey, handedOut, revoked, pkiFaults>>

-----------------------------------------------------------------------------
(* ensure of an external certificate *)

CertGet(p) ==
    /\ At(p, "certGet")
    /\ LET s == op[p].subject
       IN  IF issued[s] # NoCert
           THEN /\ handedOut' = handedOut \cup {<<s, issued[s].serial>>}
                /\ PkiReturn(p)
           ELSE /\ PkiGoto(p, IF caKey[p] = NoPkiKey THEN "keyGet" ELSE AfterKey)
                /\ UNCHANGED handedOut
    /\ UNCHANGED <<etcdKey, caCert, issued, crl, caKey, serial, revoked, pkiFaults>>

CertPutFault(p) ==
    /\ At(p, "certPut")
    /\ serial < MaxSerial
    /\ serial' = serial + 1
    /\ issued' = [issued EXCEPT ![op[p].subject] = [serial |-> serial + 1, key |-> caKey[p]]]
    /\ handedOut' = handedOut \cup {<<op[p].subject, serial + 1>>}
    /\ PkiReturn(p)
    /\ UNCHANGED <<etcdKey, caCert, crl, caKey, revoked, pkiFaults>>

CertPut(p) ==
    /\ At(p, "certPut")
    /\ serial < MaxSerial
    /\ serial' = serial + 1
    /\ LET s == op[p].subject
       IN  IF issued[s] = NoCert
           THEN /\ issued' = [issued EXCEPT ![s] = [serial |-> serial + 1, key |-> caKey[p]]]
                /\ handedOut' = handedOut \cup {<<s, serial + 1>>}
           ELSE UNCHANGED <<issued, handedOut>>
    /\ PkiReturn(p)
    /\ UNCHANGED <<etcdKey, caCert, crl, caKey, revoked, pkiFaults>>

-----------------------------------------------------------------------------
(* Revoke *)

(* The list and the certificates are read in one transaction. *)
RevokeGet(p) ==
    /\ At(p, "revokeGet")
    /\ LET s == op[p].subject
       IN  IF crl.exists = "no" \/ issued[s] = NoCert THEN PkiReturn(p) /\ UNCHANGED revoked
           ELSE IF issued[s].serial \in crl.revoked
           THEN /\ revoked' = revoked \cup {issued[s].serial}
                /\ PkiReturn(p)
           ELSE /\ op' = [op EXCEPT ![p].at = IF caKey[p] = NoPkiKey THEN "keyGet" ELSE AfterKey,
                                    ![p].seen = crl.revoked \cup {issued[s].serial}]
                /\ UNCHANGED revoked
    /\ UNCHANGED <<etcdKey, caCert, issued, crl, caKey, serial, handedOut, pkiFaults>>

(* The transaction compares the revision at which the list was created,    *)
(* which no later put changes.                                             *)
RevokePut(p) ==
    /\ At(p, "revokePut")
    /\ crl' = [crl EXCEPT !.revoked = op[p].seen]
    /\ revoked' = revoked \cup {issued[op[p].subject].serial}
    /\ PkiReturn(p)
    /\ UNCHANGED <<etcdKey, caCert, issued, caKey, serial, handedOut, pkiFaults>>

-----------------------------------------------------------------------------

(* A request to etcd fails, and with it the call. *)
RequestFails(p) ==
    /\ ~At(p, "idle")
    /\ pkiFaults < MaxPkiFaults
    /\ pkiFaults' = pkiFaults + 1
    /\ PkiReturn(p)
    /\ UNCHANGED <<etcdKey, caCert, issued, crl, caKey, serial, handedOut, revoked>>

(* The process is started anew: consensus creates the CA again in Run. *)
PkiRestart(p) ==
    /\ pkiFaults < MaxPkiFaults
    /\ pkiFaults' = pkiFaults + 1
    /\ caKey' = [caKey EXCEPT ![p] = NoPkiKey]
    /\ PkiReturn(p)
    /\ UNCHANGED <<etcdKey, caCert, issued, crl, serial, handedOut, revoked>>

PkiNext ==
    \E p \in Proc :
        \/ Call(p, "ca", NoPkiKey)
        \/ \E s \in Subject : Call(p, "member", s) \/ Call(p, "revoke", s)
        \/ KeyGet(p)
        \/ KeyPut(p)
        \/ CrlPut(p)
        \/ CaCertGet(p)
        \/ CaCertPut(p)
        \/ CertGet(p)
        \/ CertPut(p)
        \/ RevokeGet(p)
        \/ RevokePut(p)
        \/ RequestFails(p)
        \/ PkiRestart(p)

PkiSpec == PkiInit /\ [][PkiNext]_pkiVars

-----------------------------------------------------------------------------

Cert == [serial : 0 .. MaxSerial, key : Proc \cup {NoPkiKey}]

(* Every variable has its type. *)
PkiTypeOK ==
    /\ etcdKey \in Proc \cup {NoPkiKey}
    /\ caCert \in Cert
    /\ issued \in [Subject -> Cert]
    /\ crl.revoked \subseteq 1 .. MaxSerial
    /\ caKey \in [Proc -> Proc \cup {NoPkiKey}]
    /\ serial \in 0 .. MaxSerial
    /\ handedOut \subseteq Subject \X (1 .. MaxSerial)
    /\ revoked \subseteq 1 .. MaxSerial

(* However the calls of the processes interleave, fail or are cut short:   *)
(* all of them work with one CA key, which signed whatever was issued; a   *)
(* certificate that a call returned is the one that is stored, so that it  *)
(* is found when it is revoked; the list names only issued certificates;   *)
(* and where a single process set the CA up and nothing failed, the list   *)
(* exists as soon as a certificate of the CA is in use.                    *)
PkiSound ==
    /\ \A p \in Proc : caKey[p] \in {NoPkiKey, etcdKey}
    /\ caCert # NoCert => caCert.key = etcdKey
    /\ \A s \in Subject : issued[s] # NoCert =>
         issued[s].key = etcdKey /\ issued[s].serial # caCert.serial
    /\ \A h \in handedOut : issued[h[1]].serial = h[2]
    /\ crl.revoked \subseteq {issued[s].serial : s \in Subject}
    /\ revoked \subseteq {issued[s].serial : s \in Subject}
    /\ handedOut # {} /\ crl.exists = "no" /\ pkiFaults = 0 =>
         \E p \in Proc : caKey[p] # NoPkiKey /\ caKey[p] # p

(* "An error is returned if the CRL could not be emitted (eg. due to [...] *)
(* a conflicting CRL write)": a certificate whose revocation succeeded     *)
(* stays revoked. It does not hold: of two concurrent revocations the      *)
(* later put drops the earlier one, see RevokePut.                         *)
RevocationsKept == revoked \subseteq crl.revoked

=============================================================================
