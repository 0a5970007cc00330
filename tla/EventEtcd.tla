------------------------------ MODULE EventEtcd -----------------------------
(***************************************************************************)
(* The etcd-backed Event Value of osbase/event/etcd: one watcher of a key, *)
(* or of a range of keys, its consumer, the etcd store it follows and the  *)
(* watch stream between them, which etcd may cancel at any time.           *)
(*                                                                         *)
(* A revision is an element of the sequence etcd: the key it wrote and the *)
(* contents of the range after it.  A transaction that writes several keys *)
(* is several revisions that one watch response carries.  Values are       *)
(* nonempty, so that bytes.Equal tells a value from a deletion.            *)
(***************************************************************************)
EXTENDS Naturals, Sequences, FiniteSets

CONSTANTS
    Key,        \* keys of the range
    Val,        \* values of a key
    Nil,        \* no value: the key does not exist, or was deleted
    MaxRev,     \* bound on the revision
    MaxBreaks   \* bound on the number of canceled watches

ASSUME EtcdAssumption ==
    /\ IsFiniteSet(Key)
    /\ Nil \notin Val \union Key
    /\ MaxRev \in Nat
    /\ MaxBreaks \in Nat

VARIABLES
    only,       \* the one key that is watched, Nil if the watcher has a range
    etcd,       \* the revisions of the store
    breaks,     \* canceled watches so far
    getPc,         \* where the consumer's Get is
    option,     \* "backlog" if it was called with BacklogOnly
    wc,         \* watcher.wc: "nil", or the state of the stream behind it
    pos,        \* the revision current has reached; what wc delivers starts after it
    until,      \* the last revision of the response being processed
    backlogged, \* watcher.backlogged
    current,    \* watcher.current, Nil for a key that is not in the map
    view        \* the value of each key last returned by Get

watchVars == <<only, etcd, breaks, getPc, option, wc, pos, until, backlogged, current, view>>

MaybeVal == Val \union {Nil}

Contents == [Key -> MaybeVal]

Revision == [key : Key, kv : Contents]

Ranged == only = Nil

EtcdTypeOK ==
    /\ only \in Key \union {Nil}
    /\ etcd \in Seq(Revision)
    /\ Len(etcd) > 0
    /\ breaks \in Nat
    /\ getPc \in {"idle", "get", "open", "check", "wait", "apply", "pop",
               "reget", "reopen", "closed"}
    /\ option \in {"block", "backlog"}
    /\ wc \in {"nil", "open", "canceled"}
    /\ pos \in 1..Len(etcd)
    /\ until \in 1..Len(etcd)
    /\ getPc = "apply" => pos < until
    /\ backlogged \in Seq(Key)
    /\ current \in Contents
    /\ view \in Contents

EtcdInit ==
    /\ only \in Key \union {Nil}
    /\ \E k \in Key : only \in {k, Nil} /\ etcd = <<[key |-> k, kv |-> [l \in Key |-> Nil]]>>
    /\ breaks = 0
    /\ getPc = "idle"
    /\ option = "block"
    /\ wc = "nil"
    /\ pos = 1
    /\ until = 1
    /\ backlogged = <<>>
    /\ current = [k \in Key |-> Nil]
    /\ view = [k \in Key |-> Nil]

-----------------------------------------------------------------------------
(* etcd: what is written to the watched keys.                              *)

Newest == etcd[Len(etcd)].kv

Write(k, v) ==
    /\ Ranged \/ k = only
    /\ Len(etcd) < MaxRev
    /\ etcd' = Append(etcd, [key |-> k, kv |-> [Newest EXCEPT ![k] = v]])
    /\ UNCHANGED <<only, breaks, getPc, option, wc, pos, until, backlogged, current, view>>

Put(k, v) == Write(k, v)

Delete(k) ==
    /\ Newest[k] # Nil
    /\ Write(k, Nil)

(* A compaction, or an error that the client does not recover from. *)
Break ==
    /\ wc = "open"
    /\ breaks < MaxBreaks
    /\ breaks' = breaks + 1
    /\ wc' = "canceled"
    /\ UNCHANGED <<only, etcd, getPc, option, pos, until, backlogged, current, view>>

-----------------------------------------------------------------------------
(* setup, from getUnlocked ("get", "open") or backfill ("reget", "reopen") *)

(* What Get enumerates, in an order that is left open. *)
Orderings(S) ==
    {s \in [1..Cardinality(S) -> S] :
        /\ \A k \in S : \E i \in DOMAIN s : s[i] = k
        /\ \A i, j \in DOMAIN s : s[i] = s[j] => i = j}

(* The keys that exist. *)
Existing == {k \in Key : Newest[k] # Nil}

(* The backlog and current are built from scratch. *)
Rebuild ==
    /\ backlogged' \in Orderings(Existing)
    /\ current' = Newest

SetupGet ==
    /\ getPc \in {"get", "reget"}
    /\ Rebuild
    /\ pos' = Len(etcd)
    /\ getPc' = IF getPc = "get" THEN "open" ELSE "reopen"
    /\ UNCHANGED <<only, etcd, breaks, option, wc, until, view>>

(* The context expires while the Get is retried. *)
SetupFail ==
    /\ getPc \in {"get", "reget"}
    /\ getPc' = "idle"
    /\ UNCHANGED <<only, etcd, breaks, option, wc, pos, until, backlogged, current, view>>

(* The watch starts at the revision at which it is created. *)
WatchFromFault == Len(etcd)

(* WithRev(prev + 1): the watch delivers what follows prev. *)
WatchFrom == pos

SetupWatch ==
    /\ getPc \in {"open", "reopen"}
    /\ wc' = "open"
    /\ pos' = WatchFrom
    /\ getPc' = IF getPc = "open" THEN "check" ELSE "wait"
    /\ UNCHANGED <<only, etcd, breaks, option, until, backlogged, current, view>>

-----------------------------------------------------------------------------
(* backfill.                                                               *)

(* A response with the events up to revision r arrives. *)
Receive(r) ==
    /\ getPc = "wait"
    /\ wc = "open"
    /\ r \in pos + 1..Len(etcd)
    /\ until' = r
    /\ getPc' = "apply"
    /\ UNCHANGED <<only, etcd, breaks, option, wc, pos, backlogged, current, view>>

InBacklog(k) == \E i \in 1..Len(backlogged) : backlogged[i] = k

(* Only what is not yet there is appended. *)
Backlog(k) == IF InBacklog(k) THEN backlogged ELSE Append(backlogged, k)

(* Content of a key that waits in the backlog is not replaced. *)
UpdateFault(k, v) ==
    IF current[k] = v \/ InBacklog(k)
    THEN UNCHANGED <<backlogged, current>>
    ELSE /\ backlogged' = Backlog(k)
         /\ current' = [current EXCEPT ![k] = v]

(* Content that is already present is skipped. *)
Update(k, v) ==
    IF current[k] = v
    THEN UNCHANGED <<backlogged, current>>
    ELSE /\ backlogged' = Backlog(k)
         /\ current' = [current EXCEPT ![k] = v]

(* One event of the response, and after the last one: is there a backlog? *)
Apply ==
    /\ getPc = "apply"
    /\ LET e == etcd[pos + 1] IN Update(e.key, e.kv[e.key])
    /\ pos' = pos + 1
    /\ getPc' = IF pos + 1 < until THEN "apply"
             ELSE IF backlogged' = <<>> THEN "wait" ELSE "pop"
    /\ UNCHANGED <<only, etcd, breaks, option, wc, until, view>>

(* The watch was canceled: reconnect. *)
Canceled ==
    /\ getPc = "wait"
    /\ wc = "canceled"
    /\ wc' = "nil"
    /\ getPc' = "reget"
    /\ UNCHANGED <<only, etcd, breaks, option, pos, until, backlogged, current, view>>

CtxDone ==
    /\ getPc = "wait"
    /\ getPc' = "idle"
    /\ UNCHANGED <<only, etcd, breaks, option, wc, pos, until, backlogged, current, view>>

-----------------------------------------------------------------------------
(* Get and Close.                                                          *)

Get(o) ==
    /\ getPc = "idle"
    /\ option' = o
    /\ getPc' = IF wc = "nil" THEN "get" ELSE "check"
    /\ UNCHANGED <<only, etcd, breaks, wc, pos, until, backlogged, current, view>>

(* BacklogOnly returns ErrBacklogDone rather than wait. *)
Check ==
    /\ getPc = "check"
    /\ getPc' = IF backlogged # <<>> THEN "pop"
             ELSE IF option = "backlog" THEN "idle" ELSE "wait"
    /\ UNCHANGED <<only, etcd, breaks, option, wc, pos, until, backlogged, current, view>>

(* A ranged watcher drains the backlog too. *)
PoppedFault == <<>>

(* A ranged watcher returns one key, any other drains the backlog. *)
Popped == IF Ranged THEN Tail(backlogged) ELSE <<>>

(* The value is returned or, in a Get with a predicate that refuses it,    *)
(* dropped; a predicate needs a watcher that is not ranged and a blocking  *)
(* Get.                                                                    *)
Pop ==
    /\ getPc = "pop"
    /\ LET k == backlogged[1] IN view' = [view EXCEPT ![k] = current[k]]
    /\ backlogged' = Popped
    /\ \/ getPc' = "idle"
       \/ ~Ranged /\ option = "block" /\ getPc' = "check"
    /\ UNCHANGED <<only, etcd, breaks, option, wc, pos, until, current>>

Close ==
    /\ getPc = "idle"
    /\ getPc' = "closed"
    /\ UNCHANGED <<only, etcd, breaks, option, wc, pos, until, backlogged, current, view>>

-----------------------------------------------------------------------------

Store == Break \/ \E k \in Key : Delete(k) \/ \E v \in Val : Put(k, v)

WatcherStep ==
    \/ SetupGet
    \/ SetupFail
    \/ SetupWatch
    \/ \E r \in 1..MaxRev : Receive(r)
    \/ Apply
    \/ Canceled
    \/ CtxDone
    \/ \E o \in {"block", "backlog"} : Get(o)
    \/ Check
    \/ Pop
    \/ Close

EtcdNext == Store \/ WatcherStep

EtcdSpec == EtcdInit /\ [][EtcdNext]_watchVars

(* The consumer calls Get again and again, at times without BacklogOnly    *)
(* and with a context that lives long enough for etcd to answer, but not   *)
(* for ever: see CtxDone.                                                  *)
EtcdFairness ==
    /\ SF_watchVars(Get("block"))
    /\ SF_watchVars(SetupGet)
    /\ WF_watchVars(SetupWatch)
    /\ SF_watchVars(\E r \in 1..MaxRev : Receive(r))
    /\ WF_watchVars(Apply)
    /\ SF_watchVars(Canceled)
    /\ WF_watchVars(Check)
    /\ WF_watchVars(Pop)
    /\ WF_watchVars(CtxDone)

EtcdFairSpec == EtcdSpec /\ EtcdFairness

-----------------------------------------------------------------------------

(* current is the store at one revision: no event between the setup's Get  *)
(* and its Watch, between two responses or across a reconnection is        *)
(* skipped, reordered or applied twice (setup and backfill).               *)
Mirror == current = etcd[pos].kv

(* The compaction of the backlog keeps a key once, so that a watcher of a  *)
(* single key never meets the panic of getUnlocked.                        *)
BacklogUnique ==
    /\ \A i, j \in 1..Len(backlogged) : backlogged[i] = backlogged[j] => i = j
    /\ ~Ranged => Len(backlogged) <= 1

(* A key whose content differs from what Get last returned for it waits in *)
(* the backlog, so that an empty backlog (ErrBacklogDone) means that the   *)
(* consumer has all of current.  The exception is a key that was found     *)
(* gone after a reconnection.                                              *)
NothingOmitted ==
    \A k \in Key :
        \/ view[k] = current[k]
        \/ InBacklog(k)
        \/ breaks > 0 /\ current[k] = Nil

(* "The data returned should be treated as eventually consistent with the  *)
(* etcd state": once the store rests, a consumer that keeps calling Get    *)
(* comes to hold the value of every key that exists, across canceled       *)
(* watches too.                                                            *)
ExistingConsistent ==
    <>[](\/ getPc = "closed"
         \/ \A k \in Key : Newest[k] \in {Nil, view[k]})

(* The same of deleted keys: the consumer comes to hold exactly what the   *)
(* store does.                                                             *)
EventuallyConsistent == <>[](view = Newest \/ getPc = "closed")

=============================================================================
