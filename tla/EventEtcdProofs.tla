--------------------------- MODULE EventEtcdProofs --------------------------
(***************************************************************************)
(* Proofs about the etcd-backed watcher, for any keys and values, any      *)
(* number of revisions and any number of canceled watches.                 *)
(***************************************************************************)
EXTENDS EventEtcd, FiniteSetTheorems, TLAPS

(* A revision differs from the one before it in the key it wrote only. *)
OneKeyEach ==
    \A r \in 1..Len(etcd) - 1 :
        etcd[r + 1].kv = [etcd[r].kv EXCEPT ![etcd[r + 1].key] = etcd[r + 1].kv[etcd[r + 1].key]]

Unique == \A i, j \in 1..Len(backlogged) : backlogged[i] = backlogged[j] => i = j

(* Where a Get is, and what it has found there. *)
Position ==
    /\ getPc \in {"check", "wait", "apply", "pop"} => wc # "nil"
    /\ getPc \in {"get", "reget", "open", "reopen"} => wc = "nil"
    /\ getPc = "pop" => Len(backlogged) > 0
    /\ getPc \in {"reget", "reopen"} => breaks > 0
    /\ wc = "canceled" => breaks > 0

(* Before the first watch nothing has been returned. *)
Fresh == wc = "nil" /\ breaks = 0 => \A k \in Key : view[k] = Nil

(* A watcher of one key meets no other. *)
Narrow ==
    only # Nil =>
        /\ \A r \in 1..Len(etcd) :
              etcd[r].key = only /\ \A l \in Key : l = only \/ etcd[r].kv[l] = Nil
        /\ \A i \in 1..Len(backlogged) : backlogged[i] = only

IInv == EtcdTypeOK /\ Narrow /\ OneKeyEach /\ Mirror /\ Unique /\ Position /\ Fresh /\ NothingOmitted

LEMMA OrderingFacts ==
    ASSUME NEW S \in SUBSET Key, NEW s \in Orderings(S)
    PROVE  /\ s \in Seq(Key)
           /\ \A i \in 1..Len(s) : s[i] \in S
           /\ \A k \in S : \E i \in 1..Len(s) : s[i] = k
           /\ \A i, j \in 1..Len(s) : s[i] = s[j] => i = j
<1>1. Cardinality(S) \in Nat
  BY EtcdAssumption, FS_Subset, FS_CardinalityType
<1> DEFINE n == Cardinality(S)
<1>2. s \in [1..n -> S]
  BY DEF Orderings
<1> HIDE DEF n
<1>3. n \in Nat
  BY <1>1 DEF n
<1>4. s \in Seq(S) /\ Len(s) = n /\ DOMAIN s = 1..n
  BY <1>2, <1>3
<1>5. s \in Seq(Key)
  BY <1>2, <1>3
<1> QED
  BY <1>2, <1>4, <1>5 DEF Orderings

LEMMA InitInv == EtcdInit => IInv
<1> SUFFICES ASSUME EtcdInit
             PROVE  IInv
  OBVIOUS
<1> USE DEF EtcdInit
<1>1. PICK k \in Key : only \in {k, Nil} /\ etcd = <<[key |-> k, kv |-> [l \in Key |-> Nil]]>>
  OBVIOUS
<1>2. Len(etcd) = 1 /\ etcd[1].kv = [l \in Key |-> Nil] /\ etcd[1].key = k
  BY <1>1
<1>3. EtcdTypeOK
  BY <1>1, <1>2 DEF EtcdTypeOK, Revision, Contents, MaybeVal
<1>4. OneKeyEach
  BY <1>2 DEF OneKeyEach
<1>5. Mirror /\ Unique /\ Position /\ Fresh /\ NothingOmitted
  BY <1>2 DEF Mirror, Unique, Position, Fresh, NothingOmitted
<1>6. Narrow
  BY <1>1, <1>2 DEF Narrow
<1> QED
  BY <1>3, <1>4, <1>5, <1>6 DEF IInv

LEMMA WriteInv ==
    ASSUME IInv, NEW k \in Key, NEW v \in MaybeVal, Write(k, v)
    PROVE  IInv'
<1> DEFINE e == [key |-> k, kv |-> [Newest EXCEPT ![k] = v]]
<1>1. etcd \in Seq(Revision) /\ Len(etcd) \in Nat \ {0}
  BY DEF IInv, EtcdTypeOK
<1>2. Newest \in Contents
  <2>1. etcd[Len(etcd)] \in Revision
    BY <1>1
  <2> QED
    BY <2>1 DEF Newest, Revision
<1>3. e \in Revision
  BY <1>2 DEF Contents, Revision
<1>4. /\ e.key = k
      /\ e.kv = [Newest EXCEPT ![k] = v]
      /\ e.kv[k] = v
  BY <1>2 DEF Contents
<1>5. etcd' = Append(etcd, e)
  BY DEF Write
<1> HIDE DEF e
<1>6. /\ etcd' \in Seq(Revision)
      /\ Len(etcd') = Len(etcd) + 1
      /\ \A r \in 1..Len(etcd) : etcd'[r] = etcd[r]
      /\ etcd'[Len(etcd) + 1] = e
  BY <1>1, <1>3, <1>5
<1>7. UNCHANGED <<only, breaks, getPc, option, wc, pos, until, backlogged, current, view>>
  BY DEF Write
<1>8. EtcdTypeOK'
  BY <1>1, <1>6, <1>7 DEF IInv, EtcdTypeOK
<1>9. OneKeyEach'
  <2> SUFFICES ASSUME NEW r \in 1..Len(etcd') - 1
               PROVE  etcd'[r + 1].kv = [etcd'[r].kv EXCEPT ![etcd'[r + 1].key] = etcd'[r + 1].kv[etcd'[r + 1].key]]
    BY DEF OneKeyEach
  <2>1. CASE r = Len(etcd)
    <3>1. etcd'[r + 1] = e /\ etcd'[r].kv = Newest
      BY <2>1, <1>1, <1>6 DEF Newest
    <3> QED
      BY <3>1, <1>4
  <2>2. CASE r # Len(etcd)
    <3>1. r \in 1..Len(etcd) - 1 /\ r + 1 \in 1..Len(etcd)
      BY <2>2, <1>1, <1>6
    <3>2. etcd'[r + 1] = etcd[r + 1] /\ etcd'[r] = etcd[r]
      BY <3>1, <1>1, <1>6
    <3> QED
      BY <3>1, <3>2 DEF IInv, OneKeyEach
  <2> QED
    BY <2>1, <2>2
<1>10. Mirror'
  <2>1. pos \in 1..Len(etcd)
    BY DEF IInv, EtcdTypeOK
  <2> QED
    BY <1>6, <1>7, <2>1 DEF IInv, Mirror
<1>11. Unique' /\ Position' /\ Fresh' /\ NothingOmitted'
  BY <1>7 DEF IInv, Unique, Position, Fresh, NothingOmitted, InBacklog
<1>12. Narrow'
  <2> SUFFICES ASSUME only # Nil, NEW r \in 1..Len(etcd'), NEW l \in Key
               PROVE  etcd'[r].key = only /\ (l = only \/ etcd'[r].kv[l] = Nil)
    BY <1>7 DEF IInv, Narrow
  <2>1. k = only
    BY DEF Write, Ranged
  <2>2. CASE r \in 1..Len(etcd)
    BY <1>6, <2>2 DEF IInv, Narrow
  <2>3. CASE r = Len(etcd) + 1
    <3>1. l = only \/ Newest[l] = Nil
      BY <1>1 DEF IInv, Narrow, Newest
    <3> QED
      BY <1>2, <1>4, <1>6, <2>1, <2>3, <3>1 DEF Contents
  <2> QED
    BY <1>1, <1>6, <2>2, <2>3
<1> QED
  BY <1>8, <1>9, <1>10, <1>11, <1>12 DEF IInv

LEMMA SetupInv ==
    ASSUME IInv, SetupGet \/ SetupFail \/ SetupWatch
    PROVE  IInv'
<1>1. CASE SetupGet
  <2> USE <1>1 DEF SetupGet
  <2>1. Len(etcd) \in 1..Len(etcd) /\ Newest = etcd[Len(etcd)].kv /\ Newest \in Contents
    <3>1. etcd[Len(etcd)] \in Revision /\ Len(etcd) \in Nat \ {0}
      BY DEF IInv, EtcdTypeOK
    <3> QED
      BY <3>1 DEF Newest, Revision
  <2>2. backlogged' \in Orderings(Existing) /\ current' = Newest /\ Existing \in SUBSET Key
    BY DEF Rebuild, Existing
  <2>3. /\ backlogged' \in Seq(Key)
        /\ \A k \in Existing : \E i \in 1..Len(backlogged') : backlogged'[i] = k
        /\ Unique'
        /\ \A i \in 1..Len(backlogged') : backlogged'[i] \in Existing
    BY <2>2, OrderingFacts DEF Unique
  <2>4. EtcdTypeOK'
    BY <2>1, <2>2, <2>3 DEF IInv, EtcdTypeOK
  <2>5. OneKeyEach' /\ Mirror'
    BY <2>1, <2>2 DEF IInv, OneKeyEach, Mirror
  <2>6. Position' /\ Fresh'
    BY DEF IInv, Position, Fresh
  <2>7. NothingOmitted'
    <3> SUFFICES ASSUME NEW k \in Key, ~InBacklog(k)', ~(breaks > 0 /\ current'[k] = Nil)
                 PROVE  view[k] = current'[k]
      BY DEF NothingOmitted
    <3>1. current'[k] = Nil
      BY <2>2, <2>3 DEF InBacklog, Existing
    <3>2. breaks = 0
      BY <3>1 DEF IInv, EtcdTypeOK
    <3>3. wc = "nil"
      BY DEF IInv, Position
    <3> QED
      BY <3>1, <3>2, <3>3 DEF IInv, Fresh
  <2>8. Narrow'
    BY <2>1, <2>3 DEF IInv, Narrow, Existing
  <2> QED
    BY <2>3, <2>4, <2>5, <2>6, <2>7, <2>8 DEF IInv
<1>2. CASE SetupFail
  BY <1>2 DEF SetupFail, IInv, EtcdTypeOK, Narrow, OneKeyEach, Mirror, Unique, Position, Fresh, NothingOmitted, InBacklog
<1>3. CASE SetupWatch
  BY <1>3 DEF SetupWatch, WatchFrom, IInv, EtcdTypeOK, Narrow, OneKeyEach, Mirror, Unique, Position, Fresh, NothingOmitted, InBacklog
<1> QED
  BY <1>1, <1>2, <1>3

(* One event of a response: current moves to the next revision, and the    *)
(* key is in the backlog if its content changed.                           *)
LEMMA ApplyInv ==
    ASSUME IInv, Apply
    PROVE  IInv'
<1> DEFINE e == etcd[pos + 1]
           k == e.key
           v == e.kv[k]
<1>1. /\ pos \in Nat \ {0} /\ pos + 1 \in 1..Len(etcd) /\ pos \in 1..Len(etcd) - 1
      /\ pos < until /\ until \in 1..Len(etcd)
  BY DEF IInv, EtcdTypeOK, Apply
<1>2. e \in Revision
  BY <1>1 DEF IInv, EtcdTypeOK
<1>3. k \in Key /\ v \in MaybeVal
  BY <1>2 DEF Contents, Revision
<1>4. etcd[pos + 1].kv = [current EXCEPT ![k] = v]
  BY <1>1 DEF IInv, OneKeyEach, Mirror
<1>5. current \in Contents /\ backlogged \in Seq(Key)
  BY DEF IInv, EtcdTypeOK
<1>6. Update(k, v) /\ UNCHANGED <<only, etcd, breaks, option, wc, until, view>> /\ pos' = pos + 1
  BY DEF Apply
<1> HIDE DEF k, v, e
<1>7. current' = [current EXCEPT ![k] = v]
  BY <1>3, <1>5, <1>6 DEF Update, Contents
<1>8. Backlog(k) \in Seq(Key)
  BY <1>3, <1>5 DEF Backlog
<1>9. /\ backlogged' \in Seq(Key)
      /\ \A i \in 1..Len(backlogged) : i \in 1..Len(backlogged') /\ backlogged'[i] = backlogged[i]
  BY <1>3, <1>5, <1>6 DEF Update, Backlog
<1>10. Unique'
  <2>1. CASE backlogged' = backlogged
    BY <2>1 DEF IInv, Unique
  <2>2. CASE ~InBacklog(k) /\ backlogged' = Append(backlogged, k)
    <3>1. /\ Len(backlogged') = Len(backlogged) + 1
          /\ backlogged'[Len(backlogged) + 1] = k
          /\ \A i \in 1..Len(backlogged) : backlogged'[i] = backlogged[i] /\ backlogged[i] # k
      BY <2>2, <1>3, <1>5 DEF InBacklog
    <3>2. Len(backlogged) \in Nat
      BY <1>5
    <3> SUFFICES ASSUME NEW i \in 1..Len(backlogged'), NEW j \in 1..Len(backlogged'),
                        backlogged'[i] = backlogged'[j]
                 PROVE  i = j
      BY DEF Unique
    <3>3. CASE i \in 1..Len(backlogged) /\ j \in 1..Len(backlogged)
      BY <3>1, <3>3 DEF IInv, Unique
    <3>4. CASE i = Len(backlogged) + 1 \/ j = Len(backlogged) + 1
      BY <3>1, <3>2, <3>4
    <3> QED
      BY <3>1, <3>2, <3>3, <3>4
  <2> QED
    BY <2>1, <2>2, <1>6 DEF Update, Backlog
<1>11. getPc' \in {"apply", "wait", "pop"} /\ (getPc' = "apply" => pos + 1 < until) /\ (getPc' = "pop" => backlogged' # <<>>)
  BY DEF Apply
<1>12. EtcdTypeOK'
  BY <1>1, <1>3, <1>5, <1>6, <1>7, <1>9, <1>11 DEF IInv, EtcdTypeOK, Contents
<1>13. OneKeyEach' /\ Mirror'
  BY <1>4, <1>6, <1>7 DEF IInv, OneKeyEach, Mirror
<1>14. Position'
  <2>1. getPc' = "pop" => Len(backlogged') > 0
    BY <1>9, <1>11
  <2> QED
    BY <2>1, <1>6, <1>11 DEF IInv, Position, Apply
<1>15. Fresh'
  BY <1>6 DEF IInv, Fresh
<1>16. NothingOmitted'
  <2> SUFFICES ASSUME NEW l \in Key
               PROVE  \/ view[l] = current'[l]
                      \/ InBacklog(l)'
                      \/ breaks > 0 /\ current'[l] = Nil
    BY <1>6 DEF NothingOmitted
  <2>1. InBacklog(l) => InBacklog(l)'
    BY <1>9 DEF InBacklog
  <2>2. CASE current'[l] = current[l]
    BY <2>1, <2>2 DEF IInv, NothingOmitted
  <2>3. CASE current'[l] # current[l]
    <3>1. l = k /\ current[k] # v
      BY <2>3, <1>3, <1>5, <1>7 DEF Contents
    <3>2. backlogged' = Backlog(k)
      BY <3>1, <1>6 DEF Update
    <3>3. CASE InBacklog(k)
      BY <3>1, <3>3, <2>1
    <3>4. CASE ~InBacklog(k)
      <4>1. backlogged' = Append(backlogged, k)
        BY <3>2, <3>4 DEF Backlog
      <4>2. Len(backlogged) + 1 \in 1..Len(backlogged') /\ backlogged'[Len(backlogged) + 1] = k
        BY <4>1, <1>3, <1>5
      <4> QED
        BY <4>2, <3>1 DEF InBacklog
    <3> QED
      BY <3>3, <3>4
  <2> QED
    BY <2>2, <2>3
<1>17. Narrow'
  <2> SUFFICES ASSUME only # Nil, NEW i \in 1..Len(backlogged')
               PROVE  backlogged'[i] = only
    BY <1>6 DEF IInv, Narrow
  <2>1. k = only
    BY <1>1 DEF IInv, Narrow, k, e
  <2>2. backlogged' \in {backlogged, Append(backlogged, k)}
    BY <1>6 DEF Update, Backlog
  <2> QED
    BY <2>1, <2>2, <1>5 DEF IInv, Narrow
<1> QED
  BY <1>10, <1>12, <1>13, <1>14, <1>15, <1>16, <1>17 DEF IInv

(* The key at the head of the backlog is returned with its newest content. *)
LEMMA PopInv ==
    ASSUME IInv, Pop
    PROVE  IInv'
<1> DEFINE k == backlogged[1]
<1>1. backlogged \in Seq(Key) /\ Len(backlogged) \in Nat \ {0} /\ current \in Contents /\ view \in Contents
  BY DEF IInv, EtcdTypeOK, Position, Pop
<1>2. k \in Key
  BY <1>1
<1>3. /\ view' = [view EXCEPT ![k] = current[k]]
      /\ backlogged' = Popped
      /\ UNCHANGED <<only, etcd, breaks, option, wc, pos, until, current>>
      /\ getPc' \in {"idle", "check"}
  BY DEF Pop
<1>4. /\ backlogged' \in Seq(Key)
      /\ Ranged => Len(backlogged') = Len(backlogged) - 1
      /\ Ranged => \A i \in 1..Len(backlogged') : backlogged'[i] = backlogged[i + 1]
      /\ ~Ranged => Len(backlogged') = 0
  BY <1>1, <1>3 DEF Popped
<1>5. view' \in Contents
  BY <1>1, <1>2, <1>3 DEF Contents
<1>6. EtcdTypeOK'
  BY <1>3, <1>4, <1>5 DEF IInv, EtcdTypeOK
<1>7. OneKeyEach' /\ Mirror'
  BY <1>3 DEF IInv, OneKeyEach, Mirror
<1>8. Unique'
  <2>1. CASE Ranged
    <3>1. \A i, j \in 1..Len(backlogged) : backlogged[i] = backlogged[j] => i = j
      BY DEF IInv, Unique
    <3> SUFFICES ASSUME NEW i \in 1..Len(backlogged'), NEW j \in 1..Len(backlogged'),
                        backlogged'[i] = backlogged'[j]
                 PROVE  i = j
      BY DEF Unique
    <3>2. i + 1 \in 1..Len(backlogged) /\ j + 1 \in 1..Len(backlogged)
      BY <2>1, <1>1, <1>4
    <3>3. i + 1 = j + 1
      BY <2>1, <1>4, <3>1, <3>2
    <3> QED
      BY <3>3
  <2>2. CASE ~Ranged
    BY <2>2, <1>4 DEF Unique
  <2> QED
    BY <2>1, <2>2
<1>9. Position' /\ Fresh'
  BY <1>3 DEF IInv, Position, Fresh, Pop
<1>10. NothingOmitted'
  <2> SUFFICES ASSUME NEW l \in Key, l # k
               PROVE  \/ view'[l] = current[l]
                      \/ InBacklog(l)'
                      \/ breaks > 0 /\ current[l] = Nil
    BY <1>1, <1>2, <1>3 DEF NothingOmitted, Contents
  <2>1. Ranged \/ ~InBacklog(l)
    BY <1>1 DEF IInv, Narrow, Ranged, InBacklog
  <2>2. view'[l] = view[l]
    BY <1>1, <1>2, <1>3 DEF Contents
  <2>3. InBacklog(l) => InBacklog(l)'
    <3> SUFFICES ASSUME NEW i \in 1..Len(backlogged), backlogged[i] = l
                 PROVE  InBacklog(l)'
      BY DEF InBacklog
    <3>1. i # 1 /\ Ranged
      BY <2>1 DEF InBacklog
    <3>2. i - 1 \in 1..Len(backlogged') /\ backlogged'[i - 1] = l
      BY <3>1, <1>1, <1>4
    <3> QED
      BY <3>2 DEF InBacklog
  <2> QED
    BY <2>2, <2>3 DEF IInv, NothingOmitted
<1>11. Narrow'
  <2> SUFFICES ASSUME only # Nil, NEW i \in 1..Len(backlogged')
               PROVE  backlogged'[i] = only
    BY <1>3 DEF IInv, Narrow
  <2> QED
    BY <1>4 DEF Ranged
<1> QED
  BY <1>6, <1>7, <1>8, <1>9, <1>10, <1>11 DEF IInv

(* The steps that move a Get, or the stream, and leave the data alone.     *)
LEMMA ControlInv ==
    ASSUME IInv,
           \/ Break \/ Canceled \/ CtxDone \/ Check \/ Close
           \/ \E r \in 1..MaxRev : Receive(r)
           \/ \E o \in {"block", "backlog"} : Get(o)
    PROVE  IInv'
<1>1. /\ UNCHANGED <<only, etcd, pos, backlogged, current, view>>
      /\ breaks' \in Nat /\ breaks' >= breaks
  BY DEF IInv, EtcdTypeOK, Break, Canceled, CtxDone, Check, Close, Receive, Get
<1>2. Narrow' /\ OneKeyEach' /\ Mirror' /\ Unique'
  BY <1>1 DEF IInv, Narrow, OneKeyEach, Mirror, Unique
<1>3. NothingOmitted'
  BY <1>1 DEF IInv, EtcdTypeOK, NothingOmitted, InBacklog
<1>4. CASE Break
  BY <1>2, <1>3, <1>4 DEF Break, IInv, EtcdTypeOK, Position, Fresh
<1>5. CASE Canceled
  BY <1>2, <1>3, <1>5 DEF Canceled, IInv, EtcdTypeOK, Position, Fresh
<1>6. CASE CtxDone
  BY <1>2, <1>3, <1>6 DEF CtxDone, IInv, EtcdTypeOK, Position, Fresh
<1>7. CASE Check
  BY <1>2, <1>3, <1>7 DEF Check, IInv, EtcdTypeOK, Position, Fresh
<1>8. CASE Close
  BY <1>2, <1>3, <1>8 DEF Close, IInv, EtcdTypeOK, Position, Fresh
<1>9. ASSUME NEW r \in 1..MaxRev, Receive(r)
      PROVE  IInv'
  BY <1>2, <1>3, <1>9 DEF Receive, IInv, EtcdTypeOK, Position, Fresh
<1>10. ASSUME NEW o \in {"block", "backlog"}, Get(o)
       PROVE  IInv'
  BY <1>2, <1>3, <1>10 DEF Get, IInv, EtcdTypeOK, Position, Fresh
<1> QED
  BY <1>4, <1>5, <1>6, <1>7, <1>8, <1>9, <1>10

LEMMA NextInv == IInv /\ [EtcdNext]_watchVars => IInv'
<1> SUFFICES ASSUME IInv, [EtcdNext]_watchVars
             PROVE  IInv'
  OBVIOUS
<1>1. CASE Store
  <2>1. ASSUME NEW k \in Key, Delete(k)
        PROVE  IInv'
    BY <2>1, WriteInv DEF Delete, MaybeVal
  <2>2. ASSUME NEW k \in Key, NEW v \in Val, Put(k, v)
        PROVE  IInv'
    BY <2>2, WriteInv DEF Put, MaybeVal
  <2> QED
    BY <1>1, <2>1, <2>2, ControlInv DEF Store
<1>2. CASE WatcherStep
  BY <1>2, SetupInv, ApplyInv, PopInv, ControlInv DEF WatcherStep
<1>3. CASE UNCHANGED watchVars
  BY <1>3 DEF watchVars, IInv, EtcdTypeOK, Narrow, OneKeyEach, Mirror, Unique, Position, Fresh, NothingOmitted, InBacklog
<1> QED
  BY <1>1, <1>2, <1>3 DEF EtcdNext

LEMMA UniqueBacklog == IInv => BacklogUnique
<1> SUFFICES ASSUME IInv, ~Ranged, Len(backlogged) > 1
             PROVE  FALSE
  BY DEF IInv, EtcdTypeOK, Unique, BacklogUnique
<1>1. /\ 1 \in 1..Len(backlogged) /\ 2 \in 1..Len(backlogged)
      /\ backlogged[1] \in Key /\ backlogged[2] \in Key
  BY DEF IInv, EtcdTypeOK
<1>2. backlogged[1] = backlogged[2]
  BY <1>1 DEF IInv, Narrow, Ranged
<1> QED
  BY <1>1, <1>2 DEF IInv, Unique

(* Over any keys, revisions and canceled watches, the watcher's map is the *)
(* store at one revision, its backlog holds a key once, and whatever Get   *)
(* has not returned waits there, but for keys found gone after a           *)
(* reconnection (setup, backfill and getUnlocked).                         *)
THEOREM Safe == EtcdSpec => [](EtcdTypeOK /\ Mirror /\ BacklogUnique /\ NothingOmitted)
<1>1. IInv => EtcdTypeOK /\ Mirror /\ BacklogUnique /\ NothingOmitted
  BY UniqueBacklog DEF IInv
<1> QED
  BY InitInv, NextInv, <1>1, PTL DEF EtcdSpec

=============================================================================
