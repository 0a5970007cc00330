------------------------------ MODULE LogTree -------------------------------
(***************************************************************************)
(* The log tree of a node (osbase/logtree): the journal, and the           *)
(* goroutines that log into it and read from it.                           *)
(***************************************************************************)
EXTENDS Integers, Sequences, FiniteSets

(***************************************************************************)
(* The journal of osbase/logtree: every log entry is on a global list and  *)
(* on the list of its DN, and the newest Quota entries of a DN are kept.   *)
(*                                                                         *)
(* An entry is the number of its append, 0 is the nil pointer.  A list is  *)
(* a record of its two ends and of the links of the entries; the same code *)
(* serves nextGlobal/prevGlobal/head/tail and nextLocal/prevLocal/         *)
(* heads[dn]/tails[dn], since an entry has one DN.  A DN is the sequence   *)
(* of its parts, a payload is "raw" or the severity of a leveled entry.    *)
(***************************************************************************)

CONSTANTS
    LogDN,      \* the DNs that are logged to
    Quota,      \* quota.max, 8192 in the code
    MaxEntries  \* bound on the entries logged

ASSUME JournalAssumption ==
    /\ LogDN # {}
    /\ Quota \in Nat \ {0}
    /\ MaxEntries \in Nat

VARIABLES
    logged,     \* entries logged so far
    origin,     \* entry.origin
    payload,    \* entry.raw or the severity of entry.leveled
    seqLocal,   \* entry.seqLocal
    global,     \* the global list
    local       \* the local list of each DN

journalVars == <<logged, origin, payload, seqLocal, global, local>>

LogEntry == 1..MaxEntries

Pointer == 0..MaxEntries

Severity == {"I", "W", "E", "F"}

Payload == Severity \union {"raw"}

List == [head : Pointer, tail : Pointer,
         prev : [LogEntry -> Pointer], next : [LogEntry -> Pointer]]

NoEntries == [head |-> 0, tail |-> 0,
              prev |-> [e \in LogEntry |-> 0], next |-> [e \in LogEntry |-> 0]]

JournalInit ==
    /\ logged = 0
    /\ origin = [e \in LogEntry |-> CHOOSE d \in LogDN : TRUE]
    /\ payload = [e \in LogEntry |-> "raw"]
    /\ seqLocal = [e \in LogEntry |-> 0]
    /\ global = NoEntries
    /\ local = [d \in LogDN |-> NoEntries]

-----------------------------------------------------------------------------

(* An assignment through p, guarded by p != nil. *)
Assign(links, p, e) == IF p = 0 THEN links ELSE [links EXCEPT ![p] = e]

Pushed(l, e) ==
    [head |-> IF l.head = 0 THEN e ELSE l.head,
     tail |-> e,
     prev |-> [l.prev EXCEPT ![e] = l.tail],
     next |-> Assign([l.next EXCEPT ![e] = 0], l.tail, e)]

(* unlink leaves the links of the entry itself alone. *)
UnlinkedFault(l, e) ==
    [head |-> IF l.head = e THEN l.next[e] ELSE l.head,
     tail |-> IF l.tail = e THEN l.prev[e] ELSE l.tail,
     prev |-> l.prev,
     next |-> Assign(l.next, l.prev[e], l.next[e])]

Unlinked(l, e) ==
    [head |-> IF l.head = e THEN l.next[e] ELSE l.head,
     tail |-> IF l.tail = e THEN l.prev[e] ELSE l.tail,
     prev |-> Assign(l.prev, l.next[e], l.prev[e]),
     next |-> Assign(l.next, l.prev[e], l.next[e])]

(* The length of a local list, from the sequence numbers of its ends. *)
Length(l, seq) == (seq[l.tail] - seq[l.head]) + 1

(* append is the only way into a list, so that a list exceeds its quota by *)
(* one entry at most and the loop over the excess unlinks the head, once.  *)
append(d, s) ==
    LET e == logged + 1
        t == local[d].tail
        seq == [seqLocal EXCEPT ![e] = IF t = 0 THEN 0 ELSE seqLocal[t] + 1]
        pushed == Pushed(local[d], e)
        over == Length(pushed, seq) > Quota
    IN  /\ logged < MaxEntries
        /\ logged' = e
        /\ origin' = [origin EXCEPT ![e] = d]
        /\ payload' = [payload EXCEPT ![e] = s]
        /\ seqLocal' = seq
        /\ local' = [local EXCEPT ![d] = IF over THEN Unlinked(pushed, pushed.head) ELSE pushed]
        /\ global' = IF over THEN Unlinked(Pushed(global, e), pushed.head) ELSE Pushed(global, e)

-----------------------------------------------------------------------------
(* What a Read asks for: entries at a DN or below it, raw or leveled ones, *)
(* leveled ones of a minimum severity ("" for none).  A Read that asks for *)
(* BacklogAllAvailable asks for MaxEntries.                                *)

ReadOption ==
    [dn : LogDN \union {<<>>}, children : {"yes", "no"}, only : {"any", "raw", "leveled"},
     severity : Severity \union {""}]

filterExact(dn, e) == origin[e] = dn

filterSubtree(root, e) ==
    /\ Len(root) <= Len(origin[e])
    /\ \A i \in 1..Len(root) : origin[e][i] = root[i]

SeverityAtLeast(s) ==
    CASE s = "I" -> {"I", "W", "E", "F"}
      [] s = "W" -> {"W", "E", "F"}
      [] s = "E" -> {"E", "F"}
      [] s = "F" -> {"F"}

filterSeverity(s, e) == payload[e] # "raw" /\ payload[e] \in SeverityAtLeast(s)

Passes(o, e) ==
    /\ o.only = "leveled" => payload[e] # "raw"
    /\ o.only = "raw" => payload[e] = "raw"
    /\ IF o.children = "yes" THEN filterSubtree(o.dn, e) ELSE filterExact(o.dn, e)
    /\ o.severity # "" => filterSeverity(o.severity, e)

(* A walk from the tail that stops after count entries that pass, put back *)
(* into chronological order.                                               *)
Scanned(l, o, count) ==
    LET from[e \in Pointer, left \in 0..count] ==
            IF e = 0 \/ left = 0 THEN <<>>
            ELSE IF Passes(o, e) THEN Append(from[l.prev[e], left - 1], e)
            ELSE from[l.prev[e], left]
    IN  from[l.tail, count]

ReadBacklog(o, count) ==
    IF o.children = "yes" THEN Scanned(global, o, count)
    ELSE IF o.dn \in LogDN THEN Scanned(local[o.dn], o, count)
    ELSE <<>>

-----------------------------------------------------------------------------

Earlier(e) == {f \in 1..(e - 1) : origin[f] = origin[e]}

Of(d) == {e \in 1..logged : origin[e] = d}

(* The newest Quota entries of a DN. *)
KeptEntries(d) == {e \in Of(d) : Cardinality(Earlier(e)) + Quota >= Cardinality(Of(d))}

AllKept == UNION {KeptEntries(d) : d \in LogDN}

(* l is a doubly linked list of the entries of S in the order of append. *)
Represents(l, S) ==
    /\ \/ S = {} /\ l.head = 0 /\ l.tail = 0
       \/ l.head \in S /\ l.tail \in S /\ \A f \in S : l.head <= f /\ f <= l.tail
    /\ \A e \in S :
          /\ \/ l.prev[e] = 0 /\ \A f \in S : e <= f
             \/ l.prev[e] \in S /\ l.prev[e] < e /\ \A f \in S : f <= l.prev[e] \/ e <= f
          /\ \/ l.next[e] = 0 /\ \A f \in S : f <= e
             \/ l.next[e] \in S /\ e < l.next[e] /\ \A f \in S : f <= e \/ l.next[e] <= f

(* Linking at the tails and unlinking from the head of one local list and  *)
(* the middle of the global one keeps both kinds of list whole in both     *)
(* directions, with exactly the newest quota.max entries of every DN on    *)
(* them: the length append computes from sequence numbers is the length of *)
(* the list.                                                               *)
JournalSound ==
    /\ Represents(global, AllKept)
    /\ \A d \in LogDN : Represents(local[d], KeptEntries(d))

Increasing(s) == \A i, j \in 1..Len(s) : i < j => s[i] < s[j]

(* Whatever has been unlinked, the backlog of a Read is the newest entries *)
(* that pass its filters, as many as asked for, in the order in which they *)
(* were logged, whether the global list or a local one is walked.          *)
BacklogExact ==
    LET kept == AllKept
    IN  \A o \in ReadOption :
          LET S == {e \in kept : Passes(o, e)}
          IN  \A count \in 1..MaxEntries :
                LET b == ReadBacklog(o, count)
                IN  /\ Increasing(b)
                    /\ {b[i] : i \in 1..Len(b)} =
                           {e \in S : Cardinality({f \in S : e <= f}) <= count}

-----------------------------------------------------------------------------
(***************************************************************************)
(* Publishers that log into the journal and readers that stream from it.   *)
(*                                                                         *)
(* logRaw and logLeveled append an entry and then notify the subscribers,  *)
(* each under journal.mu.  Read holds journal.mu for reading only, while   *)
(* it collects its backlog and appends to the slice of subscribers: Reads  *)
(* overlap each other, but no append or notify.  An appending Read loads   *)
(* the slice (ReadStart) and stores the longer one (ReadSubscribe).        *)
(***************************************************************************)

CONSTANTS
    Publisher,  \* goroutines that log
    Reader,     \* LogReaders with a Stream
    Options,    \* what they ask for
    Payloads,   \* what is logged
    ChanSize    \* capacity of dataC, 128 in the code

ASSUME LogTreeAssumption ==
    /\ IsFiniteSet(Publisher)
    /\ Options \subseteq ReadOption
    /\ Payloads \subseteq Payload
    /\ ChanSize \in Nat

VARIABLES
    pending,     \* the entry a publisher has appended and not yet notified, or 0
    subscribers, \* journal.subscribers
    loaded,      \* the subscribers a Read has loaded
    stage,       \* where a LogReader is
    want,        \* the options of its Read
    since,       \* the entries logged when its backlog was collected
    sent,        \* the entries that were sent to its Stream
    unread,      \* how many of them are still in dataC
    missed       \* subscriber.missed

readerVars == <<subscribers, loaded, stage, want, since, sent, unread, missed>>

ltVars == <<journalVars, pending, readerVars>>

LogTreeTypeOK ==
    /\ logged \in Pointer
    /\ origin \in [LogEntry -> LogDN]
    /\ payload \in [LogEntry -> Payload]
    /\ seqLocal \in [LogEntry -> Nat]
    /\ global \in List
    /\ local \in [LogDN -> List]
    /\ pending \in [Publisher -> 0..logged]
    /\ subscribers \subseteq Reader
    /\ loaded \in [Reader -> SUBSET Reader]
    /\ stage \in [Reader -> {"none", "read", "open", "closed", "ended"}]
    /\ want \in [Reader -> Options]
    /\ since \in [Reader -> 0..logged]
    /\ sent \in [Reader -> SUBSET (1..logged)]
    /\ unread \in [Reader -> 0..ChanSize]
    /\ missed \in [Reader -> Nat]

LogTreeInit ==
    /\ JournalInit
    /\ pending = [p \in Publisher |-> 0]
    /\ subscribers = {}
    /\ loaded = [r \in Reader |-> {}]
    /\ stage = [r \in Reader |-> "none"]
    /\ want \in [Reader -> Options]
    /\ since = [r \in Reader |-> 0]
    /\ sent = [r \in Reader |-> {}]
    /\ unread = [r \in Reader |-> 0]
    /\ missed = [r \in Reader |-> 0]

-----------------------------------------------------------------------------

(* journal.mu can be taken for writing. *)
UnlockedFault == TRUE

Unlocked == \A r \in Reader : stage[r] # "read"

(* A publisher logs one entry at a time. *)
Log(p, d, s) ==
    /\ Unlocked
    /\ pending[p] = 0
    /\ append(d, s)
    /\ pending' = [pending EXCEPT ![p] = logged + 1]
    /\ UNCHANGED readerVars

(* The subscribers that notify keeps: the others have closed doneC. *)
Live == {r \in subscribers : stage[r] # "closed"}

(* The continue in the loop over the filters continues that loop, so that  *)
(* what a filter says of the entry has no effect.                          *)
Sendable(r) == r \in Live /\ unread[r] < ChanSize

MissedByFault(r) == FALSE

MissedBy(r) == r \in Live /\ unread[r] = ChanSize

notify(p) ==
    /\ Unlocked
    /\ pending[p] # 0
    /\ pending' = [pending EXCEPT ![p] = 0]
    /\ subscribers' = Live
    /\ stage' = [r \in Reader |-> IF r \in subscribers \ Live THEN "ended" ELSE stage[r]]
    /\ sent' = [r \in Reader |-> IF Sendable(r) THEN sent[r] \union {pending[p]} ELSE sent[r]]
    /\ unread' = [r \in Reader |-> IF Sendable(r) THEN unread[r] + 1 ELSE unread[r]]
    /\ missed' = [r \in Reader |-> IF MissedBy(r) THEN missed[r] + 1 ELSE missed[r]]
    /\ UNCHANGED <<journalVars, loaded, want, since>>

ReadStart(r) ==
    /\ stage[r] = "none"
    /\ stage' = [stage EXCEPT ![r] = "read"]
    /\ since' = [since EXCEPT ![r] = logged]
    /\ loaded' = [loaded EXCEPT ![r] = subscribers]
    /\ UNCHANGED <<journalVars, pending, subscribers, want, sent, unread, missed>>

ReadSubscribe(r) ==
    /\ stage[r] = "read"
    /\ stage' = [stage EXCEPT ![r] = "open"]
    /\ subscribers' = loaded[r] \union {r}
    /\ UNCHANGED <<journalVars, pending, loaded, want, since, sent, unread, missed>>

Receive(r) ==
    /\ unread[r] > 0
    /\ unread' = [unread EXCEPT ![r] = @ - 1]
    /\ UNCHANGED <<journalVars, pending, subscribers, loaded, stage, want, since, sent, missed>>

CloseReader(r) ==
    /\ stage[r] = "open"
    /\ stage' = [stage EXCEPT ![r] = "closed"]
    /\ UNCHANGED <<journalVars, pending, subscribers, loaded, want, since, sent, unread, missed>>

LogTreeNext ==
    \/ \E p \in Publisher : notify(p) \/ \E d \in LogDN, s \in Payloads : Log(p, d, s)
    \/ \E r \in Reader : ReadStart(r) \/ ReadSubscribe(r) \/ Receive(r) \/ CloseReader(r)

LogTreeSpec == LogTreeInit /\ [][LogTreeNext]_ltVars

-----------------------------------------------------------------------------

Unnotified == {pending[p] : p \in Publisher} \ {0}

(* Entries logged after the backlog of r was collected that have been      *)
(* notified and have not been sent to its Stream.                          *)
Gap(r) == ((since[r] + 1)..logged) \ (sent[r] \union Unnotified)

(* Nothing falls between the backlog and the Stream of a Read, however it  *)
(* interleaves with the two steps of the publishers: every entry logged    *)
(* after the backlog was collected is sent, is about to be, or is counted  *)
(* by Missed.  This is about readers that are subscribed: two overlapping  *)
(* Reads may leave one of them out of the slice.                           *)
StreamContinues ==
    \A r \in subscribers : stage[r] = "open" => Cardinality(Gap(r)) <= missed[r]

(* "New log entries get emitted to channels present in the subscriber      *)
(* structure, after filtering them through subscriber-provided filters".   *)
(* It does not hold: see Sendable.                                         *)
StreamFiltered == \A r \in Reader : \A e \in sent[r] : Passes(want[r], e)
=============================================================================
