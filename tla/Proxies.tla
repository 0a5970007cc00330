------------------------------ MODULE Proxies -------------------------------
(***************************************************************************)
(* The two proxies that copy between connections: SOCKS and the TCP load   *)
(* balancer.                                                               *)
(***************************************************************************)
EXTENDS Naturals, Sequences, FiniteSets, SequencesExt

(***************************************************************************)
(* The SOCKS5 proxy of osbase/socksproxy with its HostHandler.  Per client *)
(* there are the handler, the goroutine that closes the client's socket,   *)
(* the one that closes the backend's and the one that copies towards the   *)
(* backend; all of them hang off the context of Serve.                     *)
(***************************************************************************)

CONSTANTS
  SocksClient     \* connections the listener accepts

VARIABLES
  serveCtx,       \* the context of Serve: "live" | "cancelled"
  listener,       \* "open" | "closed"
  serving,        \* Serve has not returned: "yes" | "no"
  socks           \* per client: see Unaccepted

socksVars == <<serveCtx, listener, serving, socks>>

\* at: where the handler is; ctxR: its own context; con and be: the sockets of
\* the client and of the backend; up: the copy from client to backend; eof and
\* beEof: a peer has said all it will; replies: the reply codes sent.
Unaccepted == [at |-> "none", ctxR |-> "live", con |-> "none", be |-> "none", up |-> "none",
               eof |-> "no", beEof |-> "no", replies |-> <<>>]

Succeeded == 0
GeneralFailure == 1
ConnectionRefused == 5
CommandNotSupported == 7
AddressTypeNotSupported == 8

SocksInit ==
  /\ serveCtx = "live" /\ listener = "open" /\ serving = "yes"
  /\ socks = [c \in SocksClient |-> Unaccepted]

ServeCancelled ==
  /\ serveCtx = "live" /\ serveCtx' = "cancelled"
  /\ UNCHANGED <<listener, serving, socks>>

CloseListener ==
  /\ serveCtx = "cancelled" /\ listener = "open"
  /\ listener' = "closed"
  /\ UNCHANGED <<serveCtx, serving, socks>>

AcceptClient(c) ==
  /\ serving = "yes" /\ listener = "open" /\ socks[c] = Unaccepted
  /\ socks' = [socks EXCEPT ![c].at = "negotiate", ![c].con = "open"]
  /\ UNCHANGED <<serveCtx, listener, serving>>

\* Any error of Accept ends Serve, the closed listener's included.
ServeReturns ==
  /\ serving = "yes" /\ serving' = "no"
  /\ UNCHANGED <<serveCtx, listener, socks>>

-----------------------------------------------------------------------------
\* ctxR is a child of the context of Serve.
Done(c) == serveCtx = "cancelled" \/ socks[c].ctxR = "done"

Becomes(c, r) == socks' = [socks EXCEPT ![c] = r] /\ UNCHANGED <<serveCtx, listener, serving>>

\* The handler returns: its deferred cancel ends ctxR.
HandleReturnedFault(r) == [r EXCEPT !.at = "returned"]
HandleReturned(r) == [r EXCEPT !.at = "returned", !.ctxR = "done"]

\* writeReply, lost on a closed socket.
Replied(r, code) == IF r.con = "open" THEN [r EXCEPT !.replies = Append(@, code)] ELSE r

\* negotiateMethod reads from a client that may have gone and wants the
\* method without authentication; readRequest turns what it got into a reply.
Readable(r) == r.con = "open" /\ r.eof = "no"
Negotiate(c) ==
  /\ socks[c].at = "negotiate"
  /\ \/ Readable(socks[c]) /\ Becomes(c, [socks[c] EXCEPT !.at = "request"])
     \/ Becomes(c, HandleReturned(socks[c]))

ReadRequest(c) ==
  /\ socks[c].at = "request"
  /\ \/ Readable(socks[c]) /\ Becomes(c, [socks[c] EXCEPT !.at = "connect"])
     \/ /\ Readable(socks[c])
        /\ \E code \in {CommandNotSupported, AddressTypeNotSupported} :
             Becomes(c, HandleReturned(Replied(socks[c], code)))
     \/ Becomes(c, HandleReturned(Replied(socks[c], GeneralFailure)))

\* handler.Connect: HostHandler dials, and closes what it dialled once ctxR is
\* done; a local address it cannot use is a failure with the backend open.
Dialled(r) == [r EXCEPT !.be = "open"]
ConnectBackend(c) ==
  /\ socks[c].at = "connect"
  /\ \/ Becomes(c, HandleReturned(Replied(socks[c], ConnectionRefused)))
     \/ Becomes(c, HandleReturned(Replied(Dialled(socks[c]), GeneralFailure)))
     \/ Becomes(c, [Dialled(socks[c]) EXCEPT !.at = "reply"])

SendReply(c) ==
  /\ socks[c].at = "reply"
  /\ Becomes(c, IF socks[c].con = "open"
                  THEN [Replied(socks[c], Succeeded) EXCEPT !.at = "pipe", !.up = "copying"]
                  ELSE HandleReturned(socks[c]))

-----------------------------------------------------------------------------
\* The copies.  Reading ends with the peer's end of file or on a closed socket;
\* writing to a closed socket ends a copy too, but only once there is data.
UpEnded(r) == r.eof = "yes" \/ r.con = "closed"
DownEnded(r) == r.beEof = "yes" \/ r.be = "closed"

CloseAfterUpFault(r) == [r EXCEPT !.up = "ended"]
CloseAfterUp(r) == [r EXCEPT !.up = "ended", !.be = "closed"]
CopyUp(c) ==
  /\ socks[c].up = "copying"
  /\ UpEnded(socks[c]) \/ socks[c].be = "closed"
  /\ Becomes(c, CloseAfterUp(socks[c]))

CopyDown(c) ==
  /\ socks[c].at = "pipe"
  /\ DownEnded(socks[c]) \/ socks[c].con = "closed"
  /\ Becomes(c, HandleReturned([socks[c] EXCEPT !.be = "closed"]))

CloseSocksClient(c) ==
  /\ Done(c) /\ socks[c].con = "open"
  /\ Becomes(c, [socks[c] EXCEPT !.con = "closed"])

CloseBackend(c) ==
  /\ Done(c) /\ socks[c].be = "open"
  /\ Becomes(c, [socks[c] EXCEPT !.be = "closed"])

ClientEnds(c) ==
  /\ Readable(socks[c])
  /\ Becomes(c, [socks[c] EXCEPT !.eof = "yes"])

BackendEnds(c) ==
  /\ socks[c].be = "open" /\ socks[c].beEof = "no"
  /\ Becomes(c, [socks[c] EXCEPT !.beEof = "yes"])

SocksNext ==
  \/ ServeCancelled \/ CloseListener \/ ServeReturns
  \/ \E c \in SocksClient :
       \/ AcceptClient(c) \/ Negotiate(c) \/ ReadRequest(c) \/ ConnectBackend(c) \/ SendReply(c)
       \/ CopyUp(c) \/ CopyDown(c) \/ CloseSocksClient(c) \/ CloseBackend(c)
       \/ ClientEnds(c) \/ BackendEnds(c)

-----------------------------------------------------------------------------
SocksTypeOK ==
  \A c \in SocksClient :
    /\ socks[c].at \in {"none", "negotiate", "request", "connect", "reply", "pipe", "returned"}
    /\ socks[c].con \in {"none", "open", "closed"} /\ socks[c].be \in {"none", "open", "closed"}
    /\ socks[c].up \in {"none", "copying", "ended"}

\* Nothing is left that a goroutine of the proxy could do for a client without
\* the client or the backend acting first.
AtRest(c) ==
  LET r == socks[c] IN
  /\ \/ r.at \in {"none", "returned"}
     \/ r.at \in {"negotiate", "request"} /\ Readable(r)
     \/ r.at = "pipe" /\ ~DownEnded(r)
  /\ r.up = "copying" => ~UpEnded(r)
  /\ Done(c) => r.con # "open" /\ r.be # "open"

Released(r) ==
  /\ r.at \in {"none", "returned"} /\ r.up # "copying"
  /\ r.con # "open" /\ r.be # "open"

\* Whatever order the goroutines of a connection run in, once one of its two
\* sides has ended, its handler has returned or Serve was cancelled, nothing
\* of it stays behind: no socket is left open and no goroutine blocked.  A
\* client never gets a second reply, and data is only ever piped after the
\* reply that announces the backend.
SocksSound ==
  \A c \in SocksClient :
    LET r == socks[c] IN
    /\ /\ AtRest(c)
       /\ \/ r.at = "returned" \/ serveCtx = "cancelled"
          \/ r.eof = "yes"
          \/ r.at = "pipe" /\ r.beEof = "yes"
       => Released(r)
    /\ Len(r.replies) <= 1
    /\ r.up # "none" => r.replies = <<Succeeded>>
    /\ r.replies = <<Succeeded>> => r.be # "none"

-----------------------------------------------------------------------------
(***************************************************************************)
(* The TCP load balancer (go/net/tinylb) with its connection pool and the  *)
(* ordered map and cycling iterator it picks backends from                 *)
(* (go/types/mapsets).  The acceptor, the updater of the backend set and   *)
(* two copying goroutines per connection run concurrently; the backend set *)
(* is guarded by curSetMu and the pool by its own mutex, but a backend is  *)
(* picked, dialled and entered into the pool under three separate locks.   *)
(***************************************************************************)

CONSTANTS
  LbKeys,         \* backend keys, totally ordered: a finite set of numbers
  Targets,        \* target names
  MaxConns,       \* bound on connections
  MaxSets         \* bound on updates of the backend set

VARIABLES
  curSet,         \* the backend set: key -> target, "none" where it has no key
  ix,             \* position of the acceptor's CycleIterator
  acceptor,       \* [at, target]: "accept" | "dial" | "insert" | "done"
  detailsById,    \* connection id -> target, "none" once it is closed
  idsByTarget,    \* target -> its connection ids
  inTargets,      \* targets idsByTarget has an entry for, perhaps an empty one
  copying,        \* connection id -> copying goroutines still running
  lbUpdater,      \* [at, set, left]: "get" | "targets" | "close" | "replace"
  sets,           \* updates of the set so far
  picked,         \* keys picked since the set last changed
  stale           \* connections entered for a target the updater had already dealt with

lbVars == <<curSet, ix, acceptor, detailsById, idsByTarget, inTargets, copying, lbUpdater, sets,
            picked, stale>>

NoSet == [k \in LbKeys |-> "none"]
KeysOf(s) == SetToSortSeq({k \in LbKeys : s[k] # "none"}, <)
TargetsOf(s) == {s[k] : k \in {j \in LbKeys : s[j] # "none"}}
ConnIds == 1..MaxConns
Acceptor(at, t) == [at |-> at, target |-> t]
Updater(at, s, left) == [at |-> at, set |-> s, left |-> left]
\* The picks that matter: as many as there can be backends.
LastPicks(p) == IF Len(p) > Cardinality(LbKeys) THEN Tail(p) ELSE p
\* Connections made so far; ids are handed out in order.
ConnsMade == Cardinality({i \in ConnIds : copying[i] # "unused"})

LbInit ==
  /\ curSet = NoSet /\ ix = 1
  /\ acceptor = Acceptor("accept", "none")
  /\ detailsById = [i \in ConnIds |-> "none"]
  /\ idsByTarget = [t \in Targets |-> {}] /\ inTargets = {}
  /\ copying = [i \in ConnIds |-> "unused"]
  /\ lbUpdater = Updater("get", NoSet, {})
  /\ sets = 0 /\ picked = <<>> /\ stale = {}

\* CycleIterator.Next, under the read lock: the position to take, wrapping
\* around behind the last key.  A connection accepted while the set is empty
\* is closed at once.
NextIxFault == ix
NextIx == IF ix > Len(KeysOf(curSet)) THEN 1 ELSE ix

Accept ==
  /\ acceptor.at = "accept" /\ ConnsMade < MaxConns
  /\ KeysOf(curSet) # <<>>
  /\ LET at == NextIx
         k == IF at > Len(KeysOf(curSet)) THEN KeysOf(curSet)[1] ELSE KeysOf(curSet)[at] IN
       /\ acceptor' = Acceptor("dial", curSet[k])
       /\ ix' = at + 1
       /\ picked' = LastPicks(Append(picked, k))
  /\ UNCHANGED <<curSet, detailsById, idsByTarget, inTargets, copying, lbUpdater, sets, stale>>

DialFails ==
  /\ acceptor.at = "dial"
  /\ acceptor' = Acceptor("accept", "none")
  /\ UNCHANGED <<curSet, ix, detailsById, idsByTarget, inTargets, copying, lbUpdater, sets,
                 picked, stale>>

Dial ==
  /\ acceptor.at = "dial"
  /\ acceptor' = [acceptor EXCEPT !.at = "insert"]
  /\ UNCHANGED <<curSet, ix, detailsById, idsByTarget, inTargets, copying, lbUpdater, sets,
                 picked, stale>>

\* pool.Insert, and the two copying goroutines.
PoolInsert ==
  /\ acceptor.at = "insert"
  /\ LET cid == ConnsMade + 1
         t == acceptor.target IN
       /\ detailsById' = [detailsById EXCEPT ![cid] = t]
       /\ idsByTarget' = [idsByTarget EXCEPT ![t] = @ \cup {cid}]
       /\ inTargets' = inTargets \cup {t}
       /\ copying' = [copying EXCEPT ![cid] = "both"]
       /\ stale' = IF \/ t \notin TargetsOf(curSet)
                      \/ lbUpdater.at = "close" /\ t \notin TargetsOf(lbUpdater.set)
                     THEN stale \cup {cid} ELSE stale
  /\ acceptor' = Acceptor("accept", "none")
  /\ UNCHANGED <<curSet, ix, lbUpdater, sets, picked>>

\* A copying goroutine ends, as a side failed or as CloseTarget closed the
\* backend's connection; its deferred CloseConn is a no-op for a connection
\* that is gone from detailsById.
CloseConnFault(cid) ==
  /\ detailsById' = [detailsById EXCEPT ![cid] = "none"]
  /\ UNCHANGED idsByTarget
CloseConn(cid) ==
  LET t == detailsById[cid] IN
  IF t = "none" THEN UNCHANGED <<detailsById, idsByTarget>>
  ELSE /\ detailsById' = [detailsById EXCEPT ![cid] = "none"]
       /\ idsByTarget' = [idsByTarget EXCEPT ![t] = @ \ {cid}]

CopyEnds(cid) ==
  /\ copying[cid] \in {"both", "one"}
  /\ copying' = [copying EXCEPT ![cid] = IF @ = "both" THEN "one" ELSE "ended"]
  /\ CloseConn(cid)
  /\ UNCHANGED <<curSet, ix, acceptor, inTargets, lbUpdater, sets, picked, stale>>

\* The updater takes a new set from the provider, ...
GetSet ==
  /\ lbUpdater.at = "get" /\ sets < MaxSets
  /\ sets' = sets + 1
  /\ \E s \in [LbKeys -> Targets \cup {"none"}] : lbUpdater' = Updater("targets", s, {})
  /\ UNCHANGED <<curSet, ix, acceptor, detailsById, idsByTarget, inTargets, copying, picked,
                 stale>>

\* ... lists the targets of the pool that are not in the new set, ...
LostFault(s) == inTargets \cap (TargetsOf(curSet) \ TargetsOf(s))
Lost(s) == inTargets \ TargetsOf(s)
PoolTargets ==
  /\ lbUpdater.at = "targets"
  /\ lbUpdater' = [lbUpdater EXCEPT !.at = "close", !.left = Lost(lbUpdater.set)]
  /\ stale' = {}
  /\ UNCHANGED <<curSet, ix, acceptor, detailsById, idsByTarget, inTargets, copying, sets,
                 picked>>

\* ... closes the connections of each of them, ...
CloseTarget ==
  /\ lbUpdater.at = "close"
  /\ \E t \in lbUpdater.left :
       /\ detailsById' = [i \in ConnIds |->
                            IF i \in idsByTarget[t] THEN "none" ELSE detailsById[i]]
       /\ idsByTarget' = [idsByTarget EXCEPT ![t] = {}]
       /\ inTargets' = inTargets \ {t}
       /\ lbUpdater' = [lbUpdater EXCEPT !.left = @ \ {t}]
  /\ UNCHANGED <<curSet, ix, acceptor, copying, sets, picked, stale>>

\* ... and only then replaces the set the acceptor picks from.
ReplaceSet ==
  /\ lbUpdater.at = "close" /\ lbUpdater.left = {}
  /\ curSet' = lbUpdater.set
  /\ lbUpdater' = Updater("get", NoSet, {})
  /\ picked' = IF curSet' = curSet THEN picked ELSE <<>>
  /\ UNCHANGED <<ix, acceptor, detailsById, idsByTarget, inTargets, copying, sets, stale>>

LbNext ==
  \/ Accept \/ DialFails \/ Dial \/ PoolInsert
  \/ \E cid \in ConnIds : CopyEnds(cid)
  \/ GetSet \/ PoolTargets \/ CloseTarget \/ ReplaceSet

LbTypeOK ==
  /\ curSet \in [LbKeys -> Targets \cup {"none"}]
  /\ ix \in Nat \ {0}
  /\ acceptor.at \in {"accept", "dial", "insert"}
  /\ detailsById \in [ConnIds -> Targets \cup {"none"}]
  /\ idsByTarget \in [Targets -> SUBSET ConnIds] /\ inTargets \subseteq Targets
  /\ lbUpdater.at \in {"get", "targets", "close"} /\ lbUpdater.left \subseteq Targets

\* The two indexes of the pool always agree, so neither CloseConn nor
\* CloseTarget can panic, whichever of the two copying goroutines and the
\* updater closes a connection first; a target with connections is always
\* found by Targets(); while a set of backends stays, as many successive picks as it
\* has backends reach every backend; and between updates the only connections
\* to a target outside the set are those that entered the pool after the
\* updater listed it: no connection outlives a later update without its target.
LbSound ==
  /\ \A i \in ConnIds, t \in Targets : i \in idsByTarget[t] <=> detailsById[i] = t
  /\ \A t \in Targets : idsByTarget[t] # {} => t \in inTargets
  /\ LET n == Len(KeysOf(curSet)) IN
       \A i \in 0..(Len(picked) - n) :
         n > 0 => {picked[i + j] : j \in 1..n} = {KeysOf(curSet)[j] : j \in 1..n}
  /\ \A i \in ConnIds \ stale : detailsById[i] # "none" /\ lbUpdater.at = "get"
                                  => detailsById[i] \in TargetsOf(curSet)

\* Provider: "any connections to backend TargetNames that are not present in
\* the set anymore will be closed". It does not hold: a connection may enter
\* the pool after the updater listed its targets.
RemovedClosed ==
  lbUpdater.at = "get" => \A i \in ConnIds : detailsById[i] # "none"
                                             => detailsById[i] \in TargetsOf(curSet)
=============================================================================
