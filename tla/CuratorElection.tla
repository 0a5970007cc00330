--------------------------- MODULE CuratorElection --------------------------
(***************************************************************************)
(* Leader election of metropolis/node/core/curator: the curator of every   *)
(* control plane node, the etcd election keys they compete with, the       *)
(* listener that serves a leader or a follower, the GetCurrentLeader       *)
(* stream of a follower, and leader handlers that read, modify and write   *)
(* node data guarded by the key of their leadership.                       *)
(*                                                                         *)
(* An election key is its creation revision and the node that proclaims    *)
(* itself in it; keys are unique per session, so the revision stands for   *)
(* lockKey and lockRev.  Leases expire whether or not the curator knows.   *)
(***************************************************************************)
EXTENDS Naturals, FiniteSets

CONSTANTS
    Curator,    \* nodes that run a curator
    Handler,    \* concurrent RPC handlers of a curator
    MaxWrites,  \* bound on the handlers' writes
    MaxFaults   \* bound on expired leases, failed calls and crashes

ASSUME ElectionAssumption ==
    /\ IsFiniteSet(Curator)
    /\ IsFiniteSet(Handler)
    /\ MaxWrites \in Nat
    /\ MaxFaults \in Nat

VARIABLES
    rev,        \* the revision of the last election key
    locks,      \* the election keys in etcd
    pc,         \* where Service.Run is
    session,    \* the key of the running session, 0 before it is put
    stale,      \* the key cleanupPreviousLifetime is about to remove, or 0
    status,     \* Service.status
    unseen,     \* watchers of the status with data they have not got yet
    serving,    \* the status the listener serves, of kind "none" while it restarts
    stream,     \* a GetCurrentLeader call to the follower served
    handler,    \* calls to the leaders served
    data,       \* the node data that handlers read, modify and write
    writes,     \* modifications acknowledged
    faults      \* faults so far

etcdVars == <<rev, locks>>
runVars == <<pc, session, stale>>
listenVars == <<serving, stream>>
workVars == <<handler, data, writes>>
vars == <<rev, locks, pc, session, stale, status, unseen, serving, stream,
          handler, data, writes, faults>>

Lock == [rev : Nat, node : Curator]

Status == [kind : {"none", "follower", "leader"}, rev : Nat, node : Curator]

Neither(c) == [kind |-> "none", rev |-> 0, node |-> c]

Following(c) == [kind |-> "follower", rev |-> 0, node |-> c]

Leading(c, r) == [kind |-> "leader", rev |-> r, node |-> c]

Handling == [pc : {"idle", "lock", "save"}, rev : Nat, val : Nat]

Idle == [pc |-> "idle", rev |-> 0, val |-> 0]

TypeOK ==
    /\ rev \in Nat
    /\ locks \in SUBSET Lock
    /\ pc \in [Curator -> {"elect", "cleanup", "establish", "put", "wait",
                           "leader", "close", "reset"}]
    /\ session \in [Curator -> Nat]
    /\ stale \in [Curator -> Nat]
    /\ status \in [Curator -> Status]
    /\ unseen \in SUBSET ({"listener", "stream"} \X Curator)
    /\ serving \in [Curator -> Status]
    /\ stream \in [Curator -> {"none", "open"}]
    /\ handler \in [Curator \X Handler -> Handling]
    /\ data \in Nat
    /\ writes \in Nat
    /\ faults \in Nat

Init ==
    /\ rev = 0
    /\ locks = {}
    /\ pc = [c \in Curator |-> "elect"]
    /\ session = [c \in Curator |-> 0]
    /\ stale = [c \in Curator |-> 0]
    /\ status = [c \in Curator |-> Neither(c)]
    /\ unseen = {}
    /\ serving = [c \in Curator |-> Neither(c)]
    /\ stream = [c \in Curator |-> "none"]
    /\ handler = [w \in Curator \X Handler |-> Idle]
    /\ data = 0
    /\ writes = 0
    /\ faults = 0

(* WithFirstCreate, and the leader that an election's observers see. *)
First(l) ==
    /\ l \in locks
    /\ \A k \in locks : l.rev <= k.rev

Exists(r) == \E l \in locks : l.rev = r

Removed(r) == {l \in locks : l.rev # r}

(* memory.Value.Set: every watcher has the new status to get. *)
SetStatus(c, st) ==
    /\ status' = [status EXCEPT ![c] = st]
    /\ unseen' = unseen \union {<<"listener", c>>, <<"stream", c>>}

Fault ==
    /\ faults < MaxFaults
    /\ faults' = faults + 1

-----------------------------------------------------------------------------
(* Service.Run and elect. *)

OursFault(c, l) == TRUE

Ours(c, l) == l.node = c

CleanupRead(c) ==
    /\ pc[c] = "elect"
    /\ \/ \E l \in locks :
              /\ First(l)
              /\ Ours(c, l)
              /\ stale' = [stale EXCEPT ![c] = l.rev]
              /\ pc' = [pc EXCEPT ![c] = "cleanup"]
       \/ /\ pc' = [pc EXCEPT ![c] = "establish"]    \* not ours, none, or an error
          /\ UNCHANGED stale
    /\ UNCHANGED <<etcdVars, session, status, unseen, listenVars, workVars, faults>>

CleanupDelete(c) ==
    /\ pc[c] = "cleanup"
    /\ locks' \in {Removed(stale[c]), locks}
    /\ pc' = [pc EXCEPT ![c] = "establish"]
    /\ stale' = [stale EXCEPT ![c] = 0]
    /\ UNCHANGED <<rev, session, status, unseen, listenVars, workVars, faults>>

NewSession(c) ==
    /\ pc[c] = "establish"
    /\ \/ /\ pc' = [pc EXCEPT ![c] = "put"]
          /\ UNCHANGED faults
       \/ /\ pc' = [pc EXCEPT ![c] = "reset"]
          /\ Fault
    /\ UNCHANGED <<etcdVars, session, stale, status, unseen, listenVars, workVars>>

(* Election.Campaign puts the key, then waits for the older keys to go. *)
CampaignPut(c) ==
    /\ pc[c] = "put"
    /\ rev' = rev + 1
    /\ locks' = locks \union {[rev |-> rev + 1, node |-> c]}
    /\ session' = [session EXCEPT ![c] = rev + 1]
    /\ pc' = [pc EXCEPT ![c] = "wait"]
    /\ UNCHANGED <<stale, status, unseen, listenVars, workVars, faults>>

Observe(c) ==
    /\ pc[c] \in {"put", "wait"}
    /\ \E l \in locks :
           /\ First(l)
           /\ status[c] # Following(l.node)
           /\ SetStatus(c, Following(l.node))
    /\ UNCHANGED <<etcdVars, runVars, listenVars, workVars, faults>>

(* waitDeletes only looks at the older keys, not at the campaigner's own. *)
Elected(c) == \A l \in locks : l.rev >= session[c]

CampaignedFault(c) ==
    /\ pc[c] = "wait"
    /\ SetStatus(c, Leading(c, session[c]))
    /\ pc' = [pc EXCEPT ![c] = "leader"]
    /\ UNCHANGED <<etcdVars, session, stale, listenVars, workVars, faults>>

Campaigned(c) ==
    /\ pc[c] = "wait"
    /\ Elected(c)
    /\ SetStatus(c, Leading(c, session[c]))
    /\ pc' = [pc EXCEPT ![c] = "leader"]
    /\ UNCHANGED <<etcdVars, session, stale, listenVars, workVars, faults>>

(* Observation or campaign failed. *)
ElectionFail(c) ==
    /\ pc[c] \in {"put", "wait"}
    /\ Fault
    /\ pc' = [pc EXCEPT ![c] = "close"]
    /\ UNCHANGED <<etcdVars, session, stale, status, unseen, listenVars, workVars>>

SessionDone(c) ==
    /\ pc[c] = "leader"
    /\ \/ /\ ~Exists(session[c])
          /\ UNCHANGED faults
       \/ Fault
    /\ pc' = [pc EXCEPT ![c] = "close"]
    /\ UNCHANGED <<etcdVars, session, stale, status, unseen, listenVars, workVars>>

(* The deferred session.Close, which revokes the lease or fails. *)
SessionClose(c) ==
    /\ pc[c] = "close"
    /\ locks' \in {Removed(session[c]), locks}
    /\ session' = [session EXCEPT ![c] = 0]
    /\ pc' = [pc EXCEPT ![c] = "reset"]
    /\ UNCHANGED <<rev, stale, status, unseen, listenVars, workVars, faults>>

Reset(c) ==
    /\ pc[c] = "reset"
    /\ SetStatus(c, Neither(c))
    /\ pc' = [pc EXCEPT ![c] = "elect"]
    /\ UNCHANGED <<etcdVars, session, stale, listenVars, workVars, faults>>

-----------------------------------------------------------------------------
(* Leases and crashes. *)

Expire(l) ==
    /\ l \in locks
    /\ Fault
    /\ locks' = locks \ {l}
    /\ UNCHANGED <<rev, runVars, status, unseen, listenVars, workVars>>

(* The lease of a session that is gone expires for certain. *)
ExpireStale(l) ==
    /\ l \in locks
    /\ \A c \in Curator : session[c] # l.rev
    /\ locks' = locks \ {l}
    /\ UNCHANGED <<rev, runVars, status, unseen, listenVars, workVars, faults>>

(* The process ends and starts again: only etcd remembers. *)
Restarts(c) ==
    /\ pc' = [pc EXCEPT ![c] = "elect"]
    /\ session' = [session EXCEPT ![c] = 0]
    /\ stale' = [stale EXCEPT ![c] = 0]
    /\ status' = [status EXCEPT ![c] = Neither(c)]
    /\ unseen' = unseen \ {<<"listener", c>>, <<"stream", c>>}
    /\ serving' = [serving EXCEPT ![c] = Neither(c)]
    /\ stream' = [stream EXCEPT ![c] = "none"]
    /\ handler' = [w \in Curator \X Handler |-> IF w[1] = c THEN Idle ELSE handler[w]]
    /\ UNCHANGED <<etcdVars, data, writes>>

Crash(c) ==
    /\ Fault
    /\ Restarts(c)

-----------------------------------------------------------------------------
(* The listener and the follower it serves. *)

Listen(c) ==
    /\ serving[c].kind = "none"
    /\ status[c].kind # "none"
    /\ serving' = [serving EXCEPT ![c] = status[c]]
    /\ unseen' = unseen \ {<<"listener", c>>}
    /\ UNCHANGED <<etcdVars, runVars, status, stream, workVars, faults>>

(* electionStatusLeader.equal, electionStatusFollower.equal. *)
SameFault(s, t) == s.kind = t.kind

Same(s, t) == s.kind = t.kind /\ s.rev = t.rev /\ s.node = t.node

(* A change ends the listener, and with it the server it runs. *)
ListenerGet(c) ==
    /\ serving[c].kind # "none"
    /\ <<"listener", c>> \in unseen
    /\ unseen' = unseen \ {<<"listener", c>>}
    /\ serving' = [serving EXCEPT ![c] =
           IF Same(serving[c], status[c]) THEN serving[c] ELSE Neither(c)]
    /\ UNCHANGED <<etcdVars, runVars, status, stream, workVars, faults>>

StreamOpen(c) ==
    /\ serving[c].kind = "follower"
    /\ stream[c] = "none"
    /\ stream' = [stream EXCEPT ![c] = "open"]
    /\ unseen' = unseen \union {<<"stream", c>>}
    /\ UNCHANGED <<etcdVars, runVars, status, serving, workVars, faults>>

(* The follower's GetCurrentLeader gets a status: it sends the leader and  *)
(* goes on, or returns.                                                    *)
StreamGet(c) ==
    /\ stream[c] = "open"
    /\ <<"stream", c>> \in unseen
    /\ unseen' = unseen \ {<<"stream", c>>}
    /\ \/ /\ status[c].kind = "follower"
          /\ stream' \in {stream, [stream EXCEPT ![c] = "none"]}
       \/ /\ status[c].kind = "leader"
          /\ stream' = [stream EXCEPT ![c] = "none"]
    /\ UNCHANGED <<etcdVars, runVars, status, serving, workVars, faults>>

(* It takes the follower of a status that has none: the process panics. *)
StreamPanic(c) ==
    /\ stream[c] = "open"
    /\ <<"stream", c>> \in unseen
    /\ status[c].kind = "none"
    /\ Restarts(c)
    /\ UNCHANGED faults

(* The server stopped or the client left; data that waits is got first. *)
StreamCancel(c) ==
    /\ stream[c] = "open"
    /\ <<"stream", c>> \notin unseen
    /\ stream' = [stream EXCEPT ![c] = "none"]
    /\ UNCHANGED <<etcdVars, runVars, status, unseen, serving, workVars, faults>>

-----------------------------------------------------------------------------
(* Calls to a leader.  Stopping its server does not wait for them. *)

HandlerStart(c, h) ==
    /\ handler[<<c, h>>].pc = "idle"
    /\ data < MaxWrites
    /\ serving[c].kind = "leader"
    /\ handler' = [handler EXCEPT ![<<c, h>>] =
           [pc |-> "lock", rev |-> serving[c].rev, val |-> 0]]
    /\ UNCHANGED <<etcdVars, runVars, status, unseen, listenVars, data, writes, faults>>

(* muNodes of a leadership is held from the first transaction to the last. *)
UnlockedFault(r) == TRUE

Unlocked(r) == \A w \in Curator \X Handler : handler[w].pc = "save" => handler[w].rev # r

(* txnAsLeader compares the creation revision of the leadership's key. *)
AsLeader(r) == Exists(r)

HandlerLoad(c, h) ==
    /\ handler[<<c, h>>].pc = "lock"
    /\ Unlocked(handler[<<c, h>>].rev)
    /\ handler' = [handler EXCEPT ![<<c, h>>] =
           IF AsLeader(handler[<<c, h>>].rev)
           THEN [pc |-> "save", rev |-> handler[<<c, h>>].rev, val |-> data]
           ELSE Idle]
    /\ UNCHANGED <<etcdVars, runVars, status, unseen, listenVars, data, writes, faults>>

HandlerSave(c, h) ==
    /\ handler[<<c, h>>].pc = "save"
    /\ handler' = [handler EXCEPT ![<<c, h>>] = Idle]
    /\ IF AsLeader(handler[<<c, h>>].rev)
       THEN /\ data' = handler[<<c, h>>].val + 1
            /\ writes' = writes + 1
       ELSE UNCHANGED <<data, writes>>
    /\ UNCHANGED <<etcdVars, runVars, status, unseen, listenVars, faults>>

(* A precondition of the handler fails, or etcd does. *)
HandlerAbort(c, h) ==
    /\ handler[<<c, h>>].pc # "idle"
    /\ handler' = [handler EXCEPT ![<<c, h>>] = Idle]
    /\ UNCHANGED <<etcdVars, runVars, status, unseen, listenVars, data, writes, faults>>

-----------------------------------------------------------------------------
Next ==
    \/ \E c \in Curator :
           \/ CleanupRead(c) \/ CleanupDelete(c) \/ NewSession(c) \/ CampaignPut(c)
           \/ Observe(c) \/ Campaigned(c) \/ ElectionFail(c) \/ SessionDone(c)
           \/ SessionClose(c) \/ Reset(c) \/ Crash(c)
           \/ Listen(c) \/ ListenerGet(c)
           \/ StreamOpen(c) \/ StreamGet(c) \/ StreamPanic(c) \/ StreamCancel(c)
    \/ \E c \in Curator, h \in Handler :
           \/ HandlerStart(c, h) \/ HandlerLoad(c, h)
           \/ HandlerSave(c, h) \/ HandlerAbort(c, h)
    \/ \E l \in locks : Expire(l) \/ ExpireStale(l)

Spec == Init /\ [][Next]_vars

(* Goroutines that can run do, the observer and the watchers hand over what *)
(* they have, the lease of a dead session runs out.  Nothing is assumed of  *)
(* faults, of clients and of handlers.                                      *)
FairSpec ==
    /\ Spec
    /\ \A c \in Curator :
           /\ WF_vars(CleanupRead(c) \/ CleanupDelete(c) \/ CampaignPut(c))
           /\ WF_vars(NewSession(c))
           /\ WF_vars(Observe(c))
           /\ WF_vars(Campaigned(c))
           /\ WF_vars(~Exists(session[c]) /\ SessionDone(c))
           /\ WF_vars(SessionClose(c) \/ Reset(c))
           /\ WF_vars(Listen(c))
           /\ WF_vars(ListenerGet(c))
    /\ WF_vars(\E l \in locks : ExpireStale(l))

-----------------------------------------------------------------------------
(* Leadership is exclusive: two curators that serve as leaders, or handlers *)
(* left over from such, cannot both have their key in etcd ("The curator's  *)
(* leadership ensure no two curators run simultaneously").                  *)
Leaderships ==
    {serving[c].rev : c \in {d \in Curator : serving[d].kind = "leader"}}
        \union {handler[w].rev : w \in {v \in Curator \X Handler : handler[v].pc # "idle"}}

SoleLeadership == \A r, s \in Leaderships : Exists(r) /\ Exists(s) => r = s

(* No handler's modification is lost: the data holds every one that was    *)
(* acknowledged, whatever leases expire, leaders change and stale handlers *)
(* linger (txnAsLeader and muNodes).                                       *)
NoLostUpdate == data = writes

(* cleanupPreviousLifetime only ever removes the key of a session that is  *)
(* no more: no running session of any curator owns it.                     *)
CleanupStale ==
    \A c, d \in Curator : stale[c] # 0 => session[d] # stale[c]

Serves(c) ==
    /\ serving[c].kind = "leader"
    /\ Exists(serving[c].rev)

(* In the end one curator goes on serving as the leader whose key is in    *)
(* etcd, and every other listener points to it: none keeps serving or      *)
(* announcing an older leader, and none stays without a status.            *)
AllAgree ==
    <>[](\E c \in Curator :
            /\ Serves(c)
            /\ \A d \in Curator \ {c} : serving[d] = Following(c))

(* A follower's GetCurrentLeader never gets a status that names no leader, *)
(* which it would dereference.                                             *)
FollowerKnowsLeader ==
    \A c \in Curator :
        stream[c] = "open" /\ <<"stream", c>> \in unseen => status[c].kind # "none"

=============================================================================
