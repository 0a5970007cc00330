------------------------------ MODULE MCEvents ------------------------------
(***************************************************************************)
(* The two implementations of Event Values in osbase/event, in one model.  *)
(* Each behaviour belongs to one part:                                     *)
(*   memory  a Value in memory, with two watchers and three Sets,          *)
(*           synchronous or not;                                           *)
(*   etcd    a watcher of a range of two keys, or of one of them, with two *)
(*           values each.                                                  *)
(***************************************************************************)
EXTENDS EventMemory, EventEtcd

CONSTANTS w1, w2, a, b, x, y

VARIABLE part

eventVars == <<part, memVars, watchVars>>

Watchers == {w1, w2}

Keys == {a, b}

Vals == {x, y}

EventsInit ==
    /\ part \in {"memory", "etcd"}
    /\ MemInit
    /\ EtcdInit
    /\ part # "memory" => mode = "sync" /\ cur = w1
    /\ part # "etcd" => only = a

EventsNext ==
    \/ part = "memory" /\ MemNext /\ UNCHANGED <<part, watchVars>>
    \/ part = "etcd" /\ EtcdNext /\ UNCHANGED <<part, memVars>>

(* The fairness of the two parts: an action of the other one is never      *)
(* enabled.                                                                *)
EventsFairness ==
    /\ WF_memVars(part = "memory" /\ SetStep)
    /\ \A w \in Watcher :
           /\ WF_memVars(part = "memory" /\ GetStart(w))
           /\ WF_memVars(part = "memory" /\ GetReceive(w))
           /\ SF_memVars(part = "memory" /\ GetOffered(w))
    /\ SF_watchVars(part = "etcd" /\ Get("block"))
    /\ SF_watchVars(part = "etcd" /\ SetupGet)
    /\ WF_watchVars(part = "etcd" /\ SetupWatch)
    /\ SF_watchVars(part = "etcd" /\ \E r \in 1..MaxRev : Receive(r))
    /\ WF_watchVars(part = "etcd" /\ Apply)
    /\ SF_watchVars(part = "etcd" /\ Canceled)
    /\ WF_watchVars(part = "etcd" /\ Check)
    /\ WF_watchVars(part = "etcd" /\ Pop)
    /\ WF_watchVars(part = "etcd" /\ CtxDone)

EventsSpec == EventsInit /\ [][EventsNext]_eventVars /\ EventsFairness

(* ExistingConsistent, in the part where the consumer keeps calling Get of *)
(* the etcd watcher.                                                       *)
WatcherConsistent == part = "etcd" => ExistingConsistent

=============================================================================
