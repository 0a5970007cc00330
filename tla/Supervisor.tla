----------------------------- MODULE Supervisor -----------------------------
(***************************************************************************)
(* The supervision tree of osbase/supervisor: the tree of nodes guarded by *)
(* sup.mu, the processor goroutine that starts runnables, collects their   *)
(* results and restarts failed subtrees (the "GC"), and the liquidator     *)
(* that takes over once the supervisor's context is canceled.              *)
(*                                                                         *)
(* Requests travel to the processor over the unbuffered channel pReq, each *)
(* sent by a goroutine of its own, so a sent request is a count per DN and *)
(* the processor may receive any of them next.  Everything in a request is *)
(* keyed by DN, never by node object: the object found under the DN when   *)
(* the request is processed is the one that is acted on.                   *)
(*                                                                         *)
(* Definitions whose names end in Fault are wrong on purpose: each is the  *)
(* definition after it with one plausible mistake, and some property below *)
(* fails when it takes that definition's place.                            *)
(***************************************************************************)
EXTENDS Naturals

CONSTANTS
    DN,         \* the distinguished names runnables may be given
    Root,       \* the DN "root"
    Parent,     \* the DN of a DN's parent, for every DN but Root
    Path,       \* the DNs nodeByDN walks to reach a DN, from Root to itself
    Groups,     \* the sets of children a runnable may pass to RunGroup
    DoneDN,     \* the DNs whose runnables may Signal(DONE)
    MaxLives    \* bound on the runs of one DN that are in flight at once

(***************************************************************************)
(* DNs form a tree rooted at Root.  The groups a runnable starts are       *)
(* non-empty sets of its own children.                                     *)
(***************************************************************************)
ASSUME TreeAssumption ==
    /\ Root \in DN
    /\ Parent \in [DN \ {Root} -> DN]
    /\ Path \in [DN -> SUBSET DN]
    /\ Path[Root] = {Root}
    /\ \A d \in DN \ {Root} :
          /\ d \notin Path[Parent[d]]
          /\ Path[d] = Path[Parent[d]] \union {d}
    /\ \A d \in DN : \A a \in Path[d] :
          /\ Path[a] \subseteq Path[d]
          /\ \A b \in Path[d] : a \in Path[b] \/ b \in Path[a]

ASSUME GroupsAssumption ==
    /\ Groups \in [DN -> SUBSET SUBSET (DN \ {Root})]
    /\ \A p \in DN : \A g \in Groups[p] :
          g # {} /\ \A c \in g : Parent[c] = p

ASSUME EnvironmentAssumption ==
    /\ DoneDN \subseteq DN
    /\ MaxLives \in Nat \ {0}

VARIABLES
    tree,       \* the DNs that currently have a node
    state,      \* node.state
    canceled,   \* the nodes whose ctx is canceled
    group,      \* the members of the group of a node, itself included
    sched,      \* schedule requests sent (or sleeping a backoff) for a DN
    run,        \* running goroutines that hold the node's current ctx
    stale,      \* running goroutines that hold the ctx of an earlier reset
    died,       \* died requests sent for a DN, by the error they carry
    gc,         \* "clean" or "dirty", the clean flag of the processor loop
    proc,       \* who reads pReq: the processor, the liquidator, or nobody
    mu,         \* "leaked" once a panic has left sup.mu locked for good
    race        \* "yes" once the GC has overtaken a DONE runnable's return

vars == <<tree, state, canceled, group, sched, run, stale, died, gc, proc, mu, race>>

NodeState == {"new", "healthy", "dead", "done", "canceled"}

(* What a runnable returned: nil, its context's error, or another error or *)
(* a recovered panic.                                                      *)
Err == {"nil", "ctx", "err"}

Returned(d) == died[d]["nil"] + died[d]["ctx"] + died[d]["err"]

(* The runs of d that the processor has not collected yet. *)
Lives(d) == sched[d] + run[d] + stale[d] + Returned(d)

Under(d) == {c \in tree : d \in Path[c]}

TypeOK ==
    /\ tree \in SUBSET DN
    /\ state \in [DN -> NodeState]
    /\ canceled \in SUBSET tree
    /\ group \in [DN -> SUBSET DN]
    /\ sched \in [DN -> Nat]
    /\ run \in [DN -> Nat]
    /\ stale \in [DN -> Nat]
    /\ died \in [DN -> [Err -> Nat]]
    /\ gc \in {"clean", "dirty"}
    /\ proc \in {"running", "liquidating", "exited", "crashed"}
    /\ mu \in {"free", "leaked"}
    /\ race \in {"no", "yes"}

-----------------------------------------------------------------------------

(* New: the root node, and the request to schedule it. *)
Init ==
    /\ tree = {Root}
    /\ state = [d \in DN |-> "new"]
    /\ canceled = {}
    /\ group = [d \in DN |-> {}]
    /\ sched = [d \in DN |-> IF d = Root THEN 1 ELSE 0]
    /\ run = [d \in DN |-> 0]
    /\ stale = [d \in DN |-> 0]
    /\ died = [d \in DN |-> [e \in Err |-> 0]]
    /\ gc = "clean"
    /\ proc = "running"
    /\ mu = "free"
    /\ race = "no"

(* Calling the ctxC of every node in S cancels the contexts derived from   *)
(* them too.                                                               *)
Cancel(S) ==
    canceled' = canceled \union {c \in tree : Path[c] \cap S # {}}

(* The new context derives from Background. *)
BornCanceledFault(d) == FALSE

(* A context made by node.reset is born canceled if the parent's is. *)
BornCanceled(d) == d # Root /\ Parent[d] \in canceled

(* Some goroutine is ready to send a schedule request for d. *)
Scheduled(d) == sched[d] > 0

(* CANCELED nodes do not get a request. *)
RequestScheduleFault(S) ==
    sched' = [d \in DN |-> IF d \in S /\ state[d] # "canceled" THEN sched[d] + 1 ELSE sched[d]]

(* The goroutines of runGroup and processGC that ask for the nodes in S to *)
(* be scheduled.                                                           *)
RequestSchedule(S) ==
    sched' = [d \in DN |-> IF d \in S THEN sched[d] + 1 ELSE sched[d]]

-----------------------------------------------------------------------------
(* What runnables do, each step one call into the supervisor.              *)

(* A crashed program takes no more steps. *)
Alive == proc # "crashed"

Running(d) == Alive /\ run[d] + stale[d] > 0

(* fromContext finds the node of the caller's DN, under sup.mu. *)
FromContext(d) == Running(d) /\ mu = "free" /\ d \in tree

(* fromContext of a runnable whose node is gone: nodeByDN panics after     *)
(* mu.Lock and before the unlock function is returned.  The runnable's     *)
(* recover turns the panic into a died request.                            *)
FromContextPanic(d) ==
    /\ Alive
    /\ stale[d] > 0
    /\ mu = "free"
    /\ d \notin tree
    /\ mu' = "leaked"
    /\ stale' = [stale EXCEPT ![d] = @ - 1]
    /\ died' = [died EXCEPT ![d]["err"] = @ + 1]
    /\ UNCHANGED <<tree, state, canceled, group, sched, run, gc, proc, race>>

(* node.runGroup: new children in a group of their own, and a goroutine    *)
(* that asks for each to be scheduled.  Any other call returns an error.   *)
RunGroup(p, g) ==
    /\ FromContext(p)
    /\ state[p] = "new"
    /\ g \cap tree = {}
    /\ \A c \in g : Lives(c) < MaxLives
    /\ tree' = tree \union g
    /\ state' = [d \in DN |-> IF d \in g THEN "new" ELSE state[d]]
    /\ canceled' = canceled \union {d \in g : BornCanceled(d)}
    /\ group' = [d \in DN |-> IF d \in g THEN g ELSE group[d]]
    /\ RequestSchedule(g)
    /\ UNCHANGED <<run, stale, died, gc, proc, mu, race>>

(* node.signal.  A signal in any other state panics, and the runnable ends *)
(* in Return(d, "err").                                                    *)
SignalHealthy(d) ==
    /\ FromContext(d)
    /\ state[d] = "new"
    /\ state' = [state EXCEPT ![d] = "healthy"]
    /\ UNCHANGED <<tree, canceled, group, sched, run, stale, died, gc, proc, mu, race>>

SignalDone(d) ==
    /\ FromContext(d)
    /\ state[d] = "healthy"
    /\ state' = [state EXCEPT ![d] = "done"]
    /\ UNCHANGED <<tree, canceled, group, sched, run, stale, died, gc, proc, mu, race>>

(* The runnable returns or panics, and its goroutine sends died. *)
Return(d, e) ==
    /\ Alive
    /\ run[d] > 0
    /\ run' = [run EXCEPT ![d] = @ - 1]
    /\ died' = [died EXCEPT ![d][e] = @ + 1]
    /\ UNCHANGED <<tree, state, canceled, group, sched, stale, gc, proc, mu, race>>

ReturnStale(d, e) ==
    /\ Alive
    /\ stale[d] > 0
    /\ stale' = [stale EXCEPT ![d] = @ - 1]
    /\ died' = [died EXCEPT ![d][e] = @ + 1]
    /\ UNCHANGED <<tree, state, canceled, group, sched, run, gc, proc, mu, race>>

-----------------------------------------------------------------------------
(* The processor.  Every handler takes sup.mu.                             *)

Processing == proc = "running" /\ mu = "free"

MarkDirtyFault == UNCHANGED gc

(* markDirty of the processor loop. *)
MarkDirty == gc' = "dirty"

(* nodeByDN panics on the processor's own goroutine, which nothing         *)
(* recovers: the whole program ends.                                       *)
Crash ==
    /\ proc' = "crashed"
    /\ UNCHANGED <<tree, state, canceled, group, sched, run, stale, died, gc, mu, race>>

(* processSchedule: start the runnable of the node with the node's ctx. *)
StartRunnable(d) ==
    /\ sched' = [sched EXCEPT ![d] = @ - 1]
    /\ run' = [run EXCEPT ![d] = @ + 1]
    /\ MarkDirty
    /\ UNCHANGED <<tree, state, canceled, group, stale, died, proc, mu, race>>

ProcessSchedule(d) ==
    /\ Processing
    /\ Scheduled(d)
    /\ IF d \in tree THEN StartRunnable(d) ELSE Crash

(* A cancellation is one more death of the group. *)
OutcomeDeathFault(d, e) ==
    IF state[d] = "done" /\ e = "nil" THEN "done" ELSE "dead"

(* Returning nil is never a failure. *)
OutcomeNilFault(d, e) ==
    CASE e = "nil" -> state[d]
      [] e = "ctx" /\ d \in canceled -> "canceled"
      [] OTHER -> "dead"

(* processDied: DONE and nil stays DONE, the error of a canceled context   *)
(* is a cancellation, and anything else is a death.                        *)
Outcome(d, e) ==
    CASE state[d] = "done" /\ e = "nil" -> "done"
      [] e = "ctx" /\ d \in canceled -> "canceled"
      [] OTHER -> "dead"

(* A death cancels the node's context and those of its group siblings. *)
RecordResult(d, e) ==
    /\ died' = [died EXCEPT ![d][e] = @ - 1]
    /\ state' = [state EXCEPT ![d] = Outcome(d, e)]
    /\ IF Outcome(d, e) = "dead" THEN Cancel({d} \union group[d]) ELSE UNCHANGED canceled
    /\ MarkDirty
    /\ UNCHANGED <<tree, group, sched, run, stale, proc, mu, race>>

ProcessDied(d, e) ==
    /\ Processing
    /\ died[d][e] > 0
    /\ IF d \in tree THEN RecordResult(d, e) ELSE Crash

-----------------------------------------------------------------------------
(* processGC.                                                              *)

Stopped == {"done", "canceled", "dead"}

(* Only the node and its children are looked at. *)
ReadyFault(d) ==
    \A c \in Under(d) : (c = d \/ Parent[c] = d) => state[c] \in Stopped

(* ready: every node of the subtree is DONE, CANCELED or DEAD. *)
Ready(d) == \A c \in Under(d) : state[c] \in Stopped

(* want *)
Want(d) == state[d] \in {"dead", "canceled"}

(* Nodes that are in want and in ready and whose parent's ctx is valid. *)
Restartable == {d \in tree : Want(d) /\ Ready(d) /\ ~BornCanceled(d)}

(* can: the traversal from the root does not look below a node it picked. *)
Can == {d \in Restartable : Path[d] \cap Restartable = {d}}

(* The nodes that disappear when the children of the nodes in R do. *)
Dropped(R) == {c \in tree \ R : Path[c] \cap R # {}}

(* node.reset of every node in R: children dropped, a new context, NEW.    *)
(* What still runs below keeps a context that no node holds any more.      *)
Reset(R) ==
    LET gone == R \union Dropped(R)
    IN  /\ tree' = tree \ Dropped(R)
        /\ state' = [d \in DN |-> IF d \in gone THEN "new" ELSE state[d]]
        /\ canceled' = (canceled \ gone) \union {d \in R : BornCanceled(d)}
        /\ group' = [d \in DN |-> IF d \in Dropped(R) THEN {} ELSE group[d]]
        /\ stale' = [d \in DN |-> IF d \in gone THEN stale[d] + run[d] ELSE stale[d]]
        /\ run' = [d \in DN |-> IF d \in gone THEN 0 ELSE run[d]]

(* The DONE runnables about to be reset or dropped whose return the        *)
(* processor has not received: nothing makes the GC wait for them.         *)
Overtaken == {c \in tree : state[c] = "done" /\ Lives(c) > 0 /\ Path[c] \cap Can # {}}

(* A tick of the GC when the tree is dirty: reset what can be restarted    *)
(* and send, after a backoff, a request to schedule it.                    *)
ProcessGC ==
    /\ Processing
    /\ gc = "dirty"
    /\ \A d \in Can : Lives(d) < MaxLives
    /\ Reset(Can)
    /\ RequestSchedule(Can)
    /\ gc' = "clean"
    /\ race' = IF Overtaken = {} THEN race ELSE "yes"
    /\ UNCHANGED <<died, proc, mu>>

-----------------------------------------------------------------------------
(* The supervisor's own context is canceled: processKill cancels every     *)
(* node, the processor stops and the liquidator takes over.                *)
ProcessKill ==
    /\ Processing
    /\ Cancel(tree)
    /\ proc' = "liquidating"
    /\ UNCHANGED <<tree, state, group, sched, run, stale, died, gc, mu, race>>

LiveRunnables(st) == {d \in tree : st[d] \notin {"dead", "done"}}

(* The liquidator marks the node DEAD and stops once no runnable is live. *)
Liquidate(d) ==
    /\ state' = [state EXCEPT ![d] = "dead"]
    /\ proc' = IF LiveRunnables(state') = {} THEN "exited" ELSE proc
    /\ UNCHANGED <<tree, canceled, group, run, stale, gc, mu, race>>

LiquidateSchedule(d) ==
    /\ proc = "liquidating"
    /\ mu = "free"
    /\ Scheduled(d)
    /\ IF d \in tree
       THEN Liquidate(d) /\ sched' = [sched EXCEPT ![d] = @ - 1] /\ UNCHANGED died
       ELSE Crash

LiquidateDied(d, e) ==
    /\ proc = "liquidating"
    /\ mu = "free"
    /\ died[d][e] > 0
    /\ IF d \in tree
       THEN Liquidate(d) /\ died' = [died EXCEPT ![d][e] = @ - 1] /\ UNCHANGED sched
       ELSE Crash

-----------------------------------------------------------------------------

Runnables(d) ==
    \/ \E g \in Groups[d] : RunGroup(d, g)
    \/ SignalHealthy(d)
    \/ d \in DoneDN /\ SignalDone(d)
    \/ FromContextPanic(d)
    \/ \E e \in Err : Return(d, e)
    \/ \E e \in Err : ReturnStale(d, e)

Processor(d) ==
    \/ ProcessSchedule(d)
    \/ \E e \in Err : ProcessDied(d, e)
    \/ LiquidateSchedule(d)
    \/ \E e \in Err : LiquidateDied(d, e)

Next ==
    \/ \E d \in DN : Runnables(d) \/ Processor(d)
    \/ ProcessGC
    \/ ProcessKill

Spec == Init /\ [][Next]_vars

-----------------------------------------------------------------------------
(* Safety.                                                                 *)

(* The nodes reachable from the root are exactly the ones looked up by DN, *)
(* and cancellation reaches everything derived from a canceled context:    *)
(* every node of the tree has its ancestors in the tree, and is canceled   *)
(* if one of them is (node.reset derives ctx from the parent's ctx).       *)
CancelPropagates ==
    \A d \in tree : \A a \in Path[d] : a \in tree /\ (a \in canceled => d \in canceled)

(* A node is DEAD or CANCELED only with its context canceled, so nothing   *)
(* it started keeps a live context (processDied).                          *)
StoppedIsCanceled ==
    \A d \in tree : Want(d) => d \in canceled

(* The groups of a node do not overlap: the members of a node's group are  *)
(* siblings of it, in the tree, and have the same group (runGroup,         *)
(* groupSiblings).                                                         *)
GroupsDisjoint ==
    \A d \in tree \ {Root} :
        /\ d \in group[d]
        /\ \A s \in group[d] :
              s \in tree \ {Root} /\ Parent[s] = Parent[d] /\ group[s] = group[d]

(* Once processKill has run no context of the tree is valid, those of the  *)
(* children a runnable still starts afterwards included (runGroup racing   *)
(* processKill).                                                           *)
KillReachesAll ==
    proc \in {"liquidating", "exited"} => canceled = tree

OneRunEach ==
    \A d \in tree :
        /\ state[d] \in {"new", "healthy"} => Lives(d) = 1
        /\ state[d] \in {"dead", "canceled"} => Lives(d) = 0
        /\ state[d] = "done" => Lives(d) <= 1

AllResolve ==
    /\ \A d \in DN : stale[d] = 0 /\ (Lives(d) > 0 => d \in tree)
    /\ proc # "crashed"
    /\ mu = "free"

LiquidatorComplete == proc = "exited" => LiveRunnables(state) = {}

(* Until the GC overtakes the return of a DONE runnable, a NEW or HEALTHY  *)
(* node has exactly one run in flight, a DEAD or CANCELED node none and a  *)
(* DONE node at most one: no node is forgotten and no runnable ever runs   *)
(* twice at the same time (processSchedule, processDied, processGC).       *)
(* Every run in flight belongs to a node of the tree and holds its current *)
(* context, so that nodeByDN's "could not find" panic is unreachable from  *)
(* the processor, the liquidator and fromContext.  And once the liquidator *)
(* has exited, no node is NEW, HEALTHY or CANCELED again: nothing that is  *)
(* still to be started or to fail waits for a reader of pReq.              *)
OneLife == (race = "no" => OneRunEach /\ AllResolve) /\ LiquidatorComplete

(* The GC misses nothing: while the tree is clean, which makes the loop    *)
(* skip processGC, no subtree that must be restarted is ready to be, except *)
(* one with a DONE runnable whose return will make the tree dirty again    *)
(* (Signal changes the tree without marking it dirty).                     *)
GCQuiescent ==
    proc = "running" /\ gc = "clean" =>
        \A d \in Restartable : \E c \in Under(d) : state[c] = "done" /\ Lives(c) > 0

(* Unless it overtakes the return of a DONE runnable, the GC puts a node   *)
(* back to NEW only when no run at or below it is in flight (the "ready"   *)
(* phase of processGC).                                                    *)
RestartStopped ==
    [][race' = "no" => \A d \in tree :
          (d \in tree' /\ state[d] # "new" /\ state'[d] = "new")
          => \A c \in DN : d \in Path[c] => Lives(c) = 0]_vars

(* A NEW or HEALTHY node always has a run in flight whose end will be      *)
(* recorded, whatever late returns of earlier runs under the same DN are   *)
(* mistaken for its own (processDied looks nodes up by DN).                *)
NoneForgotten ==
    \A d \in tree : state[d] \in {"new", "healthy"} => Lives(d) > stale[d]

(* A runnable that was marked as DONE and quit with no error is "supposed  *)
(* to happen" and needs nothing done: the request it sends does not bring  *)
(* the program down (processDied, nodeByDN).                               *)
ProcessorSurvives == proc # "crashed"

=============================================================================
