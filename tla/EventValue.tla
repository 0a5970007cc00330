----------------------------- MODULE EventValue -----------------------------
(***************************************************************************)
(* What an Event Value promises (osbase/event): producers Set it, every    *)
(* consumer has a Watcher of its own, and Get on a Watcher returns data    *)
(* that is newer than what that Watcher returned before and not older than *)
(* the last Set that had completed.  The data is the number of the Set it  *)
(* came from; Sets are serialized.                                         *)
(***************************************************************************)
EXTENDS Naturals

CONSTANT
    Watcher     \* the watchers

VARIABLES
    mode,       \* "sync" if a Set waits until every watcher has got the data
    begun,      \* number of Sets begun
    done,       \* number of Sets returned
    open,       \* watchers in use
    seen        \* the newest data a watcher has retrieved

evars == <<mode, begun, done, open, seen>>

Sync == mode = "sync"

EInit ==
    /\ mode \in {"sync", "async"}
    /\ begun = 0
    /\ done = 0
    /\ open = {}
    /\ seen = [w \in Watcher |-> 0]

SetBegins ==
    /\ begun = done
    /\ begun' = begun + 1
    /\ UNCHANGED <<mode, done, open, seen>>

(* A synchronous Set returns once every watcher has the data. *)
SetReturns ==
    /\ done < begun
    /\ Sync => \A w \in open : seen[w] = begun
    /\ done' = begun
    /\ UNCHANGED <<mode, begun, open, seen>>

(* A new watcher has yet to retrieve the current data, if there is any. *)
Watches(w) ==
    /\ begun = done
    /\ w \notin open
    /\ open' = open \union {w}
    /\ seen' = [seen EXCEPT ![w] = IF done = 0 THEN 0 ELSE done - 1]
    /\ UNCHANGED <<mode, begun, done>>

Closes(w) ==
    /\ w \in open
    /\ open' = open \ {w}
    /\ UNCHANGED <<mode, begun, done, seen>>

(* Get never goes back, never misses a completed Set, and misses nothing   *)
(* at all if Sets are synchronous.                                         *)
Gets(w) ==
    /\ w \in open
    /\ \E v \in done..begun :
          /\ seen[w] < v
          /\ Sync => v = seen[w] + 1
          /\ seen' = [seen EXCEPT ![w] = v]
    /\ UNCHANGED <<mode, begun, done, open>>

ENext ==
    \/ SetBegins
    \/ SetReturns
    \/ \E w \in Watcher : Watches(w) \/ Closes(w) \/ Gets(w)

ESpec == EInit /\ [][ENext]_evars

=============================================================================
