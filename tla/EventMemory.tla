----------------------------- MODULE EventMemory ----------------------------
(***************************************************************************)
(* The in-memory Event Value of osbase/event/memory.  Set runs under       *)
(* Value.mu and walks the registered watchers one by one while their       *)
(* consumers keep calling Get, which does not take the mutex; Watch takes  *)
(* it for one step.  A watcher's consumer makes one Get at a time (getSem  *)
(* turns a concurrent one away) and closes the watcher between Gets.       *)
(*                                                                         *)
(* The data is the number of the Set it came from, 0 standing for no data. *)
(* The order in which Set visits the watchers is left open.                *)
(***************************************************************************)
EXTENDS Naturals, FiniteSets

CONSTANTS
    Watcher,    \* watcher objects; a closed one that Value dropped is reused
    MaxSets     \* bound on the number of Sets

ASSUME SetsAssumption == IsFiniteSet(Watcher) /\ MaxSets \in Nat

VARIABLES
    mode,       \* Value.Sync, which is set before the Value is used
    inner,      \* Value.inner, 0 while innerSet is false
    watchers,   \* Value.watchers
    cap,        \* the capacity of that slice
    setPc,         \* where Set is, "idle" while Value.mu is free
    todo,       \* the watchers Set has yet to visit
    kept,       \* newWatchers of Set
    cur,        \* the watcher Set updates
    open,       \* watchers in use and not closed
    bufferedC,  \* the data in a watcher's buffered channel, 0 if empty
    get,        \* "wait" while a Get is blocked in its select
    seen        \* the newest data a watcher's Gets have consumed

memVars == <<mode, inner, watchers, cap, setPc, todo, kept, cur, open, bufferedC, get, seen>>

SyncMode == mode = "sync"

setVars == <<setPc, todo, kept, cur>>

MemTypeOK ==
    /\ mode \in {"sync", "async"}
    /\ inner \in Nat
    /\ watchers \subseteq Watcher
    /\ cap \in Nat
    /\ setPc \in {"idle", "visit", "send", "offer"}
    /\ todo \subseteq Watcher
    /\ kept \subseteq Watcher
    /\ cur \in Watcher
    /\ open \subseteq Watcher
    /\ bufferedC \in [Watcher -> Nat]
    /\ get \in [Watcher -> {"idle", "wait"}]
    /\ seen \in [Watcher -> Nat]

MemInit ==
    /\ mode \in {"sync", "async"}
    /\ inner = 0
    /\ watchers = {}
    /\ cap = 0
    /\ setPc = "idle"
    /\ todo = {}
    /\ kept = {}
    /\ cur \in Watcher
    /\ open = {}
    /\ bufferedC = [w \in Watcher |-> 0]
    /\ get = [w \in Watcher |-> "idle"]
    /\ seen = [w \in Watcher |-> 0]

-----------------------------------------------------------------------------
(* Set.                                                                    *)

SetLock ==
    /\ setPc = "idle"
    /\ inner < MaxSets
    /\ inner' = inner + 1
    /\ setPc' = "visit"
    /\ todo' = watchers
    /\ kept' = {}
    /\ UNCHANGED <<mode, watchers, cap, cur, open, bufferedC, get, seen>>

(* A closed watcher is left out of newWatchers. *)
SkipClosed(w) ==
    /\ setPc = "visit"
    /\ w \in todo
    /\ w \notin open
    /\ todo' = todo \ {w}
    /\ UNCHANGED <<mode, inner, watchers, cap, setPc, kept, cur, open, bufferedC, get, seen>>

(* A full channel is left alone. *)
DrainFault(w) == UNCHANGED bufferedC

(* Data that was not retrieved is dropped. *)
Drain(w) == bufferedC' = [bufferedC EXCEPT ![w] = 0]

(* An updated watcher is left out of newWatchers. *)
KeepFault(w) ==
    /\ setPc = "visit"
    /\ w \in todo
    /\ w \in open
    /\ todo' = todo \ {w}
    /\ kept' = kept
    /\ cur' = w

Keep(w) ==
    /\ setPc = "visit"
    /\ w \in todo
    /\ w \in open
    /\ todo' = todo \ {w}
    /\ kept' = kept \union {w}
    /\ cur' = w

(* watcher.update, asynchronous: first drain the channel, then send. *)
UpdateDrain(w) ==
    /\ ~SyncMode
    /\ Keep(w)
    /\ Drain(w)
    /\ setPc' = "send"
    /\ UNCHANGED <<mode, inner, watchers, cap, open, get, seen>>

UpdateSend ==
    /\ setPc = "send"
    /\ bufferedC[cur] = 0
    /\ bufferedC' = [bufferedC EXCEPT ![cur] = inner]
    /\ setPc' = "visit"
    /\ UNCHANGED <<mode, inner, watchers, cap, todo, kept, cur, open, get, seen>>

(* watcher.update, synchronous: wait for a Get or for CloseWatcher. *)
UpdateOffer(w) ==
    /\ SyncMode
    /\ Keep(w)
    /\ setPc' = "offer"
    /\ UNCHANGED <<mode, inner, watchers, cap, open, bufferedC, get, seen>>

(* The offer does not end when the watcher is closed. *)
OfferClosedFault == FALSE

OfferClosed ==
    /\ setPc = "offer"
    /\ cur \notin open
    /\ setPc' = "visit"
    /\ UNCHANGED <<mode, inner, watchers, cap, todo, kept, cur, open, bufferedC, get, seen>>

(* The filtered slice is installed, in a smaller array if less than a      *)
(* third is used.                                                          *)
SetUnlock ==
    /\ setPc = "visit"
    /\ todo = {}
    /\ setPc' = "idle"
    /\ watchers' = kept
    /\ cap' = IF cap > 3 * Cardinality(kept) THEN 2 * Cardinality(kept) ELSE cap
    /\ UNCHANGED <<mode, inner, todo, kept, cur, open, bufferedC, get, seen>>

-----------------------------------------------------------------------------
(* Watch and CloseWatcher.                                                        *)

(* The watchers that stay when the slice is full. *)
Survivors == watchers \cap open

(* The capacity that makes room for them: 1.5 to 3 times their number. *)
Resized(k) == IF 2 * cap < 3 * k \/ cap > 3 * k THEN 2 * k ELSE cap

(* append to a slice of length k and capacity c *)
Appended(k, c) ==
    IF k < c THEN c ELSE IF k = 0 THEN 1 ELSE 2 * k

(* The current data is not offered to a new watcher. *)
FirstDataFault == 0

(* What a new watcher finds in its channel. *)
FirstData == inner

Watch(w) ==
    /\ setPc = "idle"
    /\ w \notin watchers
    /\ w \notin open
    /\ IF Cardinality(watchers) = cap
       THEN /\ watchers' = Survivors \union {w}
            /\ cap' = Appended(Cardinality(Survivors), Resized(Cardinality(Survivors)))
       ELSE /\ watchers' = watchers \union {w}
            /\ UNCHANGED cap
    /\ open' = open \union {w}
    /\ bufferedC' = [bufferedC EXCEPT ![w] = FirstData]
    /\ seen' = [seen EXCEPT ![w] = IF inner = 0 THEN 0 ELSE inner - 1]
    /\ UNCHANGED <<mode, inner, setVars, get>>

CloseWatcher(w) ==
    /\ w \in open
    /\ get[w] = "idle"
    /\ open' = open \ {w}
    /\ UNCHANGED <<mode, inner, watchers, cap, setVars, bufferedC, get, seen>>

-----------------------------------------------------------------------------
(* Get.                                                                    *)

(* Data is consumed.  Get returns it, or looks for more if its predicate   *)
(* does not accept it.                                                     *)
Consume(w, v) ==
    /\ seen' = [seen EXCEPT ![w] = v]
    /\ get' \in {[get EXCEPT ![w] = "idle"], [get EXCEPT ![w] = "wait"]}

TakeBuffered(w) ==
    /\ bufferedC[w] # 0
    /\ bufferedC' = [bufferedC EXCEPT ![w] = 0]
    /\ Consume(w, bufferedC[w])
    /\ UNCHANGED <<mode, inner, watchers, cap, setVars, open>>

(* Data in the channel is taken without looking at the context. *)
GetStart(w) ==
    /\ w \in open
    /\ get[w] = "idle"
    /\ \/ TakeBuffered(w)
       \/ /\ bufferedC[w] = 0
          /\ get' = [get EXCEPT ![w] = "wait"]
          /\ UNCHANGED <<mode, inner, watchers, cap, setVars, open, bufferedC, seen>>

GetReceive(w) == get[w] = "wait" /\ TakeBuffered(w)

(* A Get meets the Set that offers on unbufferedC. *)
GetOffered(w) ==
    /\ setPc = "offer"
    /\ cur = w
    /\ get[w] = "wait"
    /\ Consume(w, inner)
    /\ setPc' = "visit"
    /\ UNCHANGED <<mode, inner, watchers, cap, todo, kept, cur, open, bufferedC>>

GetCancel(w) ==
    /\ get[w] = "wait"
    /\ get' = [get EXCEPT ![w] = "idle"]
    /\ UNCHANGED <<mode, inner, watchers, cap, setVars, open, bufferedC, seen>>

-----------------------------------------------------------------------------

SetStep ==
    \/ UpdateSend
    \/ OfferClosed
    \/ SetUnlock
    \/ \E w \in Watcher : SkipClosed(w) \/ UpdateDrain(w) \/ UpdateOffer(w)

Consumer(w) ==
    \/ Watch(w)
    \/ CloseWatcher(w)
    \/ GetStart(w)
    \/ GetReceive(w)
    \/ GetOffered(w)
    \/ GetCancel(w)

MemNext == SetLock \/ SetStep \/ \E w \in Watcher : Consumer(w)

MemSpec == MemInit /\ [][MemNext]_memVars

(* A producer inside Set runs, a consumer calls Get again and again, and a *)
(* Get that keeps being retried meets a Set that offers to it.             *)
MemFairness ==
    /\ WF_memVars(SetStep)
    /\ \A w \in Watcher :
          /\ WF_memVars(GetStart(w))
          /\ WF_memVars(GetReceive(w))
          /\ SF_memVars(GetOffered(w))

MemFairSpec == MemSpec /\ MemFairness

-----------------------------------------------------------------------------

(* The number of Sets that have returned. *)
Completed == IF setPc = "idle" THEN inner ELSE inner - 1

(* No update is lost: a watcher in use has retrieved the data of the last  *)
(* completed Set, or finds that data, or newer data, in its channel, or is *)
(* being handed newer data at the moment (Set, update, Watch and Get).     *)
NoUpdateLost ==
    \A w \in open :
        \/ seen[w] >= Completed
        \/ bufferedC[w] >= Completed
        \/ setPc = "send" /\ cur = w

(* "The channel is now empty, so sending to it cannot block": nothing else *)
(* fills the channel between the drain and the send of update.             *)
SendNeverBlocks == setPc = "send" => bufferedC[cur] = 0

(* Set and Watch drop closed watchers only: every watcher in use is        *)
(* registered whenever the mutex is free.                                  *)
OpenRegistered == setPc = "idle" => open \subseteq watchers

EV == INSTANCE EventValue WITH begun <- inner, done <- Completed

(* The in-memory Event Value keeps the promises of event.Value and         *)
(* event.Watcher: Get returns newer data than before and never older than  *)
(* the last completed Set, and with Sync "a full log of all Set() calls".  *)
Implements == EV!ESpec

(* A completed Set reaches every watcher that stays open and is read: time *)
(* and again each one in use has retrieved the data of the last completed  *)
(* Set.                                                                    *)
Delivered == \A w \in Watcher : []<>(w \in open => seen[w] >= Completed)

(* Set returns, also a synchronous one, as long as consumers read or close *)
(* their watchers.                                                         *)
SetReturns == []<>(setPc = "idle")

=============================================================================
