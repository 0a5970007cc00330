-------------------------------- MODULE Bmdb --------------------------------
(***************************************************************************)
(* Sessions, work locks and backoffs of the Bare Metal Database            *)
(* (cloud/bmaas/bmdb) and the control loops of the shepherd that use them  *)
(* (cloud/shepherd/manager/control_loop.go).  A worker is one runOne       *)
(* goroutine of a control loop.  It keeps a session, locks a machine under *)
(* its process, works on it outside of any transaction, and ends the work  *)
(* with Finish or Fail.                                                    *)
(*                                                                         *)
(* A transaction is one step: CockroachDB is serializable and ExecuteTx    *)
(* retries conflicts.  A transaction may report an error although it was   *)
(* committed.  One that fails without a commit and leaves its worker where *)
(* it was is a stuttering step.  What the work does to the machine and its *)
(* tags is in module Shepherd.                                             *)
(***************************************************************************)
EXTENDS Integers, FiniteSets

CONSTANTS
    Workers,    \* runOne goroutines
    Instance,   \* the shepherd process a worker is part of
    Process,    \* the BMDB process a worker runs
    Processes,  \* the processes that exclude each other
    Machines,
    Sessions,   \* session UUIDs, which bound the number of sessions
    None,       \* no session, no machine
    Backoffs,   \* the Backoff descriptor of a process
    MaxFaults   \* bound on lost answers, starved heartbeats and crashes

ASSUME BmdbAssumption ==
    /\ Process \in [Workers -> Processes]
    /\ None \notin Sessions
    /\ None \notin Machines
    /\ MaxFaults \in Nat
    /\ Backoffs \in [Processes -> [initial : Nat, maximum : Nat, num : Nat, den : Nat \ {0}]]

VARIABLES
    row,        \* the sessions table
    ctx,        \* Session.ctx, live as long as maintainHeartbeat runs
    work,       \* the work table: <<machine, session, process>>
    interval,   \* work_backoff.last_interval_seconds, 0 if there is no row
    lockout,    \* whether work_backoff.until lies ahead
    pc,         \* where a worker is
    sess,       \* the session a worker uses
    mach,       \* Work.Machine
    last,       \* Work.backoff, 0 for nil
    faults

tables == <<row, work, interval, lockout>>
locals == <<pc, sess, mach, last>>
bmdbVars == <<row, ctx, work, interval, lockout, pc, sess, mach, last, faults>>

RowState == {"absent", "valid", "expired"}

Init ==
    /\ row = [s \in Sessions |-> "absent"]
    /\ ctx = [s \in Sessions |-> "live"]
    /\ work = {}
    /\ interval = [m \in Machines |-> [p \in Processes |-> 0]]
    /\ lockout = [m \in Machines |-> [p \in Processes |-> "past"]]
    /\ pc = [w \in Workers |-> "idle"]
    /\ sess = [w \in Workers |-> None]
    /\ mach = [w \in Workers |-> None]
    /\ last = [w \in Workers |-> 0]
    /\ faults \in 0..MaxFaults

Fault ==
    /\ faults < MaxFaults
    /\ faults' = faults + 1

-----------------------------------------------------------------------------
(* Backoff.next.                                                           *)

AtLeast(x, y) == IF x < y THEN y ELSE x
AtMost(x, y) == IF x > y THEN y ELSE x

Normalized(b) ==
    LET initial == AtLeast(b.initial, 1)
    IN  [initial |-> initial,
         maximum |-> AtLeast(b.maximum, initial),
         num |-> AtLeast(b.num, b.den),
         den |-> b.den]

Simple(b) == b.num = 0 \/ b.num = b.den

RoundUpFault(x, y) == x \div y

RoundUp(x, y) == (x + y - 1) \div y

(* The period in seconds after a failure, existing being the one before or *)
(* 0.  The exponent is num / den.  Periods near the range of an int64      *)
(* count of nanoseconds do not occur.                                      *)
NextPeriod(b, existing) ==
    LET c == Normalized(b)
    IN  IF Simple(b) \/ existing = 0
        THEN c.initial
        ELSE AtMost(RoundUp(AtLeast(existing, 1) * c.num, c.den), c.maximum)

-----------------------------------------------------------------------------
(* Sessions.                                                               *)

(* SessionCheck returns the session. *)
Checked(s) == row[s] = "valid"

Unused == {s \in Sessions : row[s] = "absent"}

(* Which of the unused UUIDs is drawn makes no difference. *)
StartSession(w) ==
    /\ pc[w] = "idle"
    /\ sess[w] = None
    /\ Unused # {}
    /\ LET s == CHOOSE s \in Unused : TRUE
       IN  /\ row' = [row EXCEPT ![s] = "valid"]
           /\ sess' = [sess EXCEPT ![w] = s]
    /\ UNCHANGED <<ctx, work, interval, lockout, pc, mach, last, faults>>

(* Sessions no worker uses are left as they are: nothing depends on them. *)
InUse(s) == \E w \in Workers : sess[w] = s

(* The deadline passes without a poke.  Under a live heartbeat, which      *)
(* checks and pokes the row twice per interval, that takes a starved one. *)
Lapse(s) ==
    /\ InUse(s)
    /\ Checked(s)
    /\ row' = [row EXCEPT ![s] = "expired"]
    /\ IF ctx[s] = "live" THEN Fault ELSE UNCHANGED faults
    /\ UNCHANGED <<ctx, work, interval, lockout, locals>>

(* The heartbeat finds its session expired, or meets an error before its   *)
(* internal deadline; on an error after the deadline it goes on. *)
HeartbeatStops(s) ==
    /\ InUse(s)
    /\ ctx[s] = "live"
    /\ IF Checked(s) THEN Fault ELSE UNCHANGED faults
    /\ ctx' = [ctx EXCEPT ![s] = "canceled"]
    /\ UNCHANGED <<tables, locals>>

-----------------------------------------------------------------------------
(* Work.                                                                   *)

(* The work rows that keep a machine from being chosen: those of any       *)
(* process, whether their session lives or not. *)
ConflictingFault(m) == {r \in work : r[1] = m /\ Checked(r[2])}

Conflicting(m) == {r \in work : r[1] = m}

(* What the queries of both loops have in common. *)
Free(p, m) == Conflicting(m) = {} /\ lockout[m][p] = "past"

(* Session.Work with the machine its retrieval function returned.  If the  *)
(* commit is reported as an error the worker knows nothing of its lock. *)
Work(w, m) ==
    /\ pc[w] = "idle"
    /\ sess[w] # None
    /\ Checked(sess[w])
    /\ Free(Process[w], m)
    /\ work' = work \cup {<<m, sess[w], Process[w]>>}
    /\ \/ /\ pc' = [pc EXCEPT ![w] = "process"]
          /\ mach' = [mach EXCEPT ![w] = m]
          /\ last' = [last EXCEPT ![w] = interval[m][Process[w]]]
          /\ UNCHANGED faults
       \/ Fault /\ UNCHANGED <<pc, mach, last>>
    /\ UNCHANGED <<row, ctx, interval, lockout, sess>>

(* A worker that learns that its session expired starts another. *)
WorkExpired(w) ==
    /\ pc[w] = "idle"
    /\ sess[w] # None
    /\ row[sess[w]] = "expired"
    /\ ctx' = [ctx EXCEPT ![sess[w]] = "canceled"]
    /\ sess' = [sess EXCEPT ![w] = None]
    /\ UNCHANGED <<tables, pc, mach, last, faults>>

(* processMachine reaches its Finish, or returns an error before. *)
Processed(w) ==
    /\ pc[w] = "process"
    /\ pc' = [pc EXCEPT ![w] = "finish"]
    /\ UNCHANGED <<tables, ctx, sess, mach, last, faults>>

ProcessFailed(w) ==
    /\ pc[w] = "process"
    /\ pc' = [pc EXCEPT ![w] = "fail"]
    /\ UNCHANGED <<tables, ctx, sess, mach, last>>

(* FinishWork. *)
Released(w) == work \ {<<mach[w], sess[w], Process[w]>>}

Unlock(w) == work' = Released(w)

Leave(w) ==
    /\ pc' = [pc EXCEPT ![w] = "idle"]
    /\ mach' = [mach EXCEPT ![w] = None]
    /\ last' = [last EXCEPT ![w] = 0]

(* Work.Finish, committed.  An error reported all the same changes nothing *)
(* more, neither here nor in Fail. *)
Finish(w) ==
    /\ pc[w] = "finish"
    /\ Checked(sess[w])
    /\ Unlock(w)
    /\ interval' = [interval EXCEPT ![mach[w]][Process[w]] = 0]
    /\ lockout' = [lockout EXCEPT ![mach[w]][Process[w]] = "past"]
    /\ Leave(w)
    /\ UNCHANGED <<row, ctx, sess, faults>>

(* Work.Finish, not committed.  The Fail that follows finds the work done  *)
(* and returns another error, so the worker keeps its session, and the     *)
(* lock stays. *)
FinishLost(w) ==
    /\ pc[w] = "finish"
    /\ \/ /\ row[sess[w]] = "expired"
          /\ ctx' = [ctx EXCEPT ![sess[w]] = "canceled"]
          /\ UNCHANGED faults
       \/ Checked(sess[w]) /\ Fault /\ UNCHANGED ctx
    /\ Leave(w)
    /\ UNCHANGED <<tables, sess>>

(* Work.Fail, committed. *)
Fail(w) ==
    /\ pc[w] = "fail"
    /\ Checked(sess[w])
    /\ Unlock(w)
    /\ interval' = [interval EXCEPT ![mach[w]][Process[w]] =
                        NextPeriod(Backoffs[Process[w]], last[w])]
    /\ lockout' = [lockout EXCEPT ![mach[w]][Process[w]] = "ahead"]
    /\ Leave(w)
    /\ UNCHANGED <<row, ctx, sess, faults>>

(* Work.Fail, not committed. *)
FailLost(w) ==
    /\ pc[w] = "fail"
    /\ \/ /\ row[sess[w]] = "expired"
          /\ ctx' = [ctx EXCEPT ![sess[w]] = "canceled"]
          /\ sess' = [sess EXCEPT ![w] = None]
          /\ UNCHANGED faults
       \/ Checked(sess[w]) /\ Fault /\ UNCHANGED <<ctx, sess>>
    /\ Leave(w)
    /\ UNCHANGED tables

(* The shepherd process exits, as it does when a session cannot be         *)
(* started, and starts again. *)
Crash(w) ==
    LET died == {v \in Workers : Instance[v] = Instance[w]}
    IN  /\ Fault
        /\ ctx' = [s \in Sessions |-> IF \E v \in died : sess[v] = s THEN "canceled" ELSE ctx[s]]
        /\ pc' = [v \in Workers |-> IF v \in died THEN "idle" ELSE pc[v]]
        /\ sess' = [v \in Workers |-> IF v \in died THEN None ELSE sess[v]]
        /\ mach' = [v \in Workers |-> IF v \in died THEN None ELSE mach[v]]
        /\ last' = [v \in Workers |-> IF v \in died THEN 0 ELSE last[v]]
        /\ UNCHANGED tables

(* work_backoff.until passes. *)
BackoffEnds(m, p) ==
    /\ lockout[m][p] = "ahead"
    /\ lockout' = [lockout EXCEPT ![m][p] = "past"]
    /\ UNCHANGED <<row, ctx, work, interval, locals, faults>>

-----------------------------------------------------------------------------
SessionStep == \E s \in Sessions : Lapse(s) \/ HeartbeatStops(s)

WorkerStep(w) ==
    \/ StartSession(w)
    \/ \E m \in Machines : Work(w, m)
    \/ WorkExpired(w)
    \/ Processed(w)
    \/ ProcessFailed(w) /\ (Fault \/ UNCHANGED faults)
    \/ Finish(w)
    \/ FinishLost(w)
    \/ Fail(w)
    \/ FailLost(w)
    \/ Crash(w)

Next ==
    \/ SessionStep
    \/ \E w \in Workers : WorkerStep(w)
    \/ \E m \in Machines, p \in Processes : BackoffEnds(m, p)

Spec == Init /\ [][Next]_bmdbVars

-----------------------------------------------------------------------------
(* Properties.                                                             *)

TypeOK ==
    /\ row \in [Sessions -> RowState]
    /\ ctx \in [Sessions -> {"live", "canceled"}]
    /\ work \subseteq Machines \X Sessions \X Processes
    /\ interval \in [Machines -> [Processes -> Nat]]
    /\ lockout \in [Machines -> [Processes -> {"ahead", "past"}]]
    /\ pc \in [Workers -> {"idle", "process", "finish", "fail"}]
    /\ sess \in [Workers -> Sessions \cup {None}]
    /\ mach \in [Workers -> Machines \cup {None}]
    /\ last \in [Workers -> Nat]
    /\ faults \in 0..MaxFaults

Busy(w) == pc[w] # "idle"

(* No two workers work on a machine at the same time, whatever their       *)
(* processes, even when a session expired in the middle of the work:       *)
(* UNIQUE (machine_id, process) only keeps a process from itself, the      *)
(* processes exclude each other through the queries that choose machines.  *)
Exclusive ==
    \A v, w \in Workers : Busy(v) /\ Busy(w) /\ mach[v] = mach[w] => v = w

(* As long as work on a machine keeps failing, an exponential backoff      *)
(* period grows until it is at the maximum: rounding never makes           *)
(* Backoff.next repeat a period, and the period Work read at the beginning *)
(* is still the stored one when Fail uses it.                              *)
BackoffGrows ==
    [][\A m \in Machines, p \in Processes :
          LET b == Backoffs[p]
          IN  b.num > b.den /\ lockout[m][p] = "past" /\ lockout'[m][p] = "ahead" =>
                  \/ interval[m][p] = 0
                  \/ interval'[m][p] > interval[m][p]
                  \/ interval'[m][p] = Normalized(b).maximum]_bmdbVars

=============================================================================
