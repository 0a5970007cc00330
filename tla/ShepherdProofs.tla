--------------------------- MODULE ShepherdProofs ---------------------------
(***************************************************************************)
(* Proofs about modules Bmdb and Shepherd, for any workers, machines,      *)
(* sessions, backoff descriptors and faults: the work locks exclude,       *)
(* backoffs grow, and the shepherd uses both the way Bmdb says.            *)
(***************************************************************************)
EXTENDS Shepherd, TLAPS

(* A worker in the middle of work holds the row of its machine, and the    *)
(* period it remembers is the stored one. *)
Holds ==
    \A w \in Workers : Busy(w) =>
        /\ mach[w] \in Machines
        /\ sess[w] \in Sessions
        /\ <<mach[w], sess[w], Process[w]>> \in work
        /\ last[w] = interval[mach[w]][Process[w]]

(* A machine has at most one row, whatever the process. *)
OneRow == \A q, r \in work : q[1] = r[1] => q = r

(* No two workers share a session, and a session in use has been started. *)
OwnSession ==
    \A w \in Workers : sess[w] # None =>
        /\ row[sess[w]] # "absent"
        /\ \A v \in Workers : sess[v] = sess[w] => v = w

Inv == TypeOK /\ Holds /\ OneRow /\ OwnSession

-----------------------------------------------------------------------------
(* The backoff period is a natural number. *)
LEMMA PeriodType ==
    ASSUME NEW b \in [initial : Nat, maximum : Nat, num : Nat, den : Nat \ {0}],
           NEW e \in Nat
    PROVE  NextPeriod(b, e) \in Nat
<1> DEFINE c == Normalized(b)
<1>1. /\ c.initial \in Nat /\ c.maximum \in Nat /\ c.num \in Nat /\ c.den \in Nat \ {0}
  BY DEF Normalized, AtLeast
<1>2. AtLeast(e, 1) \in Nat
  BY DEF AtLeast
<1> HIDE DEF c
<1>3. \A x \in Nat : x * c.num \in Nat
  BY <1>1
<1>4. \A x \in Nat, y \in Nat \ {0} : RoundUp(x, y) \in Nat
  BY DEF RoundUp
<1>5. RoundUp(AtLeast(e, 1) * c.num, c.den) \in Nat
  BY <1>1, <1>2, <1>3, <1>4
<1>6. NextPeriod(b, e) \in {c.initial, AtMost(RoundUp(AtLeast(e, 1) * c.num, c.den), c.maximum)}
  BY DEF NextPeriod, c
<1> QED
  BY <1>1, <1>5, <1>6 DEF AtMost

(* Rounded up, the multiple of a period by a factor above one is larger.   *)
LEMMA RoundUpGrows ==
    ASSUME NEW e \in Nat \ {0}, NEW n \in Nat, NEW d \in Nat \ {0}, n > d
    PROVE  RoundUp(e * n, d) > e
<1>1. e * n >= e * d + e
  <2>1. n = d + (n - d) /\ n - d \in Nat \ {0}
    OBVIOUS
  <2>2. \A k \in Nat \ {0} : e * (d + k) >= e * d + e
    OBVIOUS
  <2> QED
    BY <2>1, <2>2
<1>2. e * n \in Nat /\ e * d \in Nat
  OBVIOUS
<1>3. e * n + d - 1 >= (e + 1) * d
  BY <1>1, <1>2
<1> DEFINE q == (e * n + d - 1) \div d
<1>4. q \in Nat /\ e * n + d - 1 < (q + 1) * d
  BY <1>2
<1>5. (e + 1) * d < (q + 1) * d
  BY <1>2, <1>3, <1>4
<1> QED
  BY <1>4, <1>5 DEF RoundUp

(* The period that follows e under an exponential backoff. *)
LEMMA PeriodGrows ==
    ASSUME NEW b \in [initial : Nat, maximum : Nat, num : Nat, den : Nat \ {0}],
           NEW e \in Nat \ {0}, b.num > b.den
    PROVE  NextPeriod(b, e) > e \/ NextPeriod(b, e) = Normalized(b).maximum
<1> DEFINE x == RoundUp(e * b.num, b.den)
<1>1. b.num \in Nat /\ b.den \in Nat \ {0} /\ b.initial \in Nat /\ b.maximum \in Nat
  OBVIOUS
<1>2. x > e
  BY <1>1, RoundUpGrows
<1>3. Normalized(b).num = b.num /\ Normalized(b).den = b.den
  BY <1>1 DEF Normalized, AtLeast
<1>4. AtLeast(e, 1) = e
  BY DEF AtLeast
<1>5. ~ Simple(b)
  BY <1>1 DEF Simple
<1> HIDE DEF x
<1>6. NextPeriod(b, e) = AtMost(x, Normalized(b).maximum)
  BY <1>3, <1>4, <1>5 DEF NextPeriod, x
<1> QED
  BY <1>2, <1>6 DEF AtMost

-----------------------------------------------------------------------------
USE BmdbAssumption

LEMMA InitInv == Init => Inv
BY DEF Init, Inv, TypeOK, RowState, Holds, OneRow, OwnSession, Busy

LEMMA FaultType ==
    ASSUME TypeOK, Fault \/ UNCHANGED faults
    PROVE  faults' \in 0..MaxFaults
BY DEF TypeOK, Fault

(* Sessions begin and end without disturbing the locks. *)
LEMMA SessionInv ==
    ASSUME Inv, SessionStep
    PROVE  Inv'
<1> USE DEF Inv
<1> PICK s \in Sessions : Lapse(s) \/ HeartbeatStops(s)
  BY DEF SessionStep
<1>0. UNCHANGED <<work, interval, lockout, locals>> /\ \A t \in Sessions : row'[t] = "absent" => row[t] = "absent"
  BY DEF Lapse, HeartbeatStops, tables, TypeOK, RowState, Checked
<1>1. TypeOK'
  <2>1. faults' \in 0..MaxFaults
    BY FaultType DEF Lapse, HeartbeatStops
  <2>2. row' \in [Sessions -> RowState] /\ ctx' \in [Sessions -> {"live", "canceled"}]
    BY DEF TypeOK, Lapse, HeartbeatStops, tables, RowState
  <2> QED
    BY <1>0, <2>1, <2>2 DEF TypeOK, locals
<1>2. Holds' /\ OneRow'
  BY <1>0 DEF Holds, OneRow, Busy, locals
<1>3. OwnSession'
  BY <1>0 DEF OwnSession, locals, TypeOK
<1> QED
  BY <1>1, <1>2, <1>3

LEMMA StartSessionInv ==
    ASSUME Inv, NEW w \in Workers, StartSession(w)
    PROVE  Inv'
<1> USE DEF Inv
<1> DEFINE s == CHOOSE t \in Unused : TRUE
<1>1. s \in Sessions /\ row[s] = "absent" /\ s # None
  BY DEF StartSession, Unused
<1>2. /\ row' = [row EXCEPT ![s] = "valid"]
      /\ sess' = [sess EXCEPT ![w] = s]
      /\ pc[w] = "idle"
      /\ UNCHANGED <<ctx, work, interval, lockout, pc, mach, last, faults>>
  BY DEF StartSession
<1> HIDE DEF s
<1>3. TypeOK'
  BY <1>1, <1>2 DEF TypeOK, RowState
<1>4. Holds' /\ OneRow'
  BY <1>1, <1>2 DEF Holds, OneRow, Busy, TypeOK
<1>5. OwnSession'
  BY <1>1, <1>2 DEF OwnSession, TypeOK
<1> QED
  BY <1>3, <1>4, <1>5

LEMMA WorkInv ==
    ASSUME Inv, NEW w \in Workers, NEW m \in Machines, Work(w, m)
    PROVE  Inv'
<1> USE DEF Inv
<1> DEFINE new == <<m, sess[w], Process[w]>>
<1>1. /\ sess[w] \in Sessions /\ Process[w] \in Processes
      /\ pc[w] = "idle"
      /\ work' = work \cup {new}
      /\ \A r \in work : r[1] # m
      /\ UNCHANGED <<row, ctx, interval, lockout, sess>>
  BY DEF Work, TypeOK, Free, Conflicting
<1>2. new \in Machines \X Sessions \X Processes /\ new[1] = m
  BY <1>1
<1>3. \/ /\ pc' = [pc EXCEPT ![w] = "process"]
         /\ mach' = [mach EXCEPT ![w] = m]
         /\ last' = [last EXCEPT ![w] = interval[m][Process[w]]]
         /\ UNCHANGED faults
      \/ Fault /\ UNCHANGED <<pc, mach, last>>
  BY DEF Work
<1>4. TypeOK'
  <2>1. faults' \in 0..MaxFaults
    BY <1>3, FaultType
  <2>2. work' \subseteq Machines \X Sessions \X Processes
    BY <1>1, <1>2 DEF TypeOK
  <2>3. interval[m][Process[w]] \in Nat
    BY <1>1 DEF TypeOK
  <2> HIDE DEF new
  <2>4. pc' \in [Workers -> {"idle", "process", "finish", "fail"}]
    BY <1>3 DEF TypeOK
  <2>5. mach' \in [Workers -> Machines \cup {None}]
    BY <1>3 DEF TypeOK
  <2>6. last' \in [Workers -> Nat]
    BY <1>3, <2>3 DEF TypeOK
  <2> QED
    BY <1>1, <2>1, <2>2, <2>4, <2>5, <2>6 DEF TypeOK
<1>5. Holds'
  BY <1>1, <1>3 DEF Holds, Busy, TypeOK
<1>6. OneRow'
  BY <1>1, <1>2 DEF OneRow
<1>7. OwnSession'
  BY <1>1 DEF OwnSession
<1> QED
  BY <1>4, <1>5, <1>6, <1>7

(* The locks exclude. *)
LEMMA InvExclusive == Inv => Exclusive
<1> SUFFICES ASSUME Inv, NEW v \in Workers, NEW w \in Workers,
                    Busy(v), Busy(w), mach[v] = mach[w]
             PROVE  v = w
  BY DEF Exclusive
<1> DEFINE q == <<mach[v], sess[v], Process[v]>>
           r == <<mach[w], sess[w], Process[w]>>
<1>1. q \in work /\ r \in work /\ sess[w] \in Sessions
  BY DEF Inv, Holds
<1>2. q = r
  BY <1>1 DEF Inv, OneRow
<1>3. sess[v] = sess[w] /\ sess[w] # None
  BY <1>1, <1>2
<1> QED
  BY <1>3 DEF Inv, OwnSession

(* A worker that ends its work disturbs nobody else's, whether its row is  *)
(* deleted or left behind. *)
LEMMA LeaveInv ==
    ASSUME Inv, NEW w \in Workers, Busy(w), Leave(w),
           work' = Released(w) \/ UNCHANGED work,
           \A m \in Machines, p \in Processes :
               m # mach[w] \/ p # Process[w] => interval'[m][p] = interval[m][p],
           UNCHANGED row,
           UNCHANGED sess \/ sess' = [sess EXCEPT ![w] = None]
    PROVE  Holds' /\ OneRow' /\ OwnSession'
<1> USE DEF Inv
<1> DEFINE mine == <<mach[w], sess[w], Process[w]>>
<1>1. work' \subseteq work /\ \A r \in work : r # mine => r \in work'
  BY DEF Released
<1>2. OneRow'
  BY <1>1 DEF OneRow
<1>3. OwnSession'
  BY DEF OwnSession, TypeOK
<1>4. Holds'
  <2> SUFFICES ASSUME NEW v \in Workers, Busy(v)'
               PROVE  /\ mach'[v] \in Machines
                      /\ sess'[v] \in Sessions
                      /\ <<mach'[v], sess'[v], Process[v]>> \in work'
                      /\ last'[v] = interval'[mach'[v]][Process[v]]
    BY DEF Holds
  <2>1. v # w /\ Busy(v) /\ mach'[v] = mach[v] /\ last'[v] = last[v] /\ sess'[v] = sess[v]
    BY DEF Leave, Busy, TypeOK
  <2>2. mach[v] # mach[w]
    BY <2>1, InvExclusive DEF Exclusive
  <2>3. <<mach[v], sess[v], Process[v]>> # mine
    BY <2>2
  <2>4. /\ mach[v] \in Machines
        /\ sess[v] \in Sessions
        /\ <<mach[v], sess[v], Process[v]>> \in work
        /\ last[v] = interval[mach[v]][Process[v]]
    BY <2>1 DEF Holds
  <2>5. interval'[mach[v]][Process[v]] = interval[mach[v]][Process[v]]
    BY <2>2, <2>4
  <2> QED
    BY <1>1, <2>1, <2>3, <2>4, <2>5
<1> QED
  BY <1>2, <1>3, <1>4

LEMMA LeaveType ==
    ASSUME TypeOK, NEW w \in Workers, Leave(w)
    PROVE  /\ pc' \in [Workers -> {"idle", "process", "finish", "fail"}]
           /\ mach' \in [Workers -> Machines \cup {None}]
           /\ last' \in [Workers -> Nat]
BY DEF TypeOK, Leave

LEMMA FinishInv ==
    ASSUME Inv, NEW w \in Workers, Finish(w)
    PROVE  Inv'
<1> USE DEF Inv
<1> DEFINE p == Process[w]
           new == 0
<1>1. Busy(w) /\ Leave(w) /\ work' = Released(w) /\ UNCHANGED <<row, ctx, sess, faults>>
  BY DEF Finish, Busy, Unlock
<1>2. /\ mach[w] \in Machines /\ p \in Processes
      /\ interval' = [interval EXCEPT ![mach[w]][p] = new]
      /\ lockout' = [lockout EXCEPT ![mach[w]][p] = "past"]
  BY <1>1 DEF Finish, Holds
<1>3. new \in Nat
  OBVIOUS
<1> HIDE DEF new, p
<1>4. interval' \in [Machines -> [Processes -> Nat]]
  BY <1>2, <1>3 DEF TypeOK
<1>5. lockout' \in [Machines -> [Processes -> {"ahead", "past"}]]
  BY <1>2 DEF TypeOK
<1>6. TypeOK'
  BY <1>1, <1>4, <1>5, LeaveType DEF TypeOK, Released
<1>7. \A m \in Machines, q \in Processes :
        m # mach[w] \/ q # p => interval'[m][q] = interval[m][q]
  BY <1>2 DEF TypeOK
<1>8. Holds' /\ OneRow' /\ OwnSession'
  BY <1>1, <1>7, LeaveInv DEF p
<1> QED
  BY <1>6, <1>8

LEMMA FailInv ==
    ASSUME Inv, NEW w \in Workers, Fail(w)
    PROVE  Inv'
<1> USE DEF Inv
<1> DEFINE p == Process[w]
           new == NextPeriod(Backoffs[p], last[w])
<1>1. Busy(w) /\ Leave(w) /\ work' = Released(w) /\ UNCHANGED <<row, ctx, sess, faults>>
  BY DEF Fail, Busy, Unlock
<1>2. /\ mach[w] \in Machines /\ p \in Processes
      /\ interval' = [interval EXCEPT ![mach[w]][p] = new]
      /\ lockout' = [lockout EXCEPT ![mach[w]][p] = "ahead"]
  BY <1>1 DEF Fail, Holds
<1>3. new \in Nat
  BY PeriodType DEF TypeOK
<1> HIDE DEF new, p
<1>4. interval' \in [Machines -> [Processes -> Nat]]
  BY <1>2, <1>3 DEF TypeOK
<1>5. lockout' \in [Machines -> [Processes -> {"ahead", "past"}]]
  BY <1>2 DEF TypeOK
<1>6. TypeOK'
  BY <1>1, <1>4, <1>5, LeaveType DEF TypeOK, Released
<1>7. \A m \in Machines, q \in Processes :
        m # mach[w] \/ q # p => interval'[m][q] = interval[m][q]
  BY <1>2 DEF TypeOK
<1>8. Holds' /\ OneRow' /\ OwnSession'
  BY <1>1, <1>7, LeaveInv DEF p
<1> QED
  BY <1>6, <1>8

LEMMA FinishLostInv ==
    ASSUME Inv, NEW w \in Workers, FinishLost(w)
    PROVE  Inv'
<1> USE DEF Inv
<1>1. /\ Busy(w) /\ Leave(w) /\ UNCHANGED <<row, work, interval, lockout>>
      /\ UNCHANGED sess \/ sess' = [sess EXCEPT ![w] = None]
      /\ ctx' \in [Sessions -> {"live", "canceled"}]
      /\ Fault \/ UNCHANGED faults
  BY DEF FinishLost, Busy, tables, TypeOK
<1>2. sess' \in [Workers -> Sessions \cup {None}]
  BY <1>1 DEF TypeOK
<1>3. TypeOK'
  BY <1>1, <1>2, LeaveType, FaultType DEF TypeOK
<1>4. Holds' /\ OneRow' /\ OwnSession'
  BY <1>1, LeaveInv
<1> QED
  BY <1>3, <1>4

LEMMA FailLostInv ==
    ASSUME Inv, NEW w \in Workers, FailLost(w)
    PROVE  Inv'
<1> USE DEF Inv
<1>1. /\ Busy(w) /\ Leave(w) /\ UNCHANGED <<row, work, interval, lockout>>
      /\ UNCHANGED sess \/ sess' = [sess EXCEPT ![w] = None]
      /\ ctx' \in [Sessions -> {"live", "canceled"}]
      /\ Fault \/ UNCHANGED faults
  BY DEF FailLost, Busy, tables, TypeOK
<1>2. sess' \in [Workers -> Sessions \cup {None}]
  BY <1>1 DEF TypeOK
<1>3. TypeOK'
  BY <1>1, <1>2, LeaveType, FaultType DEF TypeOK
<1>4. Holds' /\ OneRow' /\ OwnSession'
  BY <1>1, LeaveInv
<1> QED
  BY <1>3, <1>4

LEMMA WorkExpiredInv ==
    ASSUME Inv, NEW w \in Workers, WorkExpired(w)
    PROVE  Inv'
<1> USE DEF Inv
<1>1. TypeOK'
  BY DEF TypeOK, WorkExpired, tables
<1>2. Holds' /\ OneRow'
  BY DEF TypeOK, WorkExpired, tables, Holds, OneRow, Busy
<1>3. OwnSession'
  BY DEF TypeOK, WorkExpired, tables, OwnSession
<1> QED
  BY <1>1, <1>2, <1>3

LEMMA ProcessedInv ==
    ASSUME Inv, NEW w \in Workers,
           Processed(w) \/ (ProcessFailed(w) /\ (Fault \/ UNCHANGED faults))
    PROVE  Inv'
<1> USE DEF Inv
<1>1. TypeOK'
  BY FaultType DEF TypeOK, Processed, ProcessFailed, tables
<1>2. \A v \in Workers : Busy(v)' => Busy(v)
  BY DEF TypeOK, Processed, ProcessFailed, Busy
<1>3. Holds' /\ OneRow' /\ OwnSession'
  BY <1>2 DEF Processed, ProcessFailed, tables, Holds, OneRow, OwnSession
<1> QED
  BY <1>1, <1>3

LEMMA CrashInv ==
    ASSUME Inv, NEW w \in Workers, Crash(w)
    PROVE  Inv'
<1> USE DEF Inv
<1>1. TypeOK'
  BY FaultType DEF TypeOK, Crash, tables
<1>2. /\ UNCHANGED tables
      /\ \A v \in Workers :
           \/ pc'[v] = "idle" /\ sess'[v] = None
           \/ /\ pc'[v] = pc[v] /\ sess'[v] = sess[v]
              /\ mach'[v] = mach[v] /\ last'[v] = last[v]
  BY DEF Crash
<1>3. Holds' /\ OneRow' /\ OwnSession'
  BY <1>2 DEF tables, Holds, OneRow, OwnSession, Busy
<1> QED
  BY <1>1, <1>3

LEMMA BackoffEndsInv ==
    ASSUME Inv, NEW m \in Machines, NEW p \in Processes, BackoffEnds(m, p)
    PROVE  Inv'
<1> USE DEF Inv
<1>1. TypeOK'
  BY DEF TypeOK, BackoffEnds, locals
<1>2. Holds' /\ OneRow' /\ OwnSession'
  BY DEF BackoffEnds, locals, Holds, OneRow, OwnSession, Busy
<1> QED
  BY <1>1, <1>2

LEMMA NextInv == Inv /\ [Next]_bmdbVars => Inv'
<1> SUFFICES ASSUME Inv, [Next]_bmdbVars
             PROVE  Inv'
  OBVIOUS
<1>1. CASE SessionStep
  BY <1>1, SessionInv
<1>2. CASE \E w \in Workers : WorkerStep(w)
  <2> PICK w \in Workers : WorkerStep(w)
    BY <1>2
  <2>1. CASE StartSession(w)
    BY <2>1, StartSessionInv
  <2>2. CASE \E m \in Machines : Work(w, m)
    BY <2>2, WorkInv
  <2>3. CASE WorkExpired(w)
    BY <2>3, WorkExpiredInv
  <2>4. CASE Processed(w) \/ (ProcessFailed(w) /\ (Fault \/ UNCHANGED faults))
    BY <2>4, ProcessedInv
  <2>5. CASE Finish(w)
    BY <2>5, FinishInv
  <2>6. CASE FinishLost(w)
    BY <2>6, FinishLostInv
  <2>7. CASE Fail(w)
    BY <2>7, FailInv
  <2>8. CASE FailLost(w)
    BY <2>8, FailLostInv
  <2>9. CASE Crash(w)
    BY <2>9, CrashInv
  <2> QED
    BY <2>1, <2>2, <2>3, <2>4, <2>5, <2>6, <2>7, <2>8, <2>9 DEF WorkerStep
<1>3. CASE \E m \in Machines, p \in Processes : BackoffEnds(m, p)
  BY <1>3, BackoffEndsInv
<1>4. CASE UNCHANGED bmdbVars
  BY <1>4 DEF Inv, bmdbVars, TypeOK, Holds, OneRow, OwnSession, Busy
<1> QED
  BY <1>1, <1>2, <1>3, <1>4 DEF Next

-----------------------------------------------------------------------------
(* The step that BackoffGrows is about. *)
Grows ==
    \A m \in Machines, p \in Processes :
        LET b == Backoffs[p]
        IN  b.num > b.den /\ lockout[m][p] = "past" /\ lockout'[m][p] = "ahead" =>
                \/ interval[m][p] = 0
                \/ interval'[m][p] > interval[m][p]
                \/ interval'[m][p] = Normalized(b).maximum

LEMMA FailGrows ==
    ASSUME Inv, NEW w \in Workers, Fail(w)
    PROVE  Grows
<1> SUFFICES ASSUME NEW m \in Machines, NEW p \in Processes,
                    Backoffs[p].num > Backoffs[p].den,
                    lockout[m][p] = "past", lockout'[m][p] = "ahead",
                    interval[m][p] # 0
             PROVE  \/ interval'[m][p] > interval[m][p]
                    \/ interval'[m][p] = Normalized(Backoffs[p]).maximum
  BY DEF Grows
<1> DEFINE new == NextPeriod(Backoffs[Process[w]], last[w])
<1>1. /\ Busy(w)
      /\ interval' = [interval EXCEPT ![mach[w]][Process[w]] = new]
      /\ lockout' = [lockout EXCEPT ![mach[w]][Process[w]] = "ahead"]
  BY DEF Fail, Busy
<1> HIDE DEF new
<1>2. m = mach[w] /\ p = Process[w]
  BY <1>1 DEF Inv, TypeOK
<1>3. last[w] = interval[m][p]
  BY <1>1, <1>2 DEF Inv, Holds
<1>4. interval'[m][p] = NextPeriod(Backoffs[p], interval[m][p])
  BY <1>1, <1>2, <1>3 DEF Inv, TypeOK, new
<1>5. interval[m][p] \in Nat \ {0}
  BY DEF Inv, TypeOK
<1>6. Backoffs[p] \in [initial : Nat, maximum : Nat, num : Nat, den : Nat \ {0}]
  OBVIOUS
<1> QED
  BY <1>4, <1>5, <1>6, PeriodGrows

LEMMA StepGrows == Inv /\ [Next]_bmdbVars => Grows
<1> SUFFICES ASSUME Inv, [Next]_bmdbVars
             PROVE  Grows
  OBVIOUS
<1>1. CASE \E w \in Workers : Fail(w)
  BY <1>1, FailGrows
<1>2. CASE \E w \in Workers : Finish(w)
  BY <1>2 DEF Grows, Finish, Inv, TypeOK
<1>3. CASE \E m \in Machines, p \in Processes : BackoffEnds(m, p)
  BY <1>3 DEF Grows, BackoffEnds, Inv, TypeOK
<1>4. CASE UNCHANGED lockout
  BY <1>4 DEF Grows
<1>5. CASE SessionStep
  BY <1>4, <1>5 DEF SessionStep, Lapse, HeartbeatStops, tables
<1>6. ASSUME NEW w \in Workers, WorkerStep(w) PROVE Grows
  BY <1>1, <1>2, <1>4, <1>6
     DEF WorkerStep, StartSession, Work, WorkExpired, Processed, ProcessFailed, FinishLost,
         FailLost, Crash, tables
<1> QED
  BY <1>3, <1>4, <1>5, <1>6 DEF Next, bmdbVars

(* Of all workers of all processes at most one works on a machine, however *)
(* sessions expire, answers get lost and shepherds crash: Session.Work     *)
(* takes a lock that Finish and Fail give up and nothing else does.        *)
THEOREM Locks == Spec => []Exclusive
<1>1. Spec => []Inv
  BY InitInv, NextInv, PTL DEF Spec
<1> QED
  BY <1>1, InvExclusive, PTL

(* For every exponential Backoff descriptor, each failure of a process on  *)
(* a machine lengthens the period Work.Fail stores, until it is at the     *)
(* maximum.                                                                *)
THEOREM Backoff == Spec => BackoffGrows
<1>1. Spec => []Inv
  BY InitInv, NextInv, PTL DEF Spec
<1>2. Inv /\ [Next]_bmdbVars => [Grows]_bmdbVars
  BY StepGrows
<1>3. Spec => [][Grows]_bmdbVars
  BY <1>1, <1>2, PTL DEF Spec
<1> QED
  BY <1>3 DEF Grows, BackoffGrows

-----------------------------------------------------------------------------
(* The shepherd.                                                           *)

LEMMA LoopImplements ==
    ASSUME NEW w \in Workers, Loop(w)
    PROVE  WorkerStep(w)
<1>1. CASE Bookkeeping(w)
  BY <1>1 DEF Bookkeeping, WorkerStep
<1>2. CASE Source(w)
  BY <1>2 DEF Source, WorkerStep
<1>3. CASE StartAgent(w) \/ RebootMachine(w)
  BY <1>3 DEF StartAgent, RebootMachine, WorkerStep
<1>4. CASE StartFails(w) \/ StartLost(w) \/ RebootFails(w)
  BY <1>4 DEF StartFails, StartLost, RebootFails, WorkerStep
<1>5. CASE FinishStart(w) \/ FinishRecovery(w)
  BY <1>5 DEF FinishStart, FinishRecovery, WorkerStep
<1> QED
  BY <1>1, <1>2, <1>3, <1>4, <1>5 DEF Loop

LEMMA StepImplements == [SNext]_vars => [Next]_bmdbVars
<1> SUFFICES ASSUME [SNext]_vars
             PROVE  [Next]_bmdbVars
  OBVIOUS
<1>1. CASE SessionTime \/ BackoffTime
  BY <1>1 DEF SessionTime, BackoffTime, Next
<1>2. CASE \E w \in Workers : Loop(w)
  BY <1>2, LoopImplements DEF Next
<1>3. CASE \E m \in Machines : MachineStep(m)
  BY <1>3 DEF MachineStep, Boot, Reboots, AgentDies, Ages, RequestInstallation
<1>4. CASE \E m \in Machines : CallStep(m)
  BY <1>4 DEF CallStep, Authenticate, StoreHeartbeat, CallFails, Receive
<1>5. CASE UNCHANGED vars
  BY <1>5 DEF vars
<1> QED
  BY <1>1, <1>2, <1>3, <1>4, <1>5 DEF SNext

(* What the Initializer, the Recoverer, the machines and the server do to  *)
(* sessions, locks and backoffs is what module Bmdb allows.                *)
THEOREM Implements == SSpec => Spec
<1>1. SInit => Init
  BY DEF SInit
<1> QED
  BY <1>1, StepImplements, PTL DEF SSpec, Spec

(* The control loops of the shepherd never work on a machine together.     *)
THEOREM ShepherdLocks == SSpec => []Exclusive
BY Implements, Locks, PTL

(* Their backoffs grow. *)
THEOREM ShepherdBackoff == SSpec => BackoffGrows
BY Implements, Backoff, PTL

(* What the agent, its call and the reports look like. *)
Call(m) == [phase |-> rpc[m].phase, key |-> rpc[m].key,
            report |-> rpc[m].report, request |-> rpc[m].request]
Agent(m) == [key |-> agent[m].key, report |-> agent[m].report]

Shape ==
    /\ rpc = [m \in Machines |-> Call(m)]
    /\ agent = [m \in Machines |-> Agent(m)]
    /\ report = [m \in Machines |-> report[m]]

(* A reply under way asks for no installation the BMDB has the outcome of. *)
RepliesFresh ==
    \A m \in Machines :
        rpc[m].phase = "reply" => rpc[m].request = 0 \/ rpc[m].request # report[m].gen

FreshInv == Shape /\ RepliesFresh

(* The step that NoReinstall is about. *)
Installs ==
    \A m \in Machines :
        agent[m].report = NoReport /\ agent'[m].report # NoReport =>
            agent'[m].report.gen # report[m].gen

LEMMA InitFresh == SInit => FreshInv
BY DEF SInit, FreshInv, Shape, Call, Agent, RepliesFresh, NoCall, NoAgent

(* Steps that leave calls and reports alone and at most remove an agent or *)
(* start one. *)
LEMMA QuietFresh ==
    ASSUME FreshInv, UNCHANGED <<rpc, report>>,
           \/ UNCHANGED agent
           \/ \E m \in Machines : \E k :
                agent' = [agent EXCEPT ![m] = [key |-> k, report |-> NoReport]]
    PROVE  FreshInv' /\ Installs
<1>1. RepliesFresh'
  BY DEF FreshInv, RepliesFresh
<1>2. CASE UNCHANGED agent
  BY <1>1, <1>2 DEF FreshInv, Shape, Installs, Call, Agent
<1>3. ASSUME NEW m \in Machines, NEW k,
             agent' = [agent EXCEPT ![m] = [key |-> k, report |-> NoReport]]
      PROVE  Shape' /\ Installs
  <2> DEFINE a == [key |-> k, report |-> NoReport]
  <2>0. a.key = k /\ a.report = NoReport /\ a = [key |-> a.key, report |-> a.report]
    OBVIOUS
  <2> HIDE DEF a
  <2>1. agent = [n \in Machines |-> Agent(n)]
    BY DEF FreshInv, Shape
  <2>2. agent' = [n \in Machines |-> IF n = m THEN a ELSE agent[n]]
    BY <1>3, <2>1 DEF a
  <2>3. \A n \in Machines : agent[n] = Agent(n)
    BY <2>1
  <2>4. \A n \in Machines : agent'[n] = Agent(n)'
    BY <2>0, <2>2, <2>3 DEF Agent
  <2>5. agent' = [n \in Machines |-> Agent(n)']
    BY <2>2, <2>4
  <2>6. Shape'
    BY <2>5 DEF FreshInv, Shape, Call
  <2>7. Installs
    BY <2>0, <2>2 DEF Installs
  <2> QED
    BY <2>6, <2>7
<1> QED
  BY <1>1, <1>2, <1>3 DEF FreshInv

(* A step that changes one machine's call, and no agent. *)
LEMMA CallFresh ==
    ASSUME FreshInv, NEW m \in Machines, NEW c, UNCHANGED agent,
           rpc' = [rpc EXCEPT ![m] = c],
           c = [phase |-> c.phase, key |-> c.key, report |-> c.report, request |-> c.request],
           report' = [n \in Machines |-> report'[n]],
           \A n \in Machines : n # m => report'[n] = report[n],
           c.phase = "reply" => c.request = 0 \/ c.request # report'[m].gen
    PROVE  FreshInv' /\ Installs
<1>1. rpc = [n \in Machines |-> Call(n)]
  BY DEF FreshInv, Shape
<1>2. rpc' = [n \in Machines |-> IF n = m THEN c ELSE rpc[n]]
  BY <1>1
<1>3. \A n \in Machines : rpc[n] = Call(n)
  BY <1>1
<1>4. \A n \in Machines : rpc'[n] = Call(n)'
  BY <1>2, <1>3 DEF Call
<1>5. rpc' = [n \in Machines |-> Call(n)']
  BY <1>2, <1>4
<1>6. Shape'
  BY <1>5 DEF FreshInv, Shape, Agent
<1>7. RepliesFresh'
  BY <1>2 DEF FreshInv, RepliesFresh
<1> QED
  BY <1>6, <1>7 DEF FreshInv, Installs

LEMMA StoreFresh ==
    ASSUME FreshInv, NEW m \in Machines, StoreHeartbeat(m)
    PROVE  FreshInv' /\ Installs
<1>1. rpc = [n \in Machines |-> Call(n)]
  BY DEF FreshInv, Shape
<1> PICK g \in {Pending(request[m], report'[m]), 0} :
         rpc' = [rpc EXCEPT ![m] = [phase |-> "reply", key |-> @.key, report |-> @.report, request |-> g]]
  BY DEF StoreHeartbeat
<1> DEFINE c == [phase |-> "reply", key |-> rpc[m].key, report |-> rpc[m].report, request |-> g]
<1>2. /\ rpc' = [rpc EXCEPT ![m] = c]
      /\ \E r : report' = [report EXCEPT ![m] = r]
      /\ UNCHANGED agent
  BY <1>1 DEF StoreHeartbeat, machineVars
<1>3. g = 0 \/ g # report'[m].gen
  BY DEF Pending
<1>5. report' = [n \in Machines |-> report'[n]] /\ \A n \in Machines : n # m => report'[n] = report[n]
  BY <1>2 DEF FreshInv, Shape
<1> QED
  BY <1>2, <1>3, <1>5, CallFresh

LEMMA ReceiveFresh ==
    ASSUME FreshInv, NEW m \in Machines, Receive(m)
    PROVE  FreshInv' /\ Installs
<1>1. /\ rpc[m].phase = "reply" /\ rpc' = [rpc EXCEPT ![m] = NoCall] /\ UNCHANGED report
      /\ rpc = [n \in Machines |-> Call(n)]
      /\ agent = [n \in Machines |-> Agent(n)]
  BY DEF Receive, tagVars, FreshInv, Shape
<1>2. RepliesFresh'
  BY <1>1 DEF FreshInv, RepliesFresh, NoCall
<1>3. rpc' = [n \in Machines |-> Call(n)']
  <2>1. rpc' = [n \in Machines |-> IF n = m THEN NoCall ELSE rpc[n]]
    BY <1>1
  <2>2. \A n \in Machines : rpc[n] = Call(n)
    BY <1>1
  <2>3. \A n \in Machines : rpc'[n] = Call(n)'
    BY <2>1, <2>2 DEF Call, NoCall
  <2> QED
    BY <2>1, <2>3
<1>4. \E a : /\ agent' = [agent EXCEPT ![m] = a]
             /\ a = [key |-> a.key, report |-> a.report]
             /\ \/ a.report = NoReport
                \/ agent[m].report # NoReport
                \/ rpc[m].request # 0 /\ a.report.gen = rpc[m].request
  <2>1. agent[m] = [key |-> agent[m].key, report |-> agent[m].report]
    BY <1>1 DEF Agent
  <2>2. CASE agent' = [agent EXCEPT ![m] = NoAgent]
    <3>1. NoAgent = [key |-> NoAgent.key, report |-> NoAgent.report] /\ NoAgent.report = NoReport
      BY DEF NoAgent
    <3> QED
      BY <2>2, <3>1
  <2>3. CASE UNCHANGED agent /\ agent[m].report = NoReport
    <3>1. agent' = [agent EXCEPT ![m] = agent[m]]
      BY <1>1, <2>3
    <3> QED
      BY <2>1, <2>3, <3>1
  <2>4. ASSUME NEW x, agent' = [agent EXCEPT ![m].report = [gen |-> rpc[m].request, res |-> x]],
               rpc[m].request # 0
        PROVE  <1>4!:
    <3> DEFINE a == [key |-> agent[m].key, report |-> [gen |-> rpc[m].request, res |-> x]]
    <3>1. agent' = [agent EXCEPT ![m] = a]
      <4>1. ASSUME NEW k, NEW r, NEW y
            PROVE  [[key |-> k, report |-> r] EXCEPT !.report = y] = [key |-> k, report |-> y]
        OBVIOUS
      <4> DEFINE y == [gen |-> rpc[m].request, res |-> x]
      <4>2. agent' = [agent EXCEPT ![m] = [agent[m] EXCEPT !.report = y]]
        BY <1>1, <2>4
      <4> HIDE DEF y
      <4>3. [agent[m] EXCEPT !.report = y] = [key |-> agent[m].key, report |-> y]
        BY <2>1, <4>1
      <4> QED
        BY <4>2, <4>3 DEF y
    <3>2. a = [key |-> a.key, report |-> a.report] /\ a.report.gen = rpc[m].request
      OBVIOUS
    <3> QED
      BY <2>4, <3>1, <3>2
  <2> QED
    BY <2>2, <2>3, <2>4 DEF Receive
<1> PICK a : /\ agent' = [agent EXCEPT ![m] = a]
             /\ a = [key |-> a.key, report |-> a.report]
             /\ \/ a.report = NoReport
                \/ agent[m].report # NoReport
                \/ rpc[m].request # 0 /\ a.report.gen = rpc[m].request
  BY <1>4
<1>5. agent' = [n \in Machines |-> IF n = m THEN a ELSE agent[n]]
  BY <1>1
<1>6. agent' = [n \in Machines |-> Agent(n)']
  <2>1. \A n \in Machines : agent[n] = Agent(n)
    BY <1>1
  <2>2. \A n \in Machines : agent'[n] = Agent(n)'
    BY <1>5, <2>1 DEF Agent
  <2> QED
    BY <1>5, <2>2
<1>7. Installs
  BY <1>1, <1>5 DEF Installs, FreshInv, RepliesFresh
<1>8. Shape'
  BY <1>1, <1>3, <1>6 DEF FreshInv, Shape
<1> QED
  BY <1>2, <1>7, <1>8 DEF FreshInv

LEMMA NextFresh == FreshInv /\ [SNext]_vars => FreshInv' /\ Installs
<1> SUFFICES ASSUME FreshInv, [SNext]_vars
             PROVE  FreshInv' /\ Installs
  OBVIOUS
<1>1. CASE UNCHANGED <<rpc, report, agent>>
  BY <1>1, QuietFresh
<1>2. CASE SessionTime \/ BackoffTime \/ UNCHANGED vars
  BY <1>1, <1>2 DEF SessionTime, BackoffTime, tagVars, machineVars, vars
<1>3. ASSUME NEW w \in Workers, Loop(w) PROVE FreshInv' /\ Installs
  <2>1. CASE RebootMachine(w)
    <3>1. UNCHANGED <<rpc, report>>
      BY <2>1 DEF RebootMachine, tagVars
    <3>2. CASE UNCHANGED agent
      BY <1>1, <3>1, <3>2
    <3>3. CASE agent' = [agent EXCEPT ![mach[w]] = NoAgent] /\ mach[w] \in Machines
      BY <3>1, <3>3, QuietFresh DEF NoAgent
    <3>4. CASE agent' = [agent EXCEPT ![mach[w]] = NoAgent] /\ mach[w] \notin Machines
      BY <1>1, <3>1, <3>4 DEF FreshInv, Shape
    <3> QED
      BY <2>1, <3>2, <3>3, <3>4 DEF RebootMachine
  <2>2. CASE Bookkeeping(w) \/ Source(w) \/ StartAgent(w) \/ StartFails(w) \/ StartLost(w)
    BY <1>1, <2>2 DEF Bookkeeping, Source, StartAgent, StartFails, StartLost, tagVars, machineVars
  <2>3. CASE FinishStart(w) \/ RebootFails(w) \/ FinishRecovery(w)
    BY <1>1, <2>3 DEF FinishStart, RebootFails, FinishRecovery, tagVars, machineVars
  <2> QED
    BY <1>3, <2>1, <2>2, <2>3 DEF Loop
<1>4. ASSUME NEW m \in Machines, MachineStep(m) PROVE FreshInv' /\ Installs
  <2>1. CASE Boot(m) \/ Reboots(m) \/ AgentDies(m)
    BY <2>1, QuietFresh DEF Boot, Reboots, AgentDies, NoAgent, tagVars
  <2>2. CASE Ages(m) \/ RequestInstallation(m)
    BY <1>1, <2>2 DEF Ages, RequestInstallation, machineVars
  <2> QED
    BY <1>4, <2>1, <2>2 DEF MachineStep
<1>5. ASSUME NEW m \in Machines, CallStep(m) PROVE FreshInv' /\ Installs
  <2>1. CASE Authenticate(m) \/ CallFails(m)
    <3>1. report = [n \in Machines |-> report[n]]
      BY DEF FreshInv, Shape
    <3>2. CASE Authenticate(m)
      <4> DEFINE c == [phase |-> "write", key |-> agent[m].key,
                       report |-> agent[m].report, request |-> 0]
      <4>1. rpc' = [rpc EXCEPT ![m] = c] /\ UNCHANGED <<agent, report>>
        BY <3>2 DEF Authenticate, tagVars, machineVars
      <4> QED
        BY <3>1, <4>1, CallFresh
    <3>3. CASE CallFails(m)
      <4>1. rpc' = [rpc EXCEPT ![m] = NoCall] /\ UNCHANGED <<agent, report>>
        BY <3>3 DEF CallFails, tagVars, machineVars
      <4> QED
        BY <3>1, <4>1, CallFresh DEF NoCall
    <3> QED
      BY <2>1, <3>2, <3>3
  <2> QED
    BY <1>5, <2>1, StoreFresh, ReceiveFresh DEF CallStep
<1> QED
  BY <1>2, <1>3, <1>4, <1>5 DEF SNext

(* For any machines, keys and generations: an agent starts no installation *)
(* whose outcome the BMDB has.                                             *)
THEOREM InstalledOnce == SSpec => NoReinstall
<1>1. FreshInv /\ [SNext]_vars => FreshInv'
  BY NextFresh
<1>2. FreshInv /\ [SNext]_vars => [Installs]_vars
  BY NextFresh
<1>3. SSpec => [][Installs]_vars
  BY <1>1, <1>2, InitFresh, PTL DEF SSpec
<1> QED
  BY <1>3 DEF Installs, NoReinstall

=============================================================================
