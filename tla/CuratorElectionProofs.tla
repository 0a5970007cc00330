------------------------ MODULE CuratorElectionProofs -----------------------
(***************************************************************************)
(* Exclusive leadership, no lost update and sound cleanup of the curator's *)
(* election, for any number of curators, handlers, writes and faults.      *)
(*                                                                         *)
(* The argument: whoever claims a leadership saw every older key gone, and *)
(* new keys are younger, so no key is ever older than a claimed one        *)
(* (Claim).  Of two claimed keys that exist each is therefore no older     *)
(* than the other.  Between a handler's read and its write the mutex keeps *)
(* handlers of its own leadership out, and the comparison in txnAsLeader   *)
(* those of any other, so what it read is still the data (Loaded).         *)
(***************************************************************************)
EXTENDS CuratorElection, TLAPS

Worker == Curator \X Handler

(* Election keys have distinct revisions, none above rev. *)
Keys ==
    /\ \A l \in locks : l.rev \in 1..rev
    /\ \A k, l \in locks : k.rev = l.rev => k = l

(* A session's key is its own, and it has none before it puts one. *)
Sessions ==
    /\ \A c \in Curator : session[c] <= rev
    /\ \A c, d \in Curator : session[c] = session[d] /\ session[c] # 0 => c = d
    /\ \A c \in Curator : \A l \in locks : l.rev = session[c] => l.node = c
    /\ \A c \in Curator : pc[c] \in {"elect", "cleanup", "establish", "put", "reset"}
                              => session[c] = 0
    /\ \A c \in Curator : pc[c] \in {"wait", "leader"} => session[c] # 0

(* The key that cleanup read belongs to no running session. *)
Stale ==
    /\ \A c \in Curator : stale[c] <= rev
    /\ \A c \in Curator : stale[c] # 0 => pc[c] = "cleanup"
    /\ CleanupStale

Claim(r) == r \in 1..rev /\ \A l \in locks : r <= l.rev

Claims ==
    /\ \A c \in Curator : status[c].kind = "leader" => Claim(status[c].rev)
    /\ \A c \in Curator : serving[c].kind = "leader" => Claim(serving[c].rev)
    /\ \A w \in Worker : handler[w].pc # "idle" => Claim(handler[w].rev)

Loaded ==
    /\ \A w \in Worker : handler[w].pc = "save" /\ Exists(handler[w].rev)
                             => handler[w].val = data
    /\ \A v, w \in Worker :
           /\ handler[v].pc = "save"
           /\ handler[w].pc = "save"
           /\ handler[v].rev = handler[w].rev
           => v = w

IInv ==
    /\ TypeOK
    /\ Keys
    /\ Sessions
    /\ Stale
    /\ Claims
    /\ Loaded
    /\ NoLostUpdate

-----------------------------------------------------------------------------
(* The initial state satisfies the invariant. *)
LEMMA InitInv == Init => IInv
<1> SUFFICES ASSUME Init PROVE IInv
  OBVIOUS
<1>1. TypeOK
  BY ElectionAssumption DEF Init, TypeOK, Neither, Idle, Status, Handling, Lock
<1>2. Keys /\ Sessions /\ Stale
  BY DEF Init, Keys, Sessions, Stale, CleanupStale
<1>3. Claims /\ Loaded /\ NoLostUpdate
  BY DEF Init, Claims, Loaded, NoLostUpdate, Neither, Idle, Worker
<1> QED
  BY <1>1, <1>2, <1>3 DEF IInv

(* Of two handlers whose keys exist, each is no older than the other. *)
LEMMA SoleClaim ==
    ASSUME IInv, NEW v \in Worker, NEW w \in Worker,
           handler[v].pc # "idle", handler[w].pc # "idle",
           Exists(handler[v].rev), Exists(handler[w].rev)
    PROVE  handler[v].rev = handler[w].rev
<1>1. handler[v].rev \in Nat /\ handler[w].rev \in Nat
  BY DEF IInv, TypeOK, Handling, Worker
<1>2. handler[v].rev <= handler[w].rev /\ handler[w].rev <= handler[v].rev
  BY DEF IInv, Claims, Claim, Exists
<1> QED
  BY <1>1, <1>2

(* Every step keeps the variables in their types. *)
LEMMA TypeInv ==
    ASSUME IInv, [Next]_vars
    PROVE  TypeOK'
<1> DEFINE Goal == TypeOK'
<1>1. IInv /\ [Next]_vars
  OBVIOUS
<1>2. ASSUME NEW c \in Curator, CleanupRead(c) PROVE Goal
  <2>1. ASSUME NEW l \in locks, stale' = [stale EXCEPT ![c] = l.rev],
               pc' = [pc EXCEPT ![c] = "cleanup"]
        PROVE  Goal
    BY <1>1, <1>2, <2>1 DEF CleanupRead, TypeOK, IInv, Lock, etcdVars, listenVars, workVars
  <2>2. ASSUME UNCHANGED stale, pc' = [pc EXCEPT ![c] = "establish"]
        PROVE  Goal
    BY <1>1, <1>2, <2>2 DEF CleanupRead, TypeOK, IInv, etcdVars, listenVars, workVars
  <2> QED
    BY <1>2, <2>1, <2>2 DEF CleanupRead
<1>3. ASSUME NEW c \in Curator, CleanupDelete(c) PROVE Goal
  BY <1>1, <1>3 DEF CleanupDelete, Removed, TypeOK, IInv, etcdVars, runVars, listenVars, workVars, Lock, Status, Handling, Neither
<1>4. ASSUME NEW c \in Curator, NewSession(c) PROVE Goal
  <2>1. CASE UNCHANGED faults /\ pc' = [pc EXCEPT ![c] = "put"]
    BY <1>1, <1>4, <2>1 DEF NewSession, TypeOK, IInv, etcdVars, listenVars, workVars
  <2>2. CASE Fault /\ pc' = [pc EXCEPT ![c] = "reset"]
    BY <1>1, <1>4, <2>2 DEF NewSession, Fault, TypeOK, IInv, etcdVars, listenVars, workVars
  <2> QED
    BY <1>4, <2>1, <2>2 DEF NewSession
<1>5. ASSUME NEW c \in Curator, CampaignPut(c) PROVE Goal
  BY <1>1, <1>5 DEF CampaignPut, TypeOK, IInv, etcdVars, runVars, listenVars, workVars, Lock, Status, Handling, Neither
<1>6. ASSUME NEW c \in Curator, Observe(c) PROVE Goal
  <2>1. PICK l \in locks : SetStatus(c, Following(l.node))
    BY <1>6 DEF Observe
  <2>2. l.node \in Curator
    BY <1>1, <2>1 DEF IInv, TypeOK, Lock
  <2>3. Following(l.node) \in Status
    BY <2>2 DEF Following, Status
  <2>4. status' \in [Curator -> Status]
    BY <1>1, <2>1, <2>3 DEF SetStatus, IInv, TypeOK
  <2> QED
    BY <1>1, <1>6, <2>1, <2>4 DEF Observe, SetStatus, TypeOK, IInv, etcdVars, runVars, listenVars, workVars
<1>7. ASSUME NEW c \in Curator, Campaigned(c) PROVE Goal
  BY <1>1, <1>7 DEF Campaigned, Elected, SetStatus, Leading, TypeOK, IInv, etcdVars, runVars, listenVars, workVars, Lock, Status, Handling, Neither
<1>8. ASSUME NEW c \in Curator, ElectionFail(c) PROVE Goal
  BY <1>1, <1>8 DEF ElectionFail, Fault, TypeOK, IInv, etcdVars, runVars, listenVars, workVars, Lock, Status, Handling, Neither
<1>9. ASSUME NEW c \in Curator, SessionDone(c) PROVE Goal
  BY <1>1, <1>9 DEF SessionDone, Fault, Exists, TypeOK, IInv, etcdVars, runVars, listenVars, workVars, Lock, Status, Handling, Neither
<1>10. ASSUME NEW c \in Curator, SessionClose(c) PROVE Goal
  BY <1>1, <1>10 DEF SessionClose, Removed, TypeOK, IInv, etcdVars, runVars, listenVars, workVars, Lock, Status, Handling, Neither
<1>11. ASSUME NEW c \in Curator, Reset(c) PROVE Goal
  BY <1>1, <1>11 DEF Reset, SetStatus, Neither, TypeOK, IInv, etcdVars, runVars, listenVars, workVars, Lock, Status, Handling
<1>12. ASSUME NEW c \in Curator, Crash(c) PROVE Goal
  BY <1>1, <1>12 DEF Crash, Fault, Restarts, Neither, Idle, TypeOK, IInv, etcdVars, runVars, listenVars, workVars, Lock, Status, Handling
<1>13. ASSUME NEW c \in Curator, Listen(c) PROVE Goal
  BY <1>1, <1>13 DEF Listen, TypeOK, IInv, etcdVars, runVars, listenVars, workVars, Lock, Status, Handling, Neither
<1>14. ASSUME NEW c \in Curator, ListenerGet(c) PROVE Goal
  BY <1>1, <1>14 DEF ListenerGet, Neither, Same, TypeOK, IInv, etcdVars, runVars, listenVars, workVars, Lock, Status, Handling
<1>15. ASSUME NEW c \in Curator, StreamOpen(c) PROVE Goal
  BY <1>1, <1>15 DEF StreamOpen, TypeOK, IInv, etcdVars, runVars, listenVars, workVars, Lock, Status, Handling, Neither
<1>16. ASSUME NEW c \in Curator, StreamGet(c) PROVE Goal
  BY <1>1, <1>16 DEF StreamGet, TypeOK, IInv, etcdVars, runVars, listenVars, workVars, Lock, Status, Handling, Neither
<1>17. ASSUME NEW c \in Curator, StreamPanic(c) PROVE Goal
  BY <1>1, <1>17 DEF StreamPanic, Restarts, Neither, Idle, TypeOK, IInv, etcdVars, runVars, listenVars, workVars, Lock, Status, Handling
<1>18. ASSUME NEW c \in Curator, StreamCancel(c) PROVE Goal
  BY <1>1, <1>18 DEF StreamCancel, TypeOK, IInv, etcdVars, runVars, listenVars, workVars, Lock, Status, Handling, Neither
<1>19. ASSUME NEW c \in Curator, NEW h \in Handler, HandlerStart(c, h) PROVE Goal
  BY <1>1, <1>19 DEF HandlerStart, TypeOK, IInv, etcdVars, runVars, listenVars, workVars, Lock, Status, Handling, Neither
<1>20. ASSUME NEW c \in Curator, NEW h \in Handler, HandlerLoad(c, h) PROVE Goal
  BY <1>1, <1>20 DEF HandlerLoad, Unlocked, AsLeader, Exists, Idle, TypeOK, IInv, etcdVars, runVars, listenVars, workVars, Lock, Status, Handling, Neither
<1>21. ASSUME NEW c \in Curator, NEW h \in Handler, HandlerSave(c, h) PROVE Goal
  BY <1>1, <1>21 DEF HandlerSave, AsLeader, Exists, Idle, TypeOK, IInv, etcdVars, runVars, listenVars, workVars, Lock, Status, Handling, Neither
<1>22. ASSUME NEW c \in Curator, NEW h \in Handler, HandlerAbort(c, h) PROVE Goal
  BY <1>1, <1>22 DEF HandlerAbort, Idle, TypeOK, IInv, etcdVars, runVars, listenVars, workVars, Lock, Status, Handling, Neither
<1>23. ASSUME NEW l \in locks, Expire(l) PROVE Goal
  BY <1>1, <1>23 DEF Expire, Fault, TypeOK, IInv, etcdVars, runVars, listenVars, workVars, Lock, Status, Handling, Neither
<1>24. ASSUME NEW l \in locks, ExpireStale(l) PROVE Goal
  BY <1>1, <1>24 DEF ExpireStale, TypeOK, IInv, etcdVars, runVars, listenVars, workVars, Lock, Status, Handling, Neither
<1>25. CASE UNCHANGED vars
  BY <1>1, <1>25 DEF vars, TypeOK, IInv, Lock, Status, Handling, Neither
<1>. QED
  BY <1>1, <1>2, <1>3, <1>4, <1>5, <1>6, <1>7, <1>8, <1>9, <1>10, <1>11, <1>12, <1>13, <1>14, <1>15, <1>16, <1>17, <1>18, <1>19, <1>20, <1>21, <1>22, <1>23, <1>24, <1>25 DEF Next

(* New keys are younger than all others. *)
LEMMA KeysInv ==
    ASSUME IInv, [Next]_vars
    PROVE  Keys'
<1> DEFINE Goal == Keys'
<1>1. IInv /\ [Next]_vars
  OBVIOUS
<1>2. ASSUME NEW c \in Curator, CleanupRead(c) PROVE Goal
  BY <1>1, <1>2 DEF CleanupRead, First, Ours, Keys, TypeOK, IInv, etcdVars, runVars, listenVars, workVars, Lock
<1>3. ASSUME NEW c \in Curator, CleanupDelete(c) PROVE Goal
  BY <1>1, <1>3 DEF CleanupDelete, Removed, Keys, TypeOK, IInv, etcdVars, runVars, listenVars, workVars, Lock
<1>4. ASSUME NEW c \in Curator, NewSession(c) PROVE Goal
  BY <1>1, <1>4 DEF NewSession, Fault, Keys, TypeOK, IInv, etcdVars, runVars, listenVars, workVars, Lock
<1>5. ASSUME NEW c \in Curator, CampaignPut(c) PROVE Goal
  BY <1>1, <1>5 DEF CampaignPut, Keys, TypeOK, IInv, etcdVars, runVars, listenVars, workVars, Lock
<1>6. ASSUME NEW c \in Curator, Observe(c) PROVE Goal
  BY <1>1, <1>6 DEF Observe, First, SetStatus, Following, Keys, TypeOK, IInv, etcdVars, runVars, listenVars, workVars, Lock
<1>7. ASSUME NEW c \in Curator, Campaigned(c) PROVE Goal
  BY <1>1, <1>7 DEF Campaigned, Elected, SetStatus, Leading, Keys, TypeOK, IInv, etcdVars, runVars, listenVars, workVars, Lock
<1>8. ASSUME NEW c \in Curator, ElectionFail(c) PROVE Goal
  BY <1>1, <1>8 DEF ElectionFail, Fault, Keys, TypeOK, IInv, etcdVars, runVars, listenVars, workVars, Lock
<1>9. ASSUME NEW c \in Curator, SessionDone(c) PROVE Goal
  BY <1>1, <1>9 DEF SessionDone, Fault, Exists, Keys, TypeOK, IInv, etcdVars, runVars, listenVars, workVars, Lock
<1>10. ASSUME NEW c \in Curator, SessionClose(c) PROVE Goal
  BY <1>1, <1>10 DEF SessionClose, Removed, Keys, TypeOK, IInv, etcdVars, runVars, listenVars, workVars, Lock
<1>11. ASSUME NEW c \in Curator, Reset(c) PROVE Goal
  BY <1>1, <1>11 DEF Reset, SetStatus, Neither, Keys, TypeOK, IInv, etcdVars, runVars, listenVars, workVars, Lock
<1>12. ASSUME NEW c \in Curator, Crash(c) PROVE Goal
  BY <1>1, <1>12 DEF Crash, Fault, Restarts, Neither, Idle, Keys, TypeOK, IInv, etcdVars, runVars, listenVars, workVars, Lock
<1>13. ASSUME NEW c \in Curator, Listen(c) PROVE Goal
  BY <1>1, <1>13 DEF Listen, Keys, TypeOK, IInv, etcdVars, runVars, listenVars, workVars, Lock
<1>14. ASSUME NEW c \in Curator, ListenerGet(c) PROVE Goal
  BY <1>1, <1>14 DEF ListenerGet, Neither, Same, Keys, TypeOK, IInv, etcdVars, runVars, listenVars, workVars, Lock
<1>15. ASSUME NEW c \in Curator, StreamOpen(c) PROVE Goal
  BY <1>1, <1>15 DEF StreamOpen, Keys, TypeOK, IInv, etcdVars, runVars, listenVars, workVars, Lock
<1>16. ASSUME NEW c \in Curator, StreamGet(c) PROVE Goal
  BY <1>1, <1>16 DEF StreamGet, Keys, TypeOK, IInv, etcdVars, runVars, listenVars, workVars, Lock
<1>17. ASSUME NEW c \in Curator, StreamPanic(c) PROVE Goal
  BY <1>1, <1>17 DEF StreamPanic, Restarts, Neither, Idle, Keys, TypeOK, IInv, etcdVars, runVars, listenVars, workVars, Lock
<1>18. ASSUME NEW c \in Curator, StreamCancel(c) PROVE Goal
  BY <1>1, <1>18 DEF StreamCancel, Keys, TypeOK, IInv, etcdVars, runVars, listenVars, workVars, Lock
<1>19. ASSUME NEW c \in Curator, NEW h \in Handler, HandlerStart(c, h) PROVE Goal
  BY <1>1, <1>19 DEF HandlerStart, Keys, TypeOK, IInv, etcdVars, runVars, listenVars, workVars, Lock
<1>20. ASSUME NEW c \in Curator, NEW h \in Handler, HandlerLoad(c, h) PROVE Goal
  BY <1>1, <1>20 DEF HandlerLoad, Unlocked, AsLeader, Exists, Idle, Keys, TypeOK, IInv, etcdVars, runVars, listenVars, workVars, Lock
<1>21. ASSUME NEW c \in Curator, NEW h \in Handler, HandlerSave(c, h) PROVE Goal
  BY <1>1, <1>21 DEF HandlerSave, AsLeader, Exists, Idle, Keys, TypeOK, IInv, etcdVars, runVars, listenVars, workVars, Lock
<1>22. ASSUME NEW c \in Curator, NEW h \in Handler, HandlerAbort(c, h) PROVE Goal
  BY <1>1, <1>22 DEF HandlerAbort, Idle, Keys, TypeOK, IInv, etcdVars, runVars, listenVars, workVars, Lock
<1>23. ASSUME NEW l \in locks, Expire(l) PROVE Goal
  BY <1>1, <1>23 DEF Expire, Fault, Keys, TypeOK, IInv, etcdVars, runVars, listenVars, workVars, Lock
<1>24. ASSUME NEW l \in locks, ExpireStale(l) PROVE Goal
  BY <1>1, <1>24 DEF ExpireStale, Keys, TypeOK, IInv, etcdVars, runVars, listenVars, workVars, Lock
<1>25. CASE UNCHANGED vars
  BY <1>1, <1>25 DEF vars, Keys, TypeOK, IInv, Lock
<1>. QED
  BY <1>1, <1>2, <1>3, <1>4, <1>5, <1>6, <1>7, <1>8, <1>9, <1>10, <1>11, <1>12, <1>13, <1>14, <1>15, <1>16, <1>17, <1>18, <1>19, <1>20, <1>21, <1>22, <1>23, <1>24, <1>25 DEF Next

(* A session owns the key it put, and gives it up when it closes. *)
LEMMA SessionsInv ==
    ASSUME IInv, [Next]_vars
    PROVE  Sessions'
<1> DEFINE Goal == Sessions'
<1>1. IInv /\ [Next]_vars
  OBVIOUS
<1>2. ASSUME NEW c \in Curator, CleanupRead(c) PROVE Goal
  BY <1>1, <1>2 DEF CleanupRead, First, Ours, Sessions, Keys, TypeOK, IInv, etcdVars, runVars, listenVars, workVars, Lock
<1>3. ASSUME NEW c \in Curator, CleanupDelete(c) PROVE Goal
  BY <1>1, <1>3 DEF CleanupDelete, Removed, Sessions, Keys, TypeOK, IInv, etcdVars, runVars, listenVars, workVars, Lock
<1>4. ASSUME NEW c \in Curator, NewSession(c) PROVE Goal
  BY <1>1, <1>4 DEF NewSession, Fault, Sessions, Keys, TypeOK, IInv, etcdVars, runVars, listenVars, workVars, Lock
<1>5. ASSUME NEW c \in Curator, CampaignPut(c) PROVE Goal
  BY <1>1, <1>5 DEF CampaignPut, Sessions, Keys, TypeOK, IInv, etcdVars, runVars, listenVars, workVars, Lock
<1>6. ASSUME NEW c \in Curator, Observe(c) PROVE Goal
  BY <1>1, <1>6 DEF Observe, First, SetStatus, Following, Sessions, Keys, TypeOK, IInv, etcdVars, runVars, listenVars, workVars, Lock
<1>7. ASSUME NEW c \in Curator, Campaigned(c) PROVE Goal
  BY <1>1, <1>7 DEF Campaigned, Elected, SetStatus, Leading, Sessions, Keys, TypeOK, IInv, etcdVars, runVars, listenVars, workVars, Lock
<1>8. ASSUME NEW c \in Curator, ElectionFail(c) PROVE Goal
  BY <1>1, <1>8 DEF ElectionFail, Fault, Sessions, Keys, TypeOK, IInv, etcdVars, runVars, listenVars, workVars, Lock
<1>9. ASSUME NEW c \in Curator, SessionDone(c) PROVE Goal
  BY <1>1, <1>9 DEF SessionDone, Fault, Exists, Sessions, Keys, TypeOK, IInv, etcdVars, runVars, listenVars, workVars, Lock
<1>10. ASSUME NEW c \in Curator, SessionClose(c) PROVE Goal
  BY <1>1, <1>10 DEF SessionClose, Removed, Sessions, Keys, TypeOK, IInv, etcdVars, runVars, listenVars, workVars, Lock
<1>11. ASSUME NEW c \in Curator, Reset(c) PROVE Goal
  BY <1>1, <1>11 DEF Reset, SetStatus, Neither, Sessions, Keys, TypeOK, IInv, etcdVars, runVars, listenVars, workVars, Lock
<1>12. ASSUME NEW c \in Curator, Crash(c) PROVE Goal
  BY <1>1, <1>12 DEF Crash, Fault, Restarts, Neither, Idle, Sessions, Keys, TypeOK, IInv, etcdVars, runVars, listenVars, workVars, Lock
<1>13. ASSUME NEW c \in Curator, Listen(c) PROVE Goal
  BY <1>1, <1>13 DEF Listen, Sessions, Keys, TypeOK, IInv, etcdVars, runVars, listenVars, workVars, Lock
<1>14. ASSUME NEW c \in Curator, ListenerGet(c) PROVE Goal
  BY <1>1, <1>14 DEF ListenerGet, Neither, Same, Sessions, Keys, TypeOK, IInv, etcdVars, runVars, listenVars, workVars, Lock
<1>15. ASSUME NEW c \in Curator, StreamOpen(c) PROVE Goal
  BY <1>1, <1>15 DEF StreamOpen, Sessions, Keys, TypeOK, IInv, etcdVars, runVars, listenVars, workVars, Lock
<1>16. ASSUME NEW c \in Curator, StreamGet(c) PROVE Goal
  BY <1>1, <1>16 DEF StreamGet, Sessions, Keys, TypeOK, IInv, etcdVars, runVars, listenVars, workVars, Lock
<1>17. ASSUME NEW c \in Curator, StreamPanic(c) PROVE Goal
  BY <1>1, <1>17 DEF StreamPanic, Restarts, Neither, Idle, Sessions, Keys, TypeOK, IInv, etcdVars, runVars, listenVars, workVars, Lock
<1>18. ASSUME NEW c \in Curator, StreamCancel(c) PROVE Goal
  BY <1>1, <1>18 DEF StreamCancel, Sessions, Keys, TypeOK, IInv, etcdVars, runVars, listenVars, workVars, Lock
<1>19. ASSUME NEW c \in Curator, NEW h \in Handler, HandlerStart(c, h) PROVE Goal
  BY <1>1, <1>19 DEF HandlerStart, Sessions, Keys, TypeOK, IInv, etcdVars, runVars, listenVars, workVars, Lock
<1>20. ASSUME NEW c \in Curator, NEW h \in Handler, HandlerLoad(c, h) PROVE Goal
  BY <1>1, <1>20 DEF HandlerLoad, Unlocked, AsLeader, Exists, Idle, Sessions, Keys, TypeOK, IInv, etcdVars, runVars, listenVars, workVars, Lock
<1>21. ASSUME NEW c \in Curator, NEW h \in Handler, HandlerSave(c, h) PROVE Goal
  BY <1>1, <1>21 DEF HandlerSave, AsLeader, Exists, Idle, Sessions, Keys, TypeOK, IInv, etcdVars, runVars, listenVars, workVars, Lock
<1>22. ASSUME NEW c \in Curator, NEW h \in Handler, HandlerAbort(c, h) PROVE Goal
  BY <1>1, <1>22 DEF HandlerAbort, Idle, Sessions, Keys, TypeOK, IInv, etcdVars, runVars, listenVars, workVars, Lock
<1>23. ASSUME NEW l \in locks, Expire(l) PROVE Goal
  BY <1>1, <1>23 DEF Expire, Fault, Sessions, Keys, TypeOK, IInv, etcdVars, runVars, listenVars, workVars, Lock
<1>24. ASSUME NEW l \in locks, ExpireStale(l) PROVE Goal
  BY <1>1, <1>24 DEF ExpireStale, Sessions, Keys, TypeOK, IInv, etcdVars, runVars, listenVars, workVars, Lock
<1>25. CASE UNCHANGED vars
  BY <1>1, <1>25 DEF vars, Sessions, Keys, TypeOK, IInv, Lock
<1>. QED
  BY <1>1, <1>2, <1>3, <1>4, <1>5, <1>6, <1>7, <1>8, <1>9, <1>10, <1>11, <1>12, <1>13, <1>14, <1>15, <1>16, <1>17, <1>18, <1>19, <1>20, <1>21, <1>22, <1>23, <1>24, <1>25 DEF Next

(* What cleanup read was proclaimed by its own node, whose session is over. *)
LEMMA StaleInv ==
    ASSUME IInv, [Next]_vars
    PROVE  Stale'
<1> DEFINE Goal == Stale'
<1>1. IInv /\ [Next]_vars
  OBVIOUS
<1>2. ASSUME NEW c \in Curator, CleanupRead(c) PROVE Goal
  BY <1>1, <1>2 DEF CleanupRead, First, Ours, Stale, CleanupStale, Sessions, Keys, TypeOK, IInv, etcdVars, runVars, listenVars, workVars, Lock
<1>3. ASSUME NEW c \in Curator, CleanupDelete(c) PROVE Goal
  BY <1>1, <1>3 DEF CleanupDelete, Removed, Stale, CleanupStale, Sessions, Keys, TypeOK, IInv, etcdVars, runVars, listenVars, workVars, Lock
<1>4. ASSUME NEW c \in Curator, NewSession(c) PROVE Goal
  BY <1>1, <1>4 DEF NewSession, Fault, Stale, CleanupStale, Sessions, Keys, TypeOK, IInv, etcdVars, runVars, listenVars, workVars, Lock
<1>5. ASSUME NEW c \in Curator, CampaignPut(c) PROVE Goal
  BY <1>1, <1>5 DEF CampaignPut, Stale, CleanupStale, Sessions, Keys, TypeOK, IInv, etcdVars, runVars, listenVars, workVars, Lock
<1>6. ASSUME NEW c \in Curator, Observe(c) PROVE Goal
  BY <1>1, <1>6 DEF Observe, First, SetStatus, Following, Stale, CleanupStale, Sessions, Keys, TypeOK, IInv, etcdVars, runVars, listenVars, workVars, Lock
<1>7. ASSUME NEW c \in Curator, Campaigned(c) PROVE Goal
  BY <1>1, <1>7 DEF Campaigned, Elected, SetStatus, Leading, Stale, CleanupStale, Sessions, Keys, TypeOK, IInv, etcdVars, runVars, listenVars, workVars, Lock
<1>8. ASSUME NEW c \in Curator, ElectionFail(c) PROVE Goal
  BY <1>1, <1>8 DEF ElectionFail, Fault, Stale, CleanupStale, Sessions, Keys, TypeOK, IInv, etcdVars, runVars, listenVars, workVars, Lock
<1>9. ASSUME NEW c \in Curator, SessionDone(c) PROVE Goal
  BY <1>1, <1>9 DEF SessionDone, Fault, Exists, Stale, CleanupStale, Sessions, Keys, TypeOK, IInv, etcdVars, runVars, listenVars, workVars, Lock
<1>10. ASSUME NEW c \in Curator, SessionClose(c) PROVE Goal
  BY <1>1, <1>10 DEF SessionClose, Removed, Stale, CleanupStale, Sessions, Keys, TypeOK, IInv, etcdVars, runVars, listenVars, workVars, Lock
<1>11. ASSUME NEW c \in Curator, Reset(c) PROVE Goal
  BY <1>1, <1>11 DEF Reset, SetStatus, Neither, Stale, CleanupStale, Sessions, Keys, TypeOK, IInv, etcdVars, runVars, listenVars, workVars, Lock
<1>12. ASSUME NEW c \in Curator, Crash(c) PROVE Goal
  BY <1>1, <1>12 DEF Crash, Fault, Restarts, Neither, Idle, Stale, CleanupStale, Sessions, Keys, TypeOK, IInv, etcdVars, runVars, listenVars, workVars, Lock
<1>13. ASSUME NEW c \in Curator, Listen(c) PROVE Goal
  BY <1>1, <1>13 DEF Listen, Stale, CleanupStale, Sessions, Keys, TypeOK, IInv, etcdVars, runVars, listenVars, workVars, Lock
<1>14. ASSUME NEW c \in Curator, ListenerGet(c) PROVE Goal
  BY <1>1, <1>14 DEF ListenerGet, Neither, Same, Stale, CleanupStale, Sessions, Keys, TypeOK, IInv, etcdVars, runVars, listenVars, workVars, Lock
<1>15. ASSUME NEW c \in Curator, StreamOpen(c) PROVE Goal
  BY <1>1, <1>15 DEF StreamOpen, Stale, CleanupStale, Sessions, Keys, TypeOK, IInv, etcdVars, runVars, listenVars, workVars, Lock
<1>16. ASSUME NEW c \in Curator, StreamGet(c) PROVE Goal
  BY <1>1, <1>16 DEF StreamGet, Stale, CleanupStale, Sessions, Keys, TypeOK, IInv, etcdVars, runVars, listenVars, workVars, Lock
<1>17. ASSUME NEW c \in Curator, StreamPanic(c) PROVE Goal
  BY <1>1, <1>17 DEF StreamPanic, Restarts, Neither, Idle, Stale, CleanupStale, Sessions, Keys, TypeOK, IInv, etcdVars, runVars, listenVars, workVars, Lock
<1>18. ASSUME NEW c \in Curator, StreamCancel(c) PROVE Goal
  BY <1>1, <1>18 DEF StreamCancel, Stale, CleanupStale, Sessions, Keys, TypeOK, IInv, etcdVars, runVars, listenVars, workVars, Lock
<1>19. ASSUME NEW c \in Curator, NEW h \in Handler, HandlerStart(c, h) PROVE Goal
  BY <1>1, <1>19 DEF HandlerStart, Stale, CleanupStale, Sessions, Keys, TypeOK, IInv, etcdVars, runVars, listenVars, workVars, Lock
<1>20. ASSUME NEW c \in Curator, NEW h \in Handler, HandlerLoad(c, h) PROVE Goal
  BY <1>1, <1>20 DEF HandlerLoad, Unlocked, AsLeader, Exists, Idle, Stale, CleanupStale, Sessions, Keys, TypeOK, IInv, etcdVars, runVars, listenVars, workVars, Lock
<1>21. ASSUME NEW c \in Curator, NEW h \in Handler, HandlerSave(c, h) PROVE Goal
  BY <1>1, <1>21 DEF HandlerSave, AsLeader, Exists, Idle, Stale, CleanupStale, Sessions, Keys, TypeOK, IInv, etcdVars, runVars, listenVars, workVars, Lock
<1>22. ASSUME NEW c \in Curator, NEW h \in Handler, HandlerAbort(c, h) PROVE Goal
  BY <1>1, <1>22 DEF HandlerAbort, Idle, Stale, CleanupStale, Sessions, Keys, TypeOK, IInv, etcdVars, runVars, listenVars, workVars, Lock
<1>23. ASSUME NEW l \in locks, Expire(l) PROVE Goal
  BY <1>1, <1>23 DEF Expire, Fault, Stale, CleanupStale, Sessions, Keys, TypeOK, IInv, etcdVars, runVars, listenVars, workVars, Lock
<1>24. ASSUME NEW l \in locks, ExpireStale(l) PROVE Goal
  BY <1>1, <1>24 DEF ExpireStale, Stale, CleanupStale, Sessions, Keys, TypeOK, IInv, etcdVars, runVars, listenVars, workVars, Lock
<1>25. CASE UNCHANGED vars
  BY <1>1, <1>25 DEF vars, Stale, CleanupStale, Sessions, Keys, TypeOK, IInv, Lock
<1>. QED
  BY <1>1, <1>2, <1>3, <1>4, <1>5, <1>6, <1>7, <1>8, <1>9, <1>10, <1>11, <1>12, <1>13, <1>14, <1>15, <1>16, <1>17, <1>18, <1>19, <1>20, <1>21, <1>22, <1>23, <1>24, <1>25 DEF Next

(* Claims outlive every step: keys go, and new ones are younger. *)
LEMMA ClaimsInv ==
    ASSUME IInv, [Next]_vars
    PROVE  Claims'
<1> DEFINE Goal == Claims'
<1>1. IInv /\ [Next]_vars
  OBVIOUS
<1>2. ASSUME NEW c \in Curator, CleanupRead(c) PROVE Goal
  BY <1>1, <1>2 DEF CleanupRead, First, Ours, Claims, Claim, Sessions, Keys, Worker, TypeOK, IInv, etcdVars, runVars, listenVars, workVars, Lock, Status, Handling
<1>3. ASSUME NEW c \in Curator, CleanupDelete(c) PROVE Goal
  BY <1>1, <1>3 DEF CleanupDelete, Removed, Claims, Claim, Sessions, Keys, Worker, TypeOK, IInv, etcdVars, runVars, listenVars, workVars, Lock, Status, Handling
<1>4. ASSUME NEW c \in Curator, NewSession(c) PROVE Goal
  BY <1>1, <1>4 DEF NewSession, Fault, Claims, Claim, Sessions, Keys, Worker, TypeOK, IInv, etcdVars, runVars, listenVars, workVars, Lock, Status, Handling
<1>5. ASSUME NEW c \in Curator, CampaignPut(c) PROVE Goal
  BY <1>1, <1>5 DEF CampaignPut, Claims, Claim, Sessions, Keys, Worker, TypeOK, IInv, etcdVars, runVars, listenVars, workVars, Lock, Status, Handling
<1>6. ASSUME NEW c \in Curator, Observe(c) PROVE Goal
  BY <1>1, <1>6 DEF Observe, First, SetStatus, Following, Claims, Claim, Sessions, Keys, Worker, TypeOK, IInv, etcdVars, runVars, listenVars, workVars, Lock, Status, Handling
<1>7. ASSUME NEW c \in Curator, Campaigned(c) PROVE Goal
  BY <1>1, <1>7 DEF Campaigned, Elected, SetStatus, Leading, Claims, Claim, Sessions, Keys, Worker, TypeOK, IInv, etcdVars, runVars, listenVars, workVars, Lock, Status, Handling
<1>8. ASSUME NEW c \in Curator, ElectionFail(c) PROVE Goal
  BY <1>1, <1>8 DEF ElectionFail, Fault, Claims, Claim, Sessions, Keys, Worker, TypeOK, IInv, etcdVars, runVars, listenVars, workVars, Lock, Status, Handling
<1>9. ASSUME NEW c \in Curator, SessionDone(c) PROVE Goal
  BY <1>1, <1>9 DEF SessionDone, Fault, Exists, Claims, Claim, Sessions, Keys, Worker, TypeOK, IInv, etcdVars, runVars, listenVars, workVars, Lock, Status, Handling
<1>10. ASSUME NEW c \in Curator, SessionClose(c) PROVE Goal
  BY <1>1, <1>10 DEF SessionClose, Removed, Claims, Claim, Sessions, Keys, Worker, TypeOK, IInv, etcdVars, runVars, listenVars, workVars, Lock, Status, Handling
<1>11. ASSUME NEW c \in Curator, Reset(c) PROVE Goal
  BY <1>1, <1>11 DEF Reset, SetStatus, Neither, Claims, Claim, Sessions, Keys, Worker, TypeOK, IInv, etcdVars, runVars, listenVars, workVars, Lock, Status, Handling
<1>12. ASSUME NEW c \in Curator, Crash(c) PROVE Goal
  BY <1>1, <1>12 DEF Crash, Fault, Restarts, Neither, Idle, Claims, Claim, Sessions, Keys, Worker, TypeOK, IInv, etcdVars, runVars, listenVars, workVars, Lock, Status, Handling
<1>13. ASSUME NEW c \in Curator, Listen(c) PROVE Goal
  BY <1>1, <1>13 DEF Listen, Claims, Claim, Sessions, Keys, Worker, TypeOK, IInv, etcdVars, runVars, listenVars, workVars, Lock, Status, Handling
<1>14. ASSUME NEW c \in Curator, ListenerGet(c) PROVE Goal
  BY <1>1, <1>14 DEF ListenerGet, Neither, Same, Claims, Claim, Sessions, Keys, Worker, TypeOK, IInv, etcdVars, runVars, listenVars, workVars, Lock, Status, Handling
<1>15. ASSUME NEW c \in Curator, StreamOpen(c) PROVE Goal
  BY <1>1, <1>15 DEF StreamOpen, Claims, Claim, Sessions, Keys, Worker, TypeOK, IInv, etcdVars, runVars, listenVars, workVars, Lock, Status, Handling
<1>16. ASSUME NEW c \in Curator, StreamGet(c) PROVE Goal
  BY <1>1, <1>16 DEF StreamGet, Claims, Claim, Sessions, Keys, Worker, TypeOK, IInv, etcdVars, runVars, listenVars, workVars, Lock, Status, Handling
<1>17. ASSUME NEW c \in Curator, StreamPanic(c) PROVE Goal
  BY <1>1, <1>17 DEF StreamPanic, Restarts, Neither, Idle, Claims, Claim, Sessions, Keys, Worker, TypeOK, IInv, etcdVars, runVars, listenVars, workVars, Lock, Status, Handling
<1>18. ASSUME NEW c \in Curator, StreamCancel(c) PROVE Goal
  BY <1>1, <1>18 DEF StreamCancel, Claims, Claim, Sessions, Keys, Worker, TypeOK, IInv, etcdVars, runVars, listenVars, workVars, Lock, Status, Handling
<1>19. ASSUME NEW c \in Curator, NEW h \in Handler, HandlerStart(c, h) PROVE Goal
  BY <1>1, <1>19 DEF HandlerStart, Claims, Claim, Sessions, Keys, Worker, TypeOK, IInv, etcdVars, runVars, listenVars, workVars, Lock, Status, Handling
<1>20. ASSUME NEW c \in Curator, NEW h \in Handler, HandlerLoad(c, h) PROVE Goal
  <2>1. \A w \in Worker : handler'[w].pc # "idle" =>
            handler[w].pc # "idle" /\ handler'[w].rev = handler[w].rev
    BY <1>1, <1>20 DEF HandlerLoad, Idle, Worker, TypeOK, IInv, Handling
  <2> QED
    BY <1>1, <1>20, <2>1 DEF HandlerLoad, Claims, Claim, IInv, etcdVars, runVars, listenVars
<1>21. ASSUME NEW c \in Curator, NEW h \in Handler, HandlerSave(c, h) PROVE Goal
  BY <1>1, <1>21 DEF HandlerSave, AsLeader, Exists, Idle, Claims, Claim, Sessions, Keys, Worker, TypeOK, IInv, etcdVars, runVars, listenVars, workVars, Lock, Status, Handling
<1>22. ASSUME NEW c \in Curator, NEW h \in Handler, HandlerAbort(c, h) PROVE Goal
  BY <1>1, <1>22 DEF HandlerAbort, Idle, Claims, Claim, Sessions, Keys, Worker, TypeOK, IInv, etcdVars, runVars, listenVars, workVars, Lock, Status, Handling
<1>23. ASSUME NEW l \in locks, Expire(l) PROVE Goal
  BY <1>1, <1>23 DEF Expire, Fault, Claims, Claim, Sessions, Keys, Worker, TypeOK, IInv, etcdVars, runVars, listenVars, workVars, Lock, Status, Handling
<1>24. ASSUME NEW l \in locks, ExpireStale(l) PROVE Goal
  BY <1>1, <1>24 DEF ExpireStale, Claims, Claim, Sessions, Keys, Worker, TypeOK, IInv, etcdVars, runVars, listenVars, workVars, Lock, Status, Handling
<1>25. CASE UNCHANGED vars
  BY <1>1, <1>25 DEF vars, Claims, Claim, Sessions, Keys, Worker, TypeOK, IInv, Lock, Status, Handling
<1>. QED
  BY <1>1, <1>2, <1>3, <1>4, <1>5, <1>6, <1>7, <1>8, <1>9, <1>10, <1>11, <1>12, <1>13, <1>14, <1>15, <1>16, <1>17, <1>18, <1>19, <1>20, <1>21, <1>22, <1>23, <1>24, <1>25 DEF Next

(* What a handler read stays the data while its key exists. *)
LEMMA LoadedInv ==
    ASSUME IInv, [Next]_vars
    PROVE  Loaded'
<1> DEFINE Goal == Loaded'
<1>1. IInv /\ [Next]_vars
  OBVIOUS
<1>2. ASSUME NEW c \in Curator, CleanupRead(c) PROVE Goal
  BY <1>1, <1>2 DEF CleanupRead, First, Ours, Loaded, Worker, Exists, TypeOK, IInv, etcdVars, runVars, listenVars, workVars, Lock, Handling
<1>3. ASSUME NEW c \in Curator, CleanupDelete(c) PROVE Goal
  BY <1>1, <1>3 DEF CleanupDelete, Removed, Loaded, Worker, Exists, TypeOK, IInv, etcdVars, runVars, listenVars, workVars, Lock, Handling
<1>4. ASSUME NEW c \in Curator, NewSession(c) PROVE Goal
  BY <1>1, <1>4 DEF NewSession, Fault, Loaded, Worker, Exists, TypeOK, IInv, etcdVars, runVars, listenVars, workVars, Lock, Handling
<1>5. ASSUME NEW c \in Curator, CampaignPut(c) PROVE Goal
  <2>1. ASSUME NEW w \in Worker, handler[w].pc = "save", Exists(handler[w].rev)'
        PROVE  Exists(handler[w].rev)
    <3>1. handler' = handler /\ locks' = locks \union {[rev |-> rev + 1, node |-> c]}
      BY <1>5 DEF CampaignPut, workVars
    <3>2. handler[w].rev \in 1..rev /\ rev \in Nat
      BY <1>1, <2>1 DEF IInv, TypeOK, Claims, Claim
    <3> QED
      BY <2>1, <3>1, <3>2 DEF Exists
  <2>2. handler' = handler /\ data' = data
    BY <1>5 DEF CampaignPut, workVars
  <2> QED
    BY <1>1, <2>1, <2>2 DEF IInv, Loaded
<1>6. ASSUME NEW c \in Curator, Observe(c) PROVE Goal
  BY <1>1, <1>6 DEF Observe, First, SetStatus, Following, Loaded, Worker, Exists, TypeOK, IInv, etcdVars, runVars, listenVars, workVars, Lock, Handling
<1>7. ASSUME NEW c \in Curator, Campaigned(c) PROVE Goal
  BY <1>1, <1>7 DEF Campaigned, Elected, SetStatus, Leading, Loaded, Worker, Exists, TypeOK, IInv, etcdVars, runVars, listenVars, workVars, Lock, Handling
<1>8. ASSUME NEW c \in Curator, ElectionFail(c) PROVE Goal
  BY <1>1, <1>8 DEF ElectionFail, Fault, Loaded, Worker, Exists, TypeOK, IInv, etcdVars, runVars, listenVars, workVars, Lock, Handling
<1>9. ASSUME NEW c \in Curator, SessionDone(c) PROVE Goal
  BY <1>1, <1>9 DEF SessionDone, Fault, Exists, Loaded, Worker, TypeOK, IInv, etcdVars, runVars, listenVars, workVars, Lock, Handling
<1>10. ASSUME NEW c \in Curator, SessionClose(c) PROVE Goal
  BY <1>1, <1>10 DEF SessionClose, Removed, Loaded, Worker, Exists, TypeOK, IInv, etcdVars, runVars, listenVars, workVars, Lock, Handling
<1>11. ASSUME NEW c \in Curator, Reset(c) PROVE Goal
  BY <1>1, <1>11 DEF Reset, SetStatus, Neither, Loaded, Worker, Exists, TypeOK, IInv, etcdVars, runVars, listenVars, workVars, Lock, Handling
<1>12. ASSUME NEW c \in Curator, Crash(c) PROVE Goal
  BY <1>1, <1>12 DEF Crash, Fault, Restarts, Neither, Idle, Loaded, Worker, Exists, TypeOK, IInv, etcdVars, runVars, listenVars, workVars, Lock, Handling
<1>13. ASSUME NEW c \in Curator, Listen(c) PROVE Goal
  BY <1>1, <1>13 DEF Listen, Loaded, Worker, Exists, TypeOK, IInv, etcdVars, runVars, listenVars, workVars, Lock, Handling
<1>14. ASSUME NEW c \in Curator, ListenerGet(c) PROVE Goal
  BY <1>1, <1>14 DEF ListenerGet, Neither, Same, Loaded, Worker, Exists, TypeOK, IInv, etcdVars, runVars, listenVars, workVars, Lock, Handling
<1>15. ASSUME NEW c \in Curator, StreamOpen(c) PROVE Goal
  BY <1>1, <1>15 DEF StreamOpen, Loaded, Worker, Exists, TypeOK, IInv, etcdVars, runVars, listenVars, workVars, Lock, Handling
<1>16. ASSUME NEW c \in Curator, StreamGet(c) PROVE Goal
  BY <1>1, <1>16 DEF StreamGet, Loaded, Worker, Exists, TypeOK, IInv, etcdVars, runVars, listenVars, workVars, Lock, Handling
<1>17. ASSUME NEW c \in Curator, StreamPanic(c) PROVE Goal
  BY <1>1, <1>17 DEF StreamPanic, Restarts, Neither, Idle, Loaded, Worker, Exists, TypeOK, IInv, etcdVars, runVars, listenVars, workVars, Lock, Handling
<1>18. ASSUME NEW c \in Curator, StreamCancel(c) PROVE Goal
  BY <1>1, <1>18 DEF StreamCancel, Loaded, Worker, Exists, TypeOK, IInv, etcdVars, runVars, listenVars, workVars, Lock, Handling
<1>19. ASSUME NEW c \in Curator, NEW h \in Handler, HandlerStart(c, h) PROVE Goal
  BY <1>1, <1>19 DEF HandlerStart, Loaded, Worker, Exists, TypeOK, IInv, etcdVars, runVars, listenVars, workVars, Lock, Handling
<1>20. ASSUME NEW c \in Curator, NEW h \in Handler, HandlerLoad(c, h) PROVE Goal
  <2> DEFINE w == <<c, h>>
  <2>1. w \in Worker /\ handler \in [Worker -> Handling]
    BY <1>1 DEF IInv, TypeOK, Worker
  <2>2. locks' = locks /\ data' = data
    BY <1>20 DEF HandlerLoad, etcdVars
  <2>3. handler[w].pc = "lock" /\ Unlocked(handler[w].rev)
    BY <1>20 DEF HandlerLoad
  <2>4. \A v \in Worker : v # w => handler'[v] = handler[v]
    BY <1>20, <2>1 DEF HandlerLoad
  <2>5. handler'[w] \in {[pc |-> "save", rev |-> handler[w].rev, val |-> data], Idle}
    BY <1>20, <2>1 DEF HandlerLoad
  <2> HIDE DEF w
  <2>6. \A v \in Worker : handler'[v].pc = "save" /\ Exists(handler'[v].rev) => handler'[v].val = data
    BY <1>1, <2>1, <2>4, <2>5 DEF IInv, Loaded, Idle
  <2>7. \A v \in Worker \ {w} : handler[v].pc = "save" => handler[v].rev # handler[w].rev
    BY <2>3 DEF Unlocked, Worker
  <2>8. \A u, v \in Worker :
            handler'[u].pc = "save" /\ handler'[v].pc = "save" /\ handler'[u].rev = handler'[v].rev
            => u = v
    BY <1>1, <2>1, <2>4, <2>5, <2>7 DEF IInv, Loaded, Idle
  <2> QED
    BY <2>2, <2>6, <2>8 DEF Loaded, Exists
<1>21. ASSUME NEW c \in Curator, NEW h \in Handler, HandlerSave(c, h) PROVE Goal
  <2> DEFINE w == <<c, h>>
  <2>1. w \in Worker /\ handler \in [Worker -> Handling]
    BY <1>1 DEF IInv, TypeOK, Worker
  <2>2. handler[w].pc = "save" /\ locks' = locks
    BY <1>21 DEF HandlerSave, etcdVars
  <2>3. handler'[w] = Idle /\ \A v \in Worker : v # w => handler'[v] = handler[v]
    BY <1>21, <2>1 DEF HandlerSave
  <2>4. CASE ~Exists(handler[w].rev)
    <3>1. data' = data /\ writes' = writes
      BY <1>21, <2>4 DEF HandlerSave, AsLeader
    <3> QED
      BY <1>1, <2>1, <2>2, <2>3, <3>1 DEF IInv, Loaded, Idle, Exists
  <2>5. CASE Exists(handler[w].rev)
    <3> HIDE DEF w
    <3>1. \A v \in Worker : handler[v].pc = "save" /\ Exists(handler[v].rev) => v = w
      BY <1>1, <2>1, <2>2, <2>5, SoleClaim DEF IInv, Loaded
    <3>2. \A v \in Worker : handler'[v].pc = "save" => ~Exists(handler'[v].rev)
      BY <2>3, <3>1 DEF Idle
    <3>3. \A u, v \in Worker :
              handler'[u].pc = "save" /\ handler'[v].pc = "save" /\ handler'[u].rev = handler'[v].rev
              => u = v
      BY <1>1, <2>1, <2>3 DEF IInv, Loaded, Idle
    <3> QED
      BY <2>2, <3>2, <3>3 DEF Loaded, Exists
  <2> QED
    BY <2>4, <2>5
<1>22. ASSUME NEW c \in Curator, NEW h \in Handler, HandlerAbort(c, h) PROVE Goal
  BY <1>1, <1>22 DEF HandlerAbort, Idle, Loaded, Worker, Exists, TypeOK, IInv, etcdVars, runVars, listenVars, workVars, Lock, Handling
<1>23. ASSUME NEW l \in locks, Expire(l) PROVE Goal
  BY <1>1, <1>23 DEF Expire, Fault, Loaded, Worker, Exists, TypeOK, IInv, etcdVars, runVars, listenVars, workVars, Lock, Handling
<1>24. ASSUME NEW l \in locks, ExpireStale(l) PROVE Goal
  BY <1>1, <1>24 DEF ExpireStale, Loaded, Worker, Exists, TypeOK, IInv, etcdVars, runVars, listenVars, workVars, Lock, Handling
<1>25. CASE UNCHANGED vars
  BY <1>1, <1>25 DEF vars, Loaded, Worker, Exists, TypeOK, IInv, Lock, Handling
<1>. QED
  BY <1>1, <1>2, <1>3, <1>4, <1>5, <1>6, <1>7, <1>8, <1>9, <1>10, <1>11, <1>12, <1>13, <1>14, <1>15, <1>16, <1>17, <1>18, <1>19, <1>20, <1>21, <1>22, <1>23, <1>24, <1>25 DEF Next

(* A write that passes the comparison adds to the data it read. *)
LEMMA DataInv ==
    ASSUME IInv, [Next]_vars
    PROVE  NoLostUpdate'
<1> DEFINE Goal == NoLostUpdate'
<1>1. IInv /\ [Next]_vars
  OBVIOUS
<1>2. ASSUME NEW c \in Curator, CleanupRead(c) PROVE Goal
  BY <1>1, <1>2 DEF CleanupRead, First, Ours, NoLostUpdate, Loaded, Worker, Exists, TypeOK, IInv, etcdVars, runVars, listenVars, workVars, Handling
<1>3. ASSUME NEW c \in Curator, CleanupDelete(c) PROVE Goal
  BY <1>1, <1>3 DEF CleanupDelete, Removed, NoLostUpdate, Loaded, Worker, Exists, TypeOK, IInv, etcdVars, runVars, listenVars, workVars, Handling
<1>4. ASSUME NEW c \in Curator, NewSession(c) PROVE Goal
  BY <1>1, <1>4 DEF NewSession, Fault, NoLostUpdate, Loaded, Worker, Exists, TypeOK, IInv, etcdVars, runVars, listenVars, workVars, Handling
<1>5. ASSUME NEW c \in Curator, CampaignPut(c) PROVE Goal
  BY <1>1, <1>5 DEF CampaignPut, NoLostUpdate, Loaded, Worker, Exists, TypeOK, IInv, etcdVars, runVars, listenVars, workVars, Handling
<1>6. ASSUME NEW c \in Curator, Observe(c) PROVE Goal
  BY <1>1, <1>6 DEF Observe, First, SetStatus, Following, NoLostUpdate, Loaded, Worker, Exists, TypeOK, IInv, etcdVars, runVars, listenVars, workVars, Handling
<1>7. ASSUME NEW c \in Curator, Campaigned(c) PROVE Goal
  BY <1>1, <1>7 DEF Campaigned, Elected, SetStatus, Leading, NoLostUpdate, Loaded, Worker, Exists, TypeOK, IInv, etcdVars, runVars, listenVars, workVars, Handling
<1>8. ASSUME NEW c \in Curator, ElectionFail(c) PROVE Goal
  BY <1>1, <1>8 DEF ElectionFail, Fault, NoLostUpdate, Loaded, Worker, Exists, TypeOK, IInv, etcdVars, runVars, listenVars, workVars, Handling
<1>9. ASSUME NEW c \in Curator, SessionDone(c) PROVE Goal
  BY <1>1, <1>9 DEF SessionDone, Fault, Exists, NoLostUpdate, Loaded, Worker, TypeOK, IInv, etcdVars, runVars, listenVars, workVars, Handling
<1>10. ASSUME NEW c \in Curator, SessionClose(c) PROVE Goal
  BY <1>1, <1>10 DEF SessionClose, Removed, NoLostUpdate, Loaded, Worker, Exists, TypeOK, IInv, etcdVars, runVars, listenVars, workVars, Handling
<1>11. ASSUME NEW c \in Curator, Reset(c) PROVE Goal
  BY <1>1, <1>11 DEF Reset, SetStatus, Neither, NoLostUpdate, Loaded, Worker, Exists, TypeOK, IInv, etcdVars, runVars, listenVars, workVars, Handling
<1>12. ASSUME NEW c \in Curator, Crash(c) PROVE Goal
  BY <1>1, <1>12 DEF Crash, Fault, Restarts, Neither, Idle, NoLostUpdate, Loaded, Worker, Exists, TypeOK, IInv, etcdVars, runVars, listenVars, workVars, Handling
<1>13. ASSUME NEW c \in Curator, Listen(c) PROVE Goal
  BY <1>1, <1>13 DEF Listen, NoLostUpdate, Loaded, Worker, Exists, TypeOK, IInv, etcdVars, runVars, listenVars, workVars, Handling
<1>14. ASSUME NEW c \in Curator, ListenerGet(c) PROVE Goal
  BY <1>1, <1>14 DEF ListenerGet, Neither, Same, NoLostUpdate, Loaded, Worker, Exists, TypeOK, IInv, etcdVars, runVars, listenVars, workVars, Handling
<1>15. ASSUME NEW c \in Curator, StreamOpen(c) PROVE Goal
  BY <1>1, <1>15 DEF StreamOpen, NoLostUpdate, Loaded, Worker, Exists, TypeOK, IInv, etcdVars, runVars, listenVars, workVars, Handling
<1>16. ASSUME NEW c \in Curator, StreamGet(c) PROVE Goal
  BY <1>1, <1>16 DEF StreamGet, NoLostUpdate, Loaded, Worker, Exists, TypeOK, IInv, etcdVars, runVars, listenVars, workVars, Handling
<1>17. ASSUME NEW c \in Curator, StreamPanic(c) PROVE Goal
  BY <1>1, <1>17 DEF StreamPanic, Restarts, Neither, Idle, NoLostUpdate, Loaded, Worker, Exists, TypeOK, IInv, etcdVars, runVars, listenVars, workVars, Handling
<1>18. ASSUME NEW c \in Curator, StreamCancel(c) PROVE Goal
  BY <1>1, <1>18 DEF StreamCancel, NoLostUpdate, Loaded, Worker, Exists, TypeOK, IInv, etcdVars, runVars, listenVars, workVars, Handling
<1>19. ASSUME NEW c \in Curator, NEW h \in Handler, HandlerStart(c, h) PROVE Goal
  BY <1>1, <1>19 DEF HandlerStart, NoLostUpdate, Loaded, Worker, Exists, TypeOK, IInv, etcdVars, runVars, listenVars, workVars, Handling
<1>20. ASSUME NEW c \in Curator, NEW h \in Handler, HandlerLoad(c, h) PROVE Goal
  BY <1>1, <1>20 DEF HandlerLoad, Unlocked, AsLeader, Exists, Idle, NoLostUpdate, Loaded, Worker, TypeOK, IInv, etcdVars, runVars, listenVars, workVars, Handling
<1>21. ASSUME NEW c \in Curator, NEW h \in Handler, HandlerSave(c, h) PROVE Goal
  <2> DEFINE w == <<c, h>>
  <2>1. w \in Worker /\ handler \in [Worker -> Handling]
    BY <1>1 DEF IInv, TypeOK, Worker
  <2>2. handler[w].pc = "save" /\ locks' = locks
    BY <1>21 DEF HandlerSave, etcdVars
  <2>3. handler'[w] = Idle /\ \A v \in Worker : v # w => handler'[v] = handler[v]
    BY <1>21, <2>1 DEF HandlerSave
  <2>4. CASE ~Exists(handler[w].rev)
    <3>1. data' = data /\ writes' = writes
      BY <1>21, <2>4 DEF HandlerSave, AsLeader
    <3> QED
      BY <1>1, <3>1 DEF IInv, NoLostUpdate
  <2>5. CASE Exists(handler[w].rev)
    <3>1. data' = handler[w].val + 1 /\ writes' = writes + 1
      BY <1>21, <2>5 DEF HandlerSave, AsLeader
    <3>2. handler[w].val = data
      BY <1>1, <2>1, <2>2, <2>5 DEF IInv, Loaded
    <3> QED
      BY <1>1, <3>1, <3>2 DEF IInv, NoLostUpdate
  <2> QED
    BY <2>4, <2>5
<1>22. ASSUME NEW c \in Curator, NEW h \in Handler, HandlerAbort(c, h) PROVE Goal
  BY <1>1, <1>22 DEF HandlerAbort, Idle, NoLostUpdate, Loaded, Worker, Exists, TypeOK, IInv, etcdVars, runVars, listenVars, workVars, Handling
<1>23. ASSUME NEW l \in locks, Expire(l) PROVE Goal
  BY <1>1, <1>23 DEF Expire, Fault, NoLostUpdate, Loaded, Worker, Exists, TypeOK, IInv, etcdVars, runVars, listenVars, workVars, Handling
<1>24. ASSUME NEW l \in locks, ExpireStale(l) PROVE Goal
  BY <1>1, <1>24 DEF ExpireStale, NoLostUpdate, Loaded, Worker, Exists, TypeOK, IInv, etcdVars, runVars, listenVars, workVars, Handling
<1>25. CASE UNCHANGED vars
  BY <1>1, <1>25 DEF vars, NoLostUpdate, Loaded, Worker, Exists, TypeOK, IInv, Handling
<1>. QED
  BY <1>1, <1>2, <1>3, <1>4, <1>5, <1>6, <1>7, <1>8, <1>9, <1>10, <1>11, <1>12, <1>13, <1>14, <1>15, <1>16, <1>17, <1>18, <1>19, <1>20, <1>21, <1>22, <1>23, <1>24, <1>25 DEF Next

-----------------------------------------------------------------------------
(* The inductive invariant holds in every state of every behaviour. *)
LEMMA Invariance == Spec => []IInv
<1>1. IInv /\ [Next]_vars => IInv'
  BY TypeInv, KeysInv, SessionsInv, StaleInv, ClaimsInv, LoadedInv, DataInv DEF IInv
<1> QED
  BY <1>1, InitInv, PTL DEF Spec

(* Type correctness of the election, its listeners and its handlers. *)
THEOREM TypeCorrect == Spec => []TypeOK
<1>1. IInv => TypeOK
  BY DEF IInv
<1> QED
  BY <1>1, Invariance, PTL

(* Leadership is exclusive: of the leaderships that are served or have     *)
(* handlers left, at most one has its key in etcd, so at most one passes   *)
(* the comparison of txnAsLeader.                                          *)
THEOREM Exclusive == Spec => []SoleLeadership
<1>1. ASSUME IInv PROVE SoleLeadership
  <2> SUFFICES ASSUME NEW r \in Leaderships, NEW s \in Leaderships, Exists(r), Exists(s)
               PROVE  r = s
    BY DEF SoleLeadership
  <2>1. \A q \in Leaderships : Claim(q)
    BY <1>1 DEF IInv, Claims, Leaderships, Worker
  <2>2. r \in 1..rev /\ s \in 1..rev /\ rev \in Nat
    BY <1>1, <2>1 DEF Claim, IInv, TypeOK
  <2>3. r <= s /\ s <= r
    BY <2>1 DEF Claim, Exists
  <2> QED
    BY <2>2, <2>3
<1> QED
  BY <1>1, Invariance, PTL

(* Every modification a handler was told to have made is in the data. *)
THEOREM UpdatesKept == Spec => []NoLostUpdate
<1>1. IInv => NoLostUpdate
  BY DEF IInv
<1> QED
  BY <1>1, Invariance, PTL

(* cleanupPreviousLifetime never takes the key of a running session. *)
THEOREM CleanupSound == Spec => []CleanupStale
<1>1. IInv => CleanupStale
  BY DEF IInv, Stale
<1> QED
  BY <1>1, Invariance, PTL

=============================================================================
