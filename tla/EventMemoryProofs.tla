-------------------------- MODULE EventMemoryProofs -------------------------
(***************************************************************************)
(* Proofs about the in-memory Event Value, for any number of watchers and  *)
(* Sets.                                                                   *)
(***************************************************************************)
EXTENDS EventMemory, FiniteSetTheorems, TLAPS

(* Set is between taking and releasing the mutex. *)
InSet == setPc # "idle"

(* Set has yet to hand its data to w. *)
Behind(w) == InSet /\ (w \in todo \/ (cur = w /\ setPc \in {"send", "offer"}))

(* The number of Sets whose data w has been given. *)
Given(w) == IF Behind(w) THEN inner - 1 ELSE inner

(* Every watcher in use is registered, or will be again once Set is done.  *)
Registered ==
    /\ setPc = "idle" => open \subseteq watchers
    /\ InSet => open \subseteq todo \union kept
    /\ setPc \in {"send", "offer"} => cur \in kept /\ cur \notin todo
    /\ InSet => inner > 0 /\ todo \cap kept = {}
    /\ setPc = "send" => ~SyncMode
    /\ setPc = "offer" => SyncMode

(* A watcher in use either has consumed what it was given or has it in its *)
(* channel, except between drain and send.                                 *)
UpToDate ==
    \A w \in open :
        /\ seen[w] <= Given(w)
        /\ bufferedC[w] # 0 => bufferedC[w] = Given(w) /\ seen[w] < Given(w)
        /\ bufferedC[w] = 0 => seen[w] = Given(w) \/ (setPc = "send" /\ cur = w)
        /\ SyncMode => seen[w] + 1 >= Given(w)
        /\ SyncMode /\ InSet /\ ~Behind(w) => bufferedC[w] = 0

(* With synchronous Sets only the first data ever is in the channel, and a *)
(* blocked Get has taken it.                                               *)
Waiting ==
    /\ \A w \in Watcher : get[w] = "wait" => w \in open
    /\ SyncMode => \A w \in Watcher : get[w] = "wait" => bufferedC[w] = 0
    /\ setPc = "send" => bufferedC[cur] = 0

IInv == MemTypeOK /\ Registered /\ UpToDate /\ Waiting

LEMMA CardinalityNat == \A S \in SUBSET Watcher : Cardinality(S) \in Nat
  BY SetsAssumption, FS_Subset, FS_CardinalityType

LEMMA NextType == MemTypeOK /\ [MemNext]_memVars => MemTypeOK'
<1> SUFFICES ASSUME MemTypeOK, [MemNext]_memVars
             PROVE  MemTypeOK'
  OBVIOUS
<1> USE DEF MemTypeOK
<1>1. ASSUME SetLock
      PROVE  MemTypeOK'
  BY <1>1 DEF SetLock
<1>2. ASSUME NEW w \in Watcher, SkipClosed(w)
      PROVE  MemTypeOK'
  BY <1>2 DEF SkipClosed
<1>3. ASSUME NEW w \in Watcher, UpdateDrain(w)
      PROVE  MemTypeOK'
  BY <1>3 DEF UpdateDrain, Keep, Drain
<1>4. ASSUME UpdateSend
      PROVE  MemTypeOK'
  BY <1>4 DEF UpdateSend
<1>5. ASSUME NEW w \in Watcher, UpdateOffer(w)
      PROVE  MemTypeOK'
  BY <1>5 DEF UpdateOffer, Keep
<1>6. ASSUME OfferClosed
      PROVE  MemTypeOK'
  BY <1>6 DEF OfferClosed
<1>7. ASSUME SetUnlock
      PROVE  MemTypeOK'
  BY <1>7, CardinalityNat DEF SetUnlock
<1>8. ASSUME NEW w \in Watcher, Watch(w)
      PROVE  MemTypeOK'
  BY <1>8, CardinalityNat DEF Watch, Survivors, FirstData, Resized, Appended, setVars
<1>9. ASSUME NEW w \in Watcher, CloseWatcher(w)
      PROVE  MemTypeOK'
  BY <1>9 DEF CloseWatcher, setVars
<1>10. ASSUME NEW w \in Watcher, GetStart(w), bufferedC[w] = 0
      PROVE  MemTypeOK'
  BY <1>10 DEF GetStart, TakeBuffered, setVars
<1>11. ASSUME NEW w \in Watcher, TakeBuffered(w)
      PROVE  MemTypeOK'
  BY <1>11 DEF TakeBuffered, Consume, setVars
<1>12. ASSUME NEW w \in Watcher, GetOffered(w)
      PROVE  MemTypeOK'
  BY <1>12 DEF GetOffered, Consume
<1>13. ASSUME NEW w \in Watcher, GetCancel(w)
      PROVE  MemTypeOK'
  BY <1>13 DEF GetCancel, setVars
<1>14. CASE UNCHANGED memVars
  BY <1>14 DEF memVars
<1>15. QED
  BY <1>1, <1>2, <1>3, <1>4, <1>5, <1>6, <1>7, <1>8, <1>9, <1>10, <1>11, <1>12, <1>13, <1>14 DEF MemNext, SetStep, Consumer, GetStart, GetReceive

LEMMA NextRegistered == ASSUME IInv, MemTypeOK', [MemNext]_memVars PROVE Registered'
<1> USE DEF IInv, Registered, InSet, SyncMode
<1>1. ASSUME SetLock
      PROVE  Registered'
  BY <1>1 DEF SetLock, MemTypeOK
<1>2. ASSUME NEW w \in Watcher, SkipClosed(w)
      PROVE  Registered'
  BY <1>2 DEF SkipClosed, MemTypeOK
<1>3. ASSUME NEW w \in Watcher, UpdateDrain(w)
      PROVE  Registered'
  BY <1>3 DEF UpdateDrain, Keep, Drain, MemTypeOK
<1>4. ASSUME UpdateSend
      PROVE  Registered'
  BY <1>4 DEF UpdateSend, MemTypeOK
<1>5. ASSUME NEW w \in Watcher, UpdateOffer(w)
      PROVE  Registered'
  BY <1>5 DEF UpdateOffer, Keep, MemTypeOK
<1>6. ASSUME OfferClosed
      PROVE  Registered'
  BY <1>6 DEF OfferClosed, MemTypeOK
<1>7. ASSUME SetUnlock
      PROVE  Registered'
  BY <1>7 DEF SetUnlock, MemTypeOK
<1>8. ASSUME NEW w \in Watcher, Watch(w)
      PROVE  Registered'
  BY <1>8 DEF Watch, Survivors, FirstData, setVars, MemTypeOK
<1>9. ASSUME NEW w \in Watcher, CloseWatcher(w)
      PROVE  Registered'
  BY <1>9 DEF CloseWatcher, setVars, MemTypeOK
<1>10. ASSUME NEW w \in Watcher, GetStart(w), bufferedC[w] = 0
      PROVE  Registered'
  BY <1>10 DEF GetStart, TakeBuffered, setVars, MemTypeOK
<1>11. ASSUME NEW w \in Watcher, w \in open, TakeBuffered(w)
      PROVE  Registered'
  BY <1>11 DEF TakeBuffered, Consume, setVars, MemTypeOK
<1>12. ASSUME NEW w \in Watcher, GetOffered(w)
      PROVE  Registered'
  BY <1>12 DEF GetOffered, Consume, MemTypeOK
<1>13. ASSUME NEW w \in Watcher, GetCancel(w)
      PROVE  Registered'
  BY <1>13 DEF GetCancel, setVars, MemTypeOK
<1>14. CASE UNCHANGED memVars
  BY <1>14 DEF memVars
<1>15. QED
  BY <1>1, <1>2, <1>3, <1>4, <1>5, <1>6, <1>7, <1>8, <1>9, <1>10, <1>11, <1>12, <1>13, <1>14 DEF MemNext, SetStep, Consumer, GetStart, GetReceive, Waiting

LEMMA NextUpToDate == ASSUME IInv, MemTypeOK', Registered', [MemNext]_memVars PROVE UpToDate'
<1> USE DEF IInv, Registered, InSet, UpToDate, Given, Behind, SyncMode
<1>1. ASSUME SetLock
      PROVE  UpToDate'
  BY <1>1 DEF SetLock, MemTypeOK
<1>2. ASSUME NEW w \in Watcher, SkipClosed(w)
      PROVE  UpToDate'
  BY <1>2 DEF SkipClosed, MemTypeOK
<1>3. ASSUME NEW w \in Watcher, UpdateDrain(w)
      PROVE  UpToDate'
  BY <1>3 DEF UpdateDrain, Keep, Drain, MemTypeOK
<1>4. ASSUME UpdateSend
      PROVE  UpToDate'
  BY <1>4 DEF UpdateSend, MemTypeOK
<1>5. ASSUME NEW w \in Watcher, UpdateOffer(w)
      PROVE  UpToDate'
  BY <1>5 DEF UpdateOffer, Keep, MemTypeOK
<1>6. ASSUME OfferClosed
      PROVE  UpToDate'
  BY <1>6 DEF OfferClosed, MemTypeOK
<1>7. ASSUME SetUnlock
      PROVE  UpToDate'
  BY <1>7 DEF SetUnlock, MemTypeOK
<1>8. ASSUME NEW w \in Watcher, Watch(w)
      PROVE  UpToDate'
  BY <1>8 DEF Watch, Survivors, FirstData, setVars, MemTypeOK
<1>9. ASSUME NEW w \in Watcher, CloseWatcher(w)
      PROVE  UpToDate'
  BY <1>9 DEF CloseWatcher, setVars, MemTypeOK
<1>10. ASSUME NEW w \in Watcher, GetStart(w), bufferedC[w] = 0
      PROVE  UpToDate'
  BY <1>10 DEF GetStart, TakeBuffered, setVars, MemTypeOK
<1>11. ASSUME NEW w \in Watcher, w \in open, TakeBuffered(w)
      PROVE  UpToDate'
  BY <1>11 DEF TakeBuffered, Consume, setVars, MemTypeOK
<1>12. ASSUME NEW w \in Watcher, GetOffered(w)
      PROVE  UpToDate'
  BY <1>12 DEF GetOffered, Consume, MemTypeOK, Waiting
<1>13. ASSUME NEW w \in Watcher, GetCancel(w)
      PROVE  UpToDate'
  BY <1>13 DEF GetCancel, setVars, MemTypeOK
<1>14. CASE UNCHANGED memVars
  BY <1>14 DEF memVars, MemTypeOK
<1>15. QED
  BY <1>1, <1>2, <1>3, <1>4, <1>5, <1>6, <1>7, <1>8, <1>9, <1>10, <1>11, <1>12, <1>13, <1>14 DEF MemNext, SetStep, Consumer, GetStart, GetReceive, Waiting

LEMMA NextWaiting == ASSUME IInv, MemTypeOK', [MemNext]_memVars PROVE Waiting'
<1> USE DEF IInv, Waiting, SyncMode
<1>1. ASSUME SetLock
      PROVE  Waiting'
  BY <1>1 DEF SetLock, MemTypeOK
<1>2. ASSUME NEW w \in Watcher, SkipClosed(w)
      PROVE  Waiting'
  BY <1>2 DEF SkipClosed, MemTypeOK
<1>3. ASSUME NEW w \in Watcher, UpdateDrain(w)
      PROVE  Waiting'
  BY <1>3 DEF UpdateDrain, Keep, Drain, MemTypeOK
<1>4. ASSUME UpdateSend
      PROVE  Waiting'
  BY <1>4 DEF UpdateSend, MemTypeOK, Registered
<1>5. ASSUME NEW w \in Watcher, UpdateOffer(w)
      PROVE  Waiting'
  BY <1>5 DEF UpdateOffer, Keep, MemTypeOK
<1>6. ASSUME OfferClosed
      PROVE  Waiting'
  BY <1>6 DEF OfferClosed, MemTypeOK
<1>7. ASSUME SetUnlock
      PROVE  Waiting'
  BY <1>7 DEF SetUnlock, MemTypeOK
<1>8. ASSUME NEW w \in Watcher, Watch(w)
      PROVE  Waiting'
  BY <1>8 DEF Watch, Survivors, FirstData, setVars, MemTypeOK
<1>9. ASSUME NEW w \in Watcher, CloseWatcher(w)
      PROVE  Waiting'
  BY <1>9 DEF CloseWatcher, setVars, MemTypeOK
<1>10. ASSUME NEW w \in Watcher, GetStart(w), bufferedC[w] = 0
      PROVE  Waiting'
  BY <1>10 DEF GetStart, TakeBuffered, setVars, MemTypeOK
<1>11. ASSUME NEW w \in Watcher, w \in open, TakeBuffered(w)
      PROVE  Waiting'
  BY <1>11 DEF TakeBuffered, Consume, setVars, MemTypeOK
<1>12. ASSUME NEW w \in Watcher, GetOffered(w)
      PROVE  Waiting'
  BY <1>12 DEF GetOffered, Consume, MemTypeOK
<1>13. ASSUME NEW w \in Watcher, GetCancel(w)
      PROVE  Waiting'
  BY <1>13 DEF GetCancel, setVars, MemTypeOK
<1>14. CASE UNCHANGED memVars
  BY <1>14 DEF memVars, MemTypeOK
<1>15. QED
  BY <1>1, <1>2, <1>3, <1>4, <1>5, <1>6, <1>7, <1>8, <1>9, <1>10, <1>11, <1>12, <1>13, <1>14 DEF MemNext, SetStep, Consumer, GetStart, GetReceive

LEMMA Inductive == IInv /\ [MemNext]_memVars => IInv'
<1> SUFFICES ASSUME IInv, [MemNext]_memVars PROVE IInv'
  OBVIOUS
<1>1. MemTypeOK'
  BY NextType DEF IInv
<1>2. Registered'
  BY <1>1, NextRegistered
<1>3. UpToDate' /\ Waiting'
  BY <1>1, <1>2, NextUpToDate, NextWaiting
<1>4. QED
  BY <1>1, <1>2, <1>3 DEF IInv

LEMMA Initial == MemInit => IInv
  BY DEF MemInit, IInv, MemTypeOK, Registered, UpToDate, Waiting, InSet

LEMMA Invariance == MemSpec => []IInv
  BY Initial, Inductive, PTL DEF MemSpec

(* For any number of watchers and Sets: no update is lost (NoUpdateLost),  *)
(* the send of update never blocks (SendNeverBlocks) and watchers in use   *)
(* stay registered (OpenRegistered).                                       *)
THEOREM Safe == MemSpec => [](NoUpdateLost /\ SendNeverBlocks /\ OpenRegistered)
<1>1. IInv => NoUpdateLost
  <2> SUFFICES ASSUME IInv, NEW w \in open, ~(setPc = "send" /\ cur = w)
               PROVE  seen[w] >= Completed \/ bufferedC[w] >= Completed
    BY DEF NoUpdateLost
  <2>1. /\ inner \in Nat /\ seen[w] \in Nat /\ bufferedC[w] \in Nat
        /\ setPc # "idle" => inner > 0
    BY DEF IInv, MemTypeOK, Registered, InSet
  <2>2. bufferedC[w] = Given(w) \/ seen[w] = Given(w)
    BY DEF IInv, UpToDate
  <2>3. Given(w) >= Completed
    BY <2>1 DEF Given, Behind, InSet, Completed
  <2>4. QED
    BY <2>1, <2>2, <2>3
<1>2. IInv => SendNeverBlocks /\ OpenRegistered
  BY DEF IInv, Waiting, Registered, SendNeverBlocks, OpenRegistered
<1>3. QED
  BY <1>1, <1>2, Invariance, PTL

(* The in-memory Event Value implements the promises of event.Value and    *)
(* event.Watcher (Implements).                                             *)
THEOREM Refinement == MemSpec => Implements
<1>1. MemInit => EV!EInit
  BY DEF MemInit, EV!EInit, Completed
<1>2. ASSUME IInv, IInv', [MemNext]_memVars
      PROVE  [EV!ENext]_(EV!evars)
  <2> USE <1>2 DEF IInv
  <2>0. /\ inner \in Nat
        /\ InSet => inner > 0
    BY DEF MemTypeOK, Registered
  <2>1. CASE SetLock
    <3>1. EV!SetBegins
      BY <2>0, <2>1 DEF SetLock, EV!SetBegins, Completed
    <3>2. QED
      BY <3>1 DEF EV!ENext
  <2>2. CASE SetUnlock
    <3>1. SyncMode => \A w \in open : seen[w] = inner
      BY <2>2 DEF SetUnlock, Registered, UpToDate, Given, Behind, InSet, MemTypeOK
    <3>2. EV!SetReturns
      BY <2>0, <2>2, <3>1 DEF SetUnlock, EV!SetReturns, EV!Sync, SyncMode, Completed, InSet
    <3>3. QED
      BY <3>2 DEF EV!ENext
  <2>3. ASSUME NEW w \in Watcher, Watch(w)
        PROVE  EV!ENext
    <3>1. EV!Watches(w)
      BY <2>3 DEF Watch, setVars, EV!Watches, Completed
    <3>2. QED
      BY <3>1 DEF EV!ENext
  <2>4. ASSUME NEW w \in Watcher, CloseWatcher(w)
        PROVE  EV!ENext
    <3>1. EV!Closes(w)
      BY <2>4 DEF CloseWatcher, setVars, EV!Closes, Completed
    <3>2. QED
      BY <3>1 DEF EV!ENext
  <2>5. ASSUME NEW w \in open, TakeBuffered(w)
        PROVE  EV!ENext
    <3>1. /\ bufferedC[w] \in Completed..inner
          /\ seen[w] < bufferedC[w]
          /\ SyncMode => bufferedC[w] = seen[w] + 1
      <4>1. bufferedC[w] = Given(w) /\ seen[w] < Given(w) /\ (SyncMode => seen[w] + 1 >= Given(w))
        BY <2>5 DEF TakeBuffered, UpToDate
      <4>2. /\ seen[w] \in Nat /\ Given(w) \in Nat /\ Completed \in Nat
            /\ Completed <= Given(w) /\ Given(w) <= inner
        BY <2>0 DEF Given, Behind, InSet, Completed, MemTypeOK
      <4>3. QED
        BY <2>0, <4>1, <4>2
    <3>2. UNCHANGED <<mode, inner, Completed, open>> /\ seen' = [seen EXCEPT ![w] = bufferedC[w]]
      BY <2>5 DEF TakeBuffered, Consume, setVars, Completed
    <3>3. EV!Gets(w)
      BY <3>1, <3>2 DEF EV!Gets, EV!Sync, SyncMode
    <3>4. QED
      BY <3>3 DEF EV!ENext, MemTypeOK
  <2>6. ASSUME NEW w \in Watcher, GetOffered(w)
        PROVE  EV!ENext
    <3>1. /\ w \in open /\ seen[w] + 1 = inner /\ seen[w] < inner
          /\ inner \in Completed..inner
      BY <2>0, <2>6
      DEF GetOffered, UpToDate, Waiting, Registered, Given, Behind, InSet, Completed, MemTypeOK
    <3>2. UNCHANGED <<mode, inner, Completed, open>> /\ seen' = [seen EXCEPT ![w] = inner]
      BY <2>6 DEF GetOffered, Consume, Completed
    <3>3. EV!Gets(w)
      BY <3>1, <3>2 DEF EV!Gets, EV!Sync, SyncMode
    <3>4. QED
      BY <3>3 DEF EV!ENext
  <2>7. ASSUME UNCHANGED <<mode, inner, open, seen>>, setPc' = setPc \/ (setPc # "idle" /\ setPc' # "idle")
        PROVE  UNCHANGED EV!evars
    BY <2>7 DEF EV!evars, Completed
  <2>8. ASSUME NEW w \in Watcher, SkipClosed(w) \/ UpdateDrain(w) \/ UpdateOffer(w)
        PROVE  UNCHANGED EV!evars
    BY <2>7, <2>8 DEF SkipClosed, UpdateDrain, UpdateOffer, Keep
  <2>9. ASSUME UpdateSend \/ OfferClosed
        PROVE  UNCHANGED EV!evars
    BY <2>7, <2>9 DEF UpdateSend, OfferClosed
  <2>10. ASSUME NEW w \in Watcher, GetCancel(w) \/ (GetStart(w) /\ bufferedC[w] = 0)
         PROVE  UNCHANGED EV!evars
    BY <2>7, <2>10 DEF GetCancel, GetStart, TakeBuffered, setVars
  <2>11. CASE UNCHANGED memVars
    BY <2>7, <2>11 DEF memVars
  <2>12. QED
    BY <1>2, <2>1, <2>2, <2>3, <2>4, <2>5, <2>6, <2>8, <2>9, <2>10, <2>11
    DEF MemNext, SetStep, Consumer, GetStart, GetReceive, Waiting
<1>3. QED
  BY <1>1, <1>2, Invariance, PTL DEF MemSpec, Implements, EV!ESpec

=============================================================================
