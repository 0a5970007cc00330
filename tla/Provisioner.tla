---------------------------- MODULE Provisioner ----------------------------
(***************************************************************************)
(* How hardware reservations become machines of the bare metal database:   *)
(* the provisioner's control loop (shepherd/manager/provisioner.go), the   *)
(* Equinix provider below it (provider/equinix/provider.go, with the       *)
(* sinbin of lib/sinbin) and the updater that copies device states into    *)
(* the database (updater.go).  The Equinix API and the database            *)
(* transactions may fail; the process may restart.                         *)
(***************************************************************************)
EXTENDS Integers, FiniteSets, Sequences, SequencesExt, FiniteSetsExt

CONSTANTS
  Reservation,     \* hardware reservations of the project
  Device,          \* device IDs Equinix can assign
  MaxMachines,     \* ProvisionerConfig.MaxCount, 0 for no limit
  ChunkSize,       \* ProvisionerConfig.ChunkSize
  MaxProvFaults    \* bound on failures, restarts and outside interventions

VARIABLES
  eqDevices,   \* Equinix's devices: Device -> [rsv, state], on the existing ones
  taken,       \* reservations used outside of the project's devices
  provided,    \* machine_provided: Device -> provider_status, on the recorded ones
  rsvCache,    \* <<>> or <<equinixProvider.reservationCache>>
  badRsv,      \* equinixProvider.badReservations
  inProvider,  \* <<>> or the provider listing: <<[used, free]>>
  inBMDB,      \* <<>> or the database listing
  toProvision, \* the reservations reconcile still has to create
  provFaults

provVars == <<eqDevices, taken, provided, rsvCache, badRsv, inProvider, inBMDB, toProvision,
              provFaults>>

eqVars == <<eqDevices, taken>>
loopVars == <<inProvider, inBMDB, toProvision>>

\* The states that reconcile or the updater tell apart; "inactive" and the others
\* that are neither failed nor deleted are like "active".
DeviceStates == {"queued", "active", "failed"}

\* Updater: the status recorded for a device state.
StatusOf(state) ==
  CASE state = "active" -> "running"
    [] state = "failed" -> "failed_permanent"
    [] state = "queued" -> "provisioning"

ProvisionerInit ==
  /\ eqDevices = <<>> /\ taken = {} /\ provided = <<>>
  /\ rsvCache = <<>> /\ badRsv = {}
  /\ inProvider = <<>> /\ inBMDB = <<>> /\ toProvision = <<>>
  /\ provFaults = 0

Fault ==
  /\ provFaults < MaxProvFaults
  /\ provFaults' = provFaults + 1

UsedRsv == {eqDevices[d].rsv : d \in DOMAIN eqDevices} \cup taken

-----------------------------------------------------------------------------
(* runInSession: both sides are listed in parallel, in either order.       *)
\* listReservations, then managedDevices.  The clock decides whether a cache
\* that was filled once is still used.
Available == (Reservation \ UsedRsv) \ badRsv

ListInProvider ==
  /\ toProvision = <<>> /\ inProvider = <<>>
  /\ rsvCache' \in {rsvCache, <<Available>>} \ {<<>>}
  /\ inProvider' = <<[used |-> [d \in DOMAIN eqDevices |-> eqDevices[d].state], free |-> rsvCache'[1]]>>
  /\ UNCHANGED <<provided, badRsv, inBMDB, toProvision, provFaults>>
  /\ UNCHANGED eqVars

ListInBMDB ==
  /\ toProvision = <<>> /\ inBMDB = <<>>
  /\ inBMDB' = <<provided>>
  /\ UNCHANGED <<provided, rsvCache, badRsv, inProvider, toProvision, provFaults>>
  /\ UNCHANGED eqVars

\* Either listing fails: the iteration is over.
ListingFails ==
  /\ toProvision = <<>>
  /\ Fault
  /\ inProvider' = <<>> /\ inBMDB' = <<>>
  /\ UNCHANGED <<provided, rsvCache, badRsv, toProvision>>
  /\ UNCHANGED eqVars

\* isBadBadNotGood, over both listings.
Discrepancy(inUse, recorded) ==
  \/ \E d \in DOMAIN inUse : d \notin DOMAIN recorded /\ inUse[d] # "failed"
  \/ \E d \in DOMAIN recorded : d \notin DOMAIN inUse /\ recorded[d] # "failed_permanent"

\* Fault: the limit applies to each iteration, not to all machines.
NeededFault(nmanaged) == MaxMachines

Needed(nmanaged) == MaxMachines - nmanaged

\* reconcile: the provider lists the reservations in some order.
Reconcile ==
  /\ inProvider # <<>> /\ inBMDB # <<>> /\ toProvision = <<>>
  /\ inProvider' = <<>> /\ inBMDB' = <<>>
  /\ LET inUse == inProvider[1].used
         nmanaged == Cardinality(DOMAIN inUse)
         limit == IF MaxMachines = 0 THEN ChunkSize ELSE Min({Needed(nmanaged), ChunkSize})
     IN IF \/ Discrepancy(inUse, inBMDB[1])
           \/ MaxMachines # 0 /\ MaxMachines <= nmanaged
        THEN UNCHANGED toProvision
        ELSE \E order \in SetToSeqs(inProvider[1].free) :
               toProvision' = SubSeq(order, 1, Min({limit, Len(order)}))
  /\ UNCHANGED <<provided, rsvCache, badRsv, provFaults>>
  /\ UNCHANGED eqVars

(* CreateMachine for the next reservation.  CreateDevice and the           *)
(* transaction of assimilate may fail, and a failed call may have taken    *)
(* effect; any failure puts the reservation into the sinbin.               *)
\* Device IDs are assigned in order: their names mean nothing.
Unused(d) ==
  /\ d \notin DOMAIN eqDevices \cup DOMAIN provided
  /\ \A e \in Device : e < d => e \in DOMAIN eqDevices \cup DOMAIN provided

NewDevice(d, r) == eqDevices' = eqDevices @@ (d :> [rsv |-> r, state |-> "queued"])

WithoutRsv(r) == <<rsvCache[1] \ {r}>>

CreateMachine(d) ==
  LET r == Head(toProvision) IN
  /\ toProvision # <<>>
  /\ r \notin UsedRsv /\ Unused(d)
  /\ NewDevice(d, r)
  /\ provided' = provided @@ (d :> "null")
  /\ rsvCache' = WithoutRsv(r)
  /\ toProvision' = Tail(toProvision)
  /\ UNCHANGED <<taken, badRsv, inProvider, inBMDB, provFaults>>


CreateFails(d) ==
  LET r == Head(toProvision) IN
  /\ toProvision # <<>>
  /\ toProvision' = Tail(toProvision)
  /\ badRsv' = badRsv \cup {r}
  /\ \/ r \in UsedRsv /\ UNCHANGED <<eqDevices, rsvCache, provFaults>>
     \/ Fault /\ UNCHANGED <<eqDevices, rsvCache>>
     \/ /\ r \notin UsedRsv /\ Unused(d)
        /\ Fault
        /\ NewDevice(d, r)
        /\ rsvCache' \in {rsvCache, WithoutRsv(r)}
  /\ UNCHANGED <<taken, provided, inProvider, inBMDB>>


-----------------------------------------------------------------------------
(* Updater.runInSession, for one recorded machine: the sinbin and the      *)
(* clock decide in which iterations it is looked at.  A device the API     *)
(* does not know is skipped; applyUpdate tells a new status, and only the  *)
(* updater writes one, so the record it fetched before is current.         *)
UpdaterCheck(d) ==
  /\ d \in DOMAIN provided \cap DOMAIN eqDevices
  /\ \/ provided' = [provided EXCEPT ![d] = StatusOf(eqDevices[d].state)] /\ UNCHANGED provFaults
     \/ Fault /\ UNCHANGED provided
  /\ UNCHANGED <<rsvCache, badRsv>>
  /\ UNCHANGED eqVars /\ UNCHANGED loopVars

-----------------------------------------------------------------------------
(* Time and the outside world.                                             *)
SinbinExpires(r) ==
  /\ r \in badRsv
  /\ badRsv' = badRsv \ {r}
  /\ UNCHANGED <<provided, rsvCache, provFaults>>
  /\ UNCHANGED eqVars /\ UNCHANGED loopVars

DeviceChanges(d, state) ==
  /\ d \in DOMAIN eqDevices
  /\ <<eqDevices[d].state, state>> \in {<<"queued", "active">>, <<"queued", "failed">>}
  /\ eqDevices' = [eqDevices EXCEPT ![d].state = state]
  /\ UNCHANGED <<taken, provided, rsvCache, badRsv, provFaults>>
  /\ UNCHANGED loopVars

DeviceDeleted(d) ==
  /\ d \in DOMAIN eqDevices /\ Fault
  /\ eqDevices' = Restrict(eqDevices, DOMAIN eqDevices \ {d})
  /\ UNCHANGED <<taken, provided, rsvCache, badRsv>>
  /\ UNCHANGED loopVars

ReservationTaken(r) ==
  /\ r \notin UsedRsv /\ Fault
  /\ taken' = taken \cup {r}
  /\ UNCHANGED <<eqDevices, provided, rsvCache, badRsv>>
  /\ UNCHANGED loopVars

\* The process dies, perhaps between CreateDevice and assimilate, and starts anew.
Restart ==
  /\ Fault
  /\ \/ UNCHANGED eqDevices
     \/ /\ toProvision # <<>> /\ Head(toProvision) \notin UsedRsv
        /\ \E d \in Device : Unused(d) /\ NewDevice(d, Head(toProvision))
  /\ rsvCache' = <<>> /\ badRsv' = {}
  /\ inProvider' = <<>> /\ inBMDB' = <<>> /\ toProvision' = <<>>
  /\ UNCHANGED <<taken, provided>>

ProvisionerNext ==
  \/ ListInProvider \/ ListInBMDB \/ ListingFails \/ Reconcile
  \/ \E d \in Device : CreateMachine(d) \/ CreateFails(d) \/ DeviceDeleted(d) \/ UpdaterCheck(d)
  \/ Restart
  \/ \E d \in Device, s \in DeviceStates : DeviceChanges(d, s)
  \/ \E r \in Reservation : ReservationTaken(r) \/ SinbinExpires(r)

ProvisionerSpec == ProvisionerInit /\ [][ProvisionerNext]_provVars

-----------------------------------------------------------------------------
ProvisionerTypeOK ==
  /\ DOMAIN eqDevices \subseteq Device /\ DOMAIN provided \subseteq Device
  /\ taken \subseteq Reservation /\ badRsv \subseteq Reservation
  /\ \A k \in DOMAIN rsvCache : rsvCache[k] \subseteq Reservation
  /\ provFaults \in 0 .. MaxProvFaults

(* However calls fail and the process restarts, there are never more       *)
(* devices than the configured maximum, counting those a failed call left  *)
(* behind without a record, nor will there be when the rest of the round   *)
(* has been created; and no reservation backs two of them.                 *)
ProvisionerSound ==
  /\ MaxMachines # 0 => Cardinality(DOMAIN eqDevices) <= MaxMachines
  /\ \A d, e \in DOMAIN eqDevices : d # e => eqDevices[d].rsv # eqDevices[e].rsv
  /\ (toProvision # <<>> /\ MaxMachines # 0) =>
       Cardinality(DOMAIN eqDevices) + Len(toProvision) <= MaxMachines

(* The sinbin exists "just so that we don't repeatedly try to provision    *)
(* the same known bad machines" (provider.go): a penalized reservation is  *)
(* not chosen again.  The cached listing is not filtered.                  *)
PenalizedNotRetried ==
  [][(toProvision = <<>> /\ toProvision' # <<>>) => Range(toProvision') \cap badRsv = {}]_provVars
=============================================================================
