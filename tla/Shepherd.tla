------------------------------ MODULE Shepherd ------------------------------
(***************************************************************************)
(* The life of a machine under the shepherd: the Initializer starts the    *)
(* agent on it over SSH (cloud/shepherd/manager/initializer.go, the        *)
(* takeover binary), the agent heartbeats to the BMaaS server and installs *)
(* an operating system on request (cloud/agent/agent.go,                   *)
(* cloud/bmaas/server), and the Recoverer reboots a machine whose agent    *)
(* fell silent (recoverer.go).  They meet in the tags of the machine in    *)
(* the BMDB, whose locks are in module Bmdb.                               *)
(*                                                                         *)
(* The server's Heartbeat is three transactions.  Its requests come one at *)
(* a time: the agent has one outstanding for ten seconds at most, which is *)
(* less than it takes to start another agent.  Time is the ageing of the   *)
(* two tags the recovery query compares with now().                        *)
(***************************************************************************)
EXTENDS Bmdb

CONSTANTS
    Keys,           \* agent public keys
    MaxGeneration,  \* bound on installation requests
    MaxMishaps      \* bound on failures outside of the database

ASSUME ShepherdAssumption ==
    /\ Processes = {"AgentStart", "Recovery"}
    /\ None \notin Keys
    /\ MaxGeneration \in Nat
    /\ MaxMishaps \in Nat

VARIABLES
    started,    \* machine_agent_started.agent_public_key
    age,        \* whether agent_started_at is 30 minutes ago
    beat,       \* machine_agent_heartbeat: none, recent or 10 minutes ago
    request,    \* machine_os_installation_request.generation, 0 if no row
    report,     \* machine_os_installation_report, generation 0 if no row
    apk,        \* the key startAgent returned to a worker
    staged,     \* the key of an agent about to be booted
    rebooting,  \* "yes" while the provider has a reboot pending
    agent,      \* the agent that runs on a machine, key None if none does
    installed,  \* the generation of the system on a machine's disk
    rpc,        \* the Heartbeat call of a machine's agent
    mishaps

tagVars == <<started, age, beat, request, report>>
machineVars == <<staged, rebooting, agent, installed>>
vars == <<bmdbVars, tagVars, machineVars, apk, rpc, mishaps>>

NoReport == [gen |-> 0, res |-> "none"]
NoAgent == [key |-> None, report |-> NoReport]
NoCall == [phase |-> "none", key |-> None, report |-> NoReport, request |-> 0]

SInit ==
    /\ Init
    /\ started = [m \in Machines |-> None]
    /\ age = [m \in Machines |-> "new"]
    /\ beat = [m \in Machines |-> "none"]
    /\ request = [m \in Machines |-> 0]
    /\ report = [m \in Machines |-> NoReport]
    /\ apk = [w \in Workers |-> None]
    /\ staged = [m \in Machines |-> None]
    /\ rebooting = [m \in Machines |-> "no"]
    /\ agent = [m \in Machines |-> NoAgent]
    /\ installed = [m \in Machines |-> 0]
    /\ rpc = [m \in Machines |-> NoCall]
    /\ mishaps \in 0..MaxMishaps

Mishap ==
    /\ mishaps < MaxMishaps
    /\ mishaps' = mishaps + 1

(* The agent on the machine is the one the BMDB knows of. *)
Known(m) == started[m] # None /\ agent[m].key = started[m]

-----------------------------------------------------------------------------
(* The queries that choose machines.                                       *)

(* GetMachinesForAgentStart: any report of the generation will do. *)
NeedsStart(m) ==
    /\ started[m] = None
    /\ request[m] = 0 \/ request[m] # report[m].gen

(* GetMachineForAgentRecovery: only a report of success counts. *)
NeedsRecovery(m) ==
    /\ started[m] # None
    /\ request[m] = 0 \/ request[m] # report[m].gen \/ report[m].res # "success"
    /\ (beat[m] = "none" /\ age[m] = "old") \/ beat[m] = "old"

getMachines(w, m) ==
    IF Process[w] = "AgentStart" THEN NeedsStart(m) ELSE NeedsRecovery(m)

Source(w) ==
    /\ \E m \in Machines : getMachines(w, m) /\ Work(w, m)
    /\ UNCHANGED <<tagVars, machineVars, apk, rpc, mishaps>>

-----------------------------------------------------------------------------
(* The Initializer.                                                        *)

(* The takeover binary generates a key; which one makes no difference. *)
NewKey(m) == CHOOSE k \in Keys : k \notin {started[m], staged[m], agent[m].key, rpc[m].key}

(* Neither the agent nor an installed system lets the shepherd log in. *)
Reachable(m) == agent[m].key = None /\ installed[m] = 0

StartAgent(w) ==
    /\ Process[w] = "AgentStart"
    /\ Processed(w)
    /\ Reachable(mach[w])
    /\ staged' = [staged EXCEPT ![mach[w]] = NewKey(mach[w])]
    /\ apk' = [apk EXCEPT ![w] = NewKey(mach[w])]
    /\ UNCHANGED <<tagVars, rebooting, agent, installed, rpc, mishaps>>

StartFails(w) ==
    /\ Process[w] = "AgentStart"
    /\ ProcessFailed(w)
    /\ IF Reachable(mach[w]) THEN Mishap ELSE UNCHANGED mishaps
    /\ UNCHANGED faults
    /\ UNCHANGED <<tagVars, machineVars, apk, rpc>>

(* The agent is staged but its answer does not arrive. *)
StartLost(w) ==
    /\ Process[w] = "AgentStart"
    /\ ProcessFailed(w)
    /\ Fault
    /\ Reachable(mach[w])
    /\ staged' = [staged EXCEPT ![mach[w]] = NewKey(mach[w])]
    /\ UNCHANGED <<tagVars, rebooting, agent, installed, apk, rpc, mishaps>>

FinishStart(w) ==
    /\ Process[w] = "AgentStart"
    /\ Finish(w)
    /\ started' = [started EXCEPT ![mach[w]] = apk[w]]
    /\ age' = [age EXCEPT ![mach[w]] = "new"]
    /\ apk' = [apk EXCEPT ![w] = None]
    /\ UNCHANGED <<beat, request, report, machineVars, rpc, mishaps>>

-----------------------------------------------------------------------------
(* The Recoverer.                                                          *)

(* The provider reboots the machine while the Recoverer waits for it, or   *)
(* takes longer than RebootWaitSeconds. *)
RebootMachine(w) ==
    /\ Process[w] = "Recovery"
    /\ Processed(w)
    /\ \/ /\ agent' = [agent EXCEPT ![mach[w]] = NoAgent]
          /\ staged' = [staged EXCEPT ![mach[w]] = None]
          /\ UNCHANGED <<rebooting, mishaps>>
       \/ /\ Mishap
          /\ rebooting' = [rebooting EXCEPT ![mach[w]] = "yes"]
          /\ UNCHANGED <<agent, staged>>
    /\ UNCHANGED <<tagVars, installed, apk, rpc>>

RebootFails(w) ==
    /\ Process[w] = "Recovery"
    /\ ProcessFailed(w)
    /\ Mishap
    /\ UNCHANGED faults
    /\ UNCHANGED <<tagVars, machineVars, apk, rpc>>

FinishRecoveryFault(w) ==
    /\ Process[w] = "Recovery"
    /\ Finish(w)
    /\ beat' = [beat EXCEPT ![mach[w]] = "none"]
    /\ UNCHANGED <<started, age, request, report, machineVars, apk, rpc, mishaps>>

FinishRecovery(w) ==
    /\ Process[w] = "Recovery"
    /\ Finish(w)
    /\ started' = [started EXCEPT ![mach[w]] = None]
    /\ beat' = [beat EXCEPT ![mach[w]] = "none"]
    /\ UNCHANGED <<age, request, report, machineVars, apk, rpc, mishaps>>

(* The steps of a worker that leave the machine and its tags alone. *)
Bookkeeping(w) ==
    /\ StartSession(w) \/ WorkExpired(w) \/ FinishLost(w) \/ Fail(w) \/ FailLost(w) \/ Crash(w)
    /\ apk' = [v \in Workers |-> IF pc'[v] = "idle" THEN None ELSE apk[v]]
    /\ UNCHANGED <<tagVars, machineVars, rpc, mishaps>>

-----------------------------------------------------------------------------
(* The machine.                                                            *)

Boot(m) ==
    /\ staged[m] # None
    /\ agent' = [agent EXCEPT ![m] = [key |-> staged[m], report |-> NoReport]]
    /\ staged' = [staged EXCEPT ![m] = None]
    /\ UNCHANGED <<bmdbVars, tagVars, rebooting, installed, apk, rpc, mishaps>>

Reboots(m) ==
    /\ rebooting[m] = "yes"
    /\ rebooting' = [rebooting EXCEPT ![m] = "no"]
    /\ agent' = [agent EXCEPT ![m] = NoAgent]
    /\ staged' = [staged EXCEPT ![m] = None]
    /\ UNCHANGED <<bmdbVars, tagVars, installed, apk, rpc, mishaps>>

AgentDies(m) ==
    /\ agent[m].key # None
    /\ Mishap
    /\ agent' = [agent EXCEPT ![m] = NoAgent]
    /\ UNCHANGED <<bmdbVars, tagVars, staged, rebooting, installed, apk, rpc>>

(* An agent boots within seconds and heartbeats every 30 seconds: only a   *)
(* mishap lets the tags of one that lives grow old. *)
Ages(m) ==
    /\ \/ /\ started[m] # None /\ age[m] = "new"
          /\ age' = [age EXCEPT ![m] = "old"]
          /\ UNCHANGED beat
       \/ /\ beat[m] = "recent"
          /\ beat' = [beat EXCEPT ![m] = "old"]
          /\ UNCHANGED age
    /\ IF Known(m) \/ staged[m] = started[m] THEN Mishap ELSE UNCHANGED mishaps
    /\ UNCHANGED <<bmdbVars, started, request, report, machineVars, apk, rpc>>

(* An operator asks for an installation. *)
RequestInstallation(m) ==
    /\ request[m] < MaxGeneration
    /\ request' = [request EXCEPT ![m] = @ + 1]
    /\ UNCHANGED <<bmdbVars, started, age, beat, report, machineVars, apk, rpc, mishaps>>

-----------------------------------------------------------------------------
(* The agent and the server's Heartbeat.                                   *)

(* AuthenticateAgentConnection.  An agent the BMDB does not know of is     *)
(* turned away and calls again. *)
Authenticate(m) ==
    /\ Known(m)
    /\ rpc[m].phase = "none"
    /\ rpc' = [rpc EXCEPT ![m] = [phase |-> "write", key |-> agent[m].key,
                                  report |-> agent[m].report, request |-> 0]]
    /\ UNCHANGED <<bmdbVars, tagVars, machineVars, apk, mishaps>>

(* GetExactMachineForOSInstallation, with the report just stored. *)
PendingFault(req, rep) == req

Pending(req, rep) == IF req # rep.gen THEN req ELSE 0

(* The second transaction stores the report, if there is one, and the time *)
(* of the heartbeat.  The third reads the pending request, and if it fails *)
(* the reply has none; whatever comes between the two may as well come     *)
(* before or after both. *)
StoreHeartbeat(m) ==
    /\ rpc[m].phase = "write"
    /\ report' = [report EXCEPT ![m] = IF rpc[m].report = NoReport THEN @ ELSE rpc[m].report]
    /\ beat' = [beat EXCEPT ![m] = "recent"]
    /\ \E pending \in {Pending(request[m], report'[m]), 0} :
         /\ rpc' = [rpc EXCEPT ![m] = [phase |-> "reply", key |-> @.key, report |-> @.report,
                                       request |-> pending]]
         /\ IF pending # Pending(request[m], report'[m]) THEN Mishap ELSE UNCHANGED mishaps
    /\ UNCHANGED <<bmdbVars, started, age, request, machineVars, apk>>

(* The call fails at the server, on the way, or by its timeout, or its     *)
(* agent is gone. *)
CallFails(m) ==
    /\ rpc[m].phase # "none"
    /\ IF rpc[m].key = agent[m].key THEN Mishap ELSE UNCHANGED mishaps
    /\ rpc' = [rpc EXCEPT ![m] = NoCall]
    /\ UNCHANGED <<bmdbVars, tagVars, machineVars, apk>>

(* The agent installs what it is asked to, unless it has a report: then it *)
(* has delivered it and reboots.  installationGeneration stays zero and    *)
(* keeps it from nothing. *)
Receive(m) ==
    /\ rpc[m].phase = "reply"
    /\ rpc[m].key = agent[m].key
    /\ rpc' = [rpc EXCEPT ![m] = NoCall]
    /\ \/ /\ agent[m].report # NoReport
          /\ agent' = [agent EXCEPT ![m] = NoAgent]
          /\ UNCHANGED installed
       \/ /\ agent[m].report = NoReport
          /\ rpc[m].request # 0
          /\ \E res \in {"success", "error"} :
               /\ agent' = [agent EXCEPT ![m].report = [gen |-> rpc[m].request, res |-> res]]
               /\ installed' = [installed EXCEPT ![m] = IF res = "success" THEN rpc[m].request ELSE @]
       \/ /\ agent[m].report = NoReport
          /\ rpc[m].request = 0
          /\ UNCHANGED <<agent, installed>>
    /\ UNCHANGED <<bmdbVars, tagVars, staged, rebooting, apk, mishaps>>

-----------------------------------------------------------------------------
SessionTime ==
    /\ SessionStep
    /\ UNCHANGED <<tagVars, machineVars, apk, rpc, mishaps>>

BackoffTime ==
    /\ \E m \in Machines, p \in Processes : BackoffEnds(m, p)
    /\ UNCHANGED <<tagVars, machineVars, apk, rpc, mishaps>>

Loop(w) ==
    \/ Bookkeeping(w)
    \/ Source(w)
    \/ StartAgent(w)
    \/ StartFails(w)
    \/ StartLost(w)
    \/ FinishStart(w)
    \/ RebootMachine(w)
    \/ RebootFails(w)
    \/ FinishRecovery(w)

MachineStep(m) == Boot(m) \/ Reboots(m) \/ AgentDies(m) \/ Ages(m) \/ RequestInstallation(m)

CallStep(m) ==
    \/ Authenticate(m)
    \/ StoreHeartbeat(m)
    \/ CallFails(m)
    \/ Receive(m)

SNext ==
    \/ SessionTime
    \/ BackoffTime
    \/ \E w \in Workers : Loop(w)
    \/ \E m \in Machines : MachineStep(m) \/ CallStep(m)

SSpec == SInit /\ [][SNext]_vars

(* Workers, timers, machines and calls go on as long as they can; nothing  *)
(* forces an operator, a mishap or a fault. *)
SFairness ==
    /\ WF_vars(BackoffTime)
    /\ \A w \in Workers : WF_vars(Loop(w))
    /\ \A m \in Machines :
         /\ WF_vars(Boot(m))
         /\ WF_vars(Reboots(m))
         /\ WF_vars(Ages(m))
         /\ WF_vars(CallStep(m))

SFairSpec == SSpec /\ SFairness

-----------------------------------------------------------------------------
(* Properties.                                                             *)

ReportType == [gen : 0..MaxGeneration, res : {"none", "success", "error"}]

ShepherdTypeOK ==
    /\ TypeOK
    /\ started \in [Machines -> Keys \cup {None}]
    /\ age \in [Machines -> {"new", "old"}]
    /\ beat \in [Machines -> {"none", "recent", "old"}]
    /\ request \in [Machines -> 0..MaxGeneration]
    /\ report \in [Machines -> ReportType]
    /\ apk \in [Workers -> Keys \cup {None}]
    /\ \A w \in Workers : (apk[w] # None) = (pc[w] = "finish" /\ Process[w] = "AgentStart")
    /\ staged \in [Machines -> Keys \cup {None}]
    /\ rebooting \in [Machines -> {"yes", "no"}]
    /\ agent \in [Machines -> [key : Keys \cup {None}, report : ReportType]]
    /\ installed \in [Machines -> 0..MaxGeneration]
    /\ rpc \in [Machines -> [phase : {"none", "write", "reply"},
                             key : Keys \cup {None}, report : ReportType,
                             request : 0..MaxGeneration]]
    /\ mishaps \in 0..MaxMishaps

(* An agent does not start an installation whose outcome the BMDB already  *)
(* has, however agents, reboots and lost calls follow on each other: the   *)
(* generation in the report keeps the request from being handed out again. *)
NoReinstall ==
    [][\A m \in Machines :
          agent[m].report = NoReport /\ agent'[m].report # NoReport =>
              agent'[m].report.gen # report[m].gen]_vars

InstallationFailed(m) == request[m] = report[m].gen /\ report[m].res = "error"

(* As long as no transaction fails, a machine again and again has an agent *)
(* the BMDB knows of, although agents die and reboots come late, until its *)
(* installation has succeeded or failed.                                   *)
AgentsStart ==
    faults = MaxFaults =>
        \A m \in Machines :
            []<>(Known(m) \/ installed[m] # 0 \/ InstallationFailed(m))

=============================================================================
