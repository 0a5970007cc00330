------------------------------- MODULE Update -------------------------------
(***************************************************************************)
(* A/B updates of a node: the update service (metropolis/node/core/update),*)
(* the UpdateNode handler that drives it (metropolis/node/core/mgmt) and   *)
(* the loader that picks a slot at every boot (node/core/abloader).        *)
(*                                                                         *)
(* A file or partition that is being overwritten is "torn" until the copy  *)
(* ends.  What was written and not yet written back may be lost with the   *)
(* power; an activation unmounts the ESP and syncs first.                  *)
(***************************************************************************)
EXTENDS Naturals

CONSTANTS
    Version,  \* versions of the system, as strings
    Installed,\* the version that was installed first
    Broken,   \* versions that do not come up, Installed is not one of them
    MaxLosses \* bound on the losses of power and failed writes

VARIABLES
    slot,      \* what the system partition and the boot file of a slot hold
    stateFile, \* loader_state.pb: its two fields, or that it is missing
    preloader, \* the A/B loader on the ESP: "current" or "stale"
    running,   \* the slot that is up, "none" while the node is down
    marking,   \* MarkBootSuccessful in this boot: "no", "set", "truncated", "done"
    install,   \* the InstallBundle that holds updateMutex
    staged,    \* the kernel that is staged for kexec: a slot or "none"
    activation,\* the goroutine of an UpdateNode that has returned
    dirty,     \* what was written and not written back
    promised,  \* the slot that the last successful install set to boot next
    unproven,  \* "yes" once an install began in a boot that the loader did not have as active
    losses     \* losses of power and failed writes so far

updateVars == <<slot, stateFile, preloader, running, marking, install, staged, activation,
                dirty, promised, unproven, losses>>

Slots == {"A", "B"}

(* Slot.Other *)
Other(s) == IF s = "A" THEN "B" ELSE IF s = "B" THEN "A" ELSE "none"

NoInstall == [step |-> "idle", version |-> Installed, kexec |-> FALSE]

LoaderData(active, next) == [active |-> active, next |-> next]

NoState == LoaderData("missing", "none")

Empty == LoaderData("none", "none")

(* Create of osimage puts the version into slot A and the loader on the    *)
(* ESP; slot B is allocated and empty, and there is no state file.         *)
UpdateInit ==
    /\ slot = [s \in Slots |-> IF s = "A" THEN [system |-> Installed, boot |-> Installed]
                               ELSE [system |-> "torn", boot |-> "torn"]]
    /\ stateFile = NoState
    /\ preloader = "stale"
    /\ running = "none"
    /\ marking = "no"
    /\ install = NoInstall
    /\ staged = "none"
    /\ activation = "none"
    /\ dirty = {}
    /\ promised = "none"
    /\ unproven = "no"
    /\ losses = 0

-----------------------------------------------------------------------------
(* The loader *)

(* read_loader_state: an unreadable file is slot A, an empty one decodes   *)
(* to fields that are not set.                                             *)
ReadState == IF stateFile = NoState THEN LoaderData("A", "none") ELSE stateFile

(* load_slot_image fails for a file that is no complete EFI executable. *)
Loadable(s) == slot[s].boot # "torn"

(* The slot that is loaded for the contents d of the state file. *)
BootSlot(d) ==
    LET wanted == IF d.next # "none" THEN d.next ELSE d.active
        valid  == IF wanted \in Slots THEN wanted ELSE "A"
    IN  IF Loadable(valid) THEN valid
        ELSE IF Loadable(Other(valid)) THEN Other(valid) ELSE "none"

(* The next slot is used once; what is left for the boot after this one. *)
ClearedFault(d) == d

Cleared(d) == [d EXCEPT !.next = "none"]

(* The command line of the boot file names the hash of the system that it  *)
(* belongs to.                                                             *)
Works(s) ==
    /\ s \in Slots
    /\ slot[s].boot \in Version \ Broken
    /\ slot[s].system = slot[s].boot

StartUp(s) ==
    /\ running' = IF Works(s) THEN s ELSE "none"
    /\ marking' = "no"
    /\ promised' = "none"

(* A slot that does not come up leaves the node down, to be started again. *)
LoaderMain ==
    /\ running = "none"
    /\ stateFile' = IF ReadState.next # "none" THEN Cleared(ReadState) ELSE stateFile
    /\ StartUp(BootSlot(ReadState))
    /\ UNCHANGED <<slot, preloader, install, staged, activation, dirty, unproven, losses>>

(* The power fails while the state file is replaced. *)
LoaderLoss ==
    /\ running = "none"
    /\ losses < MaxLosses
    /\ ReadState.next # "none"
    /\ losses' = losses + 1
    /\ stateFile' \in {NoState, Empty}
    /\ promised' = "none"
    /\ UNCHANGED <<slot, preloader, running, marking, install, staged, activation, dirty,
                   unproven>>

-----------------------------------------------------------------------------
(* MarkBootSuccessful, called once a node has joined *)

(* os.WriteFile truncates the file, and writes from its start. *)
Truncate ==
    /\ stateFile' = Empty
    /\ dirty' = dirty \cup {"state"}

(* The fix of the boot entries is in EfiBoot.  A preloader that is not     *)
(* current is replaced by a rename; a failure to do so is only logged.     *)
MarkRead ==
    /\ running # "none"
    /\ marking = "no"
    /\ preloader' \in {preloader, "current"}
    /\ marking' = IF stateFile = NoState \/ ReadState.active # running THEN "set" ELSE "done"
    /\ UNCHANGED <<slot, stateFile, running, install, staged, activation, dirty, promised,
                   unproven, losses>>

MarkTruncates ==
    /\ running # "none"
    /\ marking = "set"
    /\ Truncate
    /\ marking' = "truncated"
    /\ UNCHANGED <<slot, preloader, running, install, staged, activation, promised, unproven,
                   losses>>

(* The two bytes of the active slot leave a next slot behind them that an  *)
(* install has written since the file was truncated.                       *)
MarkWrites ==
    /\ running # "none"
    /\ marking = "truncated"
    /\ stateFile' = LoaderData(running, ReadState.next)
    /\ marking' = "done"
    /\ dirty' = dirty \cup {"state"}
    /\ UNCHANGED <<slot, preloader, running, install, staged, activation, promised, unproven,
                   losses>>

MarkFails ==
    /\ running # "none"
    /\ marking \in {"set", "truncated"}
    /\ losses < MaxLosses
    /\ losses' = losses + 1
    /\ marking' = "done"
    /\ UNCHANGED <<slot, stateFile, preloader, running, install, staged, activation, dirty,
                   promised, unproven>>

-----------------------------------------------------------------------------
(* UpdateNode and InstallBundle; updateMutex admits one at a time *)

Installing(s) == running # "none" /\ install.step = s

AtStep(s) == install' = [install EXCEPT !.step = s]

TargetFault == running

Target == Other(running)

(* The bundle is downloaded and opened.  A download that fails, for good   *)
(* or after retries that each begin with an empty buffer, changes nothing. *)
UpdateNode(v, kexec) ==
    /\ Installing("idle")
    /\ install' = [step |-> "system", version |-> v, kexec |-> kexec]
    /\ promised' = "none"
    /\ unproven' = IF BootSlot(Cleared(ReadState)) # running THEN "yes" ELSE unproven
    /\ UNCHANGED <<slot, stateFile, preloader, running, marking, staged, activation, dirty,
                   losses>>

OpenSystem ==
    /\ Installing("system")
    /\ slot' = [slot EXCEPT ![Target].system = "torn"]
    /\ AtStep("systemCopy")
    /\ UNCHANGED <<stateFile, preloader, running, marking, staged, activation, dirty, promised,
                   unproven, losses>>

CopySystem ==
    /\ Installing("systemCopy")
    /\ slot' = [slot EXCEPT ![Target].system = install.version]
    /\ dirty' = dirty \cup {"system"}
    /\ AtStep("boot")
    /\ UNCHANGED <<stateFile, preloader, running, marking, staged, activation, promised,
                   unproven, losses>>

CreateBootFile ==
    /\ Installing("boot")
    /\ slot' = [slot EXCEPT ![Target].boot = "torn"]
    /\ AtStep("bootCopy")
    /\ UNCHANGED <<stateFile, preloader, running, marking, staged, activation, dirty, promised,
                   unproven, losses>>

CopyBootFile ==
    /\ Installing("bootCopy")
    /\ slot' = [slot EXCEPT ![Target].boot = install.version]
    /\ dirty' = dirty \cup {"boot"}
    /\ AtStep(IF install.kexec THEN "stage" ELSE "state")
    /\ UNCHANGED <<stateFile, preloader, running, marking, staged, activation, promised,
                   unproven, losses>>

(* The handler returns, and leaves a goroutine that activates the update   *)
(* in ten seconds; no mutex holds off another UpdateNode until then.       *)
ReturnTo(mode) ==
    /\ install' = NoInstall
    /\ activation' \in IF mode = "reboot" THEN {activation, "reboot"} ELSE {"kexec"}

stageKexec ==
    /\ Installing("stage")
    /\ staged' = Target
    /\ ReturnTo("kexec")
    /\ UNCHANGED <<slot, stateFile, preloader, running, marking, dirty, promised, unproven,
                   losses>>

InstallTruncates ==
    /\ Installing("state")
    /\ Truncate
    /\ AtStep("stateWrite")
    /\ UNCHANGED <<slot, preloader, running, marking, staged, activation, promised, unproven,
                   losses>>

(* A MarkBootSuccessful that has read the state and not written it yet     *)
(* will undo this.                                                         *)
InstallWrites ==
    /\ Installing("stateWrite")
    /\ stateFile' = LoaderData(running, Target)
    /\ dirty' = dirty \cup {"state"}
    /\ promised' = IF marking = "set" THEN "none" ELSE Target
    /\ ReturnTo("reboot")
    /\ UNCHANGED <<slot, preloader, running, marking, staged, unproven, losses>>

(* A copy, the staging or a write fails. *)
InstallFails ==
    /\ running # "none"
    /\ install.step # "idle"
    /\ losses < MaxLosses
    /\ losses' = losses + 1
    /\ install' = NoInstall
    /\ UNCHANGED <<slot, stateFile, preloader, running, marking, staged, activation, dirty,
                   promised, unproven>>

-----------------------------------------------------------------------------

Volatile ==
    /\ install' = NoInstall
    /\ staged' = "none"
    /\ activation' = "none"
    /\ dirty' = {}

(* The goroutine syncs and restarts the machine or enters the staged       *)
(* kernel, whatever another UpdateNode does meanwhile.                     *)
Activate ==
    /\ running # "none"
    /\ activation # "none"
    /\ Volatile
    /\ \/ /\ activation = "reboot"
          /\ running' = "none"
          /\ UNCHANGED <<marking, promised>>
       \/ /\ activation = "kexec"
          /\ StartUp(staged)
    /\ UNCHANGED <<slot, stateFile, preloader, unproven, losses>>

Writeback ==
    /\ dirty # {}
    /\ dirty' = {}
    /\ UNCHANGED <<slot, stateFile, preloader, running, marking, install, staged, activation,
                   promised, unproven, losses>>

(* Any part of what was not written back is lost with the power. *)
PowerLoss ==
    /\ running # "none"
    /\ losses < MaxLosses
    /\ losses' = losses + 1
    /\ running' = "none"
    /\ Volatile
    /\ \E lost \in SUBSET dirty :
         /\ slot' = [slot EXCEPT
                ![Target].system = IF "system" \in lost THEN "torn" ELSE @,
                ![Target].boot   = IF "boot" \in lost THEN "torn" ELSE @]
         /\ stateFile' = IF "state" \in lost THEN Empty ELSE stateFile
         /\ promised' = IF lost = {} THEN promised ELSE "none"
    /\ UNCHANGED <<preloader, marking, unproven>>

-----------------------------------------------------------------------------

UpdateNext ==
    \/ LoaderMain
    \/ LoaderLoss
    \/ MarkRead
    \/ MarkTruncates
    \/ MarkWrites
    \/ MarkFails
    \/ \E v \in Version, kexec \in BOOLEAN : UpdateNode(v, kexec)
    \/ OpenSystem
    \/ CopySystem
    \/ CreateBootFile
    \/ CopyBootFile
    \/ stageKexec
    \/ InstallTruncates
    \/ InstallWrites
    \/ InstallFails
    \/ Activate
    \/ Writeback
    \/ PowerLoss

-----------------------------------------------------------------------------

Held == Version \cup {"torn"}

(* Every variable has its type. *)
UpdateTypeOK ==
    /\ slot \in [Slots -> [system : Held, boot : Held]]
    /\ stateFile \in [active : Slots \cup {"none", "missing"}, next : Slots \cup {"none"}]
    /\ preloader \in {"current", "stale"}
    /\ running \in Slots \cup {"none"}
    /\ marking \in {"no", "set", "truncated", "done"}
    /\ install.step \in {"idle", "system", "systemCopy", "boot", "bootCopy", "stage", "state",
                         "stateWrite"}
    /\ staged \in Slots \cup {"none"}
    /\ activation \in {"none", "reboot", "kexec"}
    /\ dirty \subseteq {"system", "boot", "state"}

(* Wherever the power fails, the node comes up again by itself: in at most *)
(* two boots the loader reaches a slot that works.  With a state file that *)
(* was lost while it was written this is only so where slot A works, and a *)
(* boot that was never marked may be overwriting the slot that the loader  *)
(* still has as active.                                                    *)
Recoverable ==
    LET d == ReadState
    IN  Works(BootSlot(d)) \/ Works(BootSlot(Cleared(d)))

(* "If an issue occurs during boot and so this function is not called the  *)
(* old version will be started again on next boot": an update that never   *)
(* comes up does not take the node down, whatever was interrupted. It does *)
(* not hold: a state file lost in the middle of os.WriteFile selects slot  *)
(* A, which may hold the update.                                           *)
UpdateRecovers == unproven = "no" /\ running = "none" => Recoverable

(* As long as the state file was not torn, an update that never comes up   *)
(* does not take the node down, whatever was interrupted                   *)
(* (MarkBootSuccessful: "the old version will be started again on next     *)
(* boot"); and a slot that an install has promised ("a reboot boots into   *)
(* the new slot") is the one that the loader takes.                        *)
UpdateSound ==
    /\ unproven = "no" /\ stateFile # Empty /\ (stateFile # NoState \/ losses = 0)
         => Recoverable
    /\ promised # "none" => BootSlot(ReadState) = promised

=============================================================================
