------------------------------ MODULE Installer ------------------------------
(***************************************************************************)
(* The installer of internal/automation: `service install` writes the      *)
(* profile and three systemd units and enables them, `service uninstall`   *)
(* takes them away, both under a lock of their own.  A process of Proc is  *)
(* one invocation; each step is one file operation or one systemctl        *)
(* command.  The sysctl part of `service install` is module Manager.       *)
(***************************************************************************)
EXTENDS Naturals

CONSTANTS
  Proc,       \* invocations of sshappy-tune running as root
  Free,       \* the automation lock is not locked
  Profiles,   \* contents of profile.json written by this tool
  UnitText,   \* the content Install gives a unit
  OldUnit,    \* a unit marked as ours, written by another release
  Absent,     \* a file that does not exist
  Foreign,    \* a regular file without the mark of this tool
  Irregular,  \* a directory or a device
  Faults,     \* the kinds of fault that may occur, a subset of FaultKinds
  MaxFaults,  \* bound on the number of faults in a behaviour
  MaxOps      \* bound on the number of commands started in a behaviour

(* "cmd": systemctl fails.  "fs": a file operation fails.  "cancel": SIGINT *)
(* or SIGTERM cancels the context.  "kill": a process dies.  "reboot": the  *)
(* host restarts.  "interfere": the administrator disables a unit or        *)
(* replaces a file, at any time: the lock binds only this tool.             *)
FaultKinds == {"cmd", "fs", "cancel", "kill", "reboot", "interfere"}

ASSUME InstallerFaults == Faults \subseteq FaultKinds /\ MaxFaults \in Nat /\ MaxOps \in Nat
ASSUME InstallerValues ==
  /\ Profiles # {}
  /\ Free \notin Proc
  /\ UnitText # OldUnit
  /\ {UnitText, OldUnit} \cap {Absent, Foreign, Irregular} = {}
  /\ Absent \notin {Foreign, Irregular} /\ Foreign # Irregular
  /\ {UnitText, OldUnit, Absent, Foreign, Irregular} \cap Profiles = {}

(* The four owned files; the units that are enabled.                       *)
Units == {"apply", "verify", "timer"}
Owned == {"profile"} \cup Units
Enabled == {"apply", "timer"}

(* The order of capture and of removal.                                    *)
Rank == [profile |-> 1, apply |-> 2, verify |-> 3, timer |-> 4]

Contents == Profiles \cup {UnitText, OldUnit, Absent, Foreign, Irregular}

(* isManaged: the mark in a unit, managedBy in the profile.                *)
IsOurs(f, c) == IF f = "profile" THEN c \in Profiles ELSE c \in {UnitText, OldUnit}

(* The contents Install writes for a profile.                              *)
Install(v) == [f \in Owned |-> IF f = "profile" THEN v ELSE UnitText]

VARIABLES
  file,       \* the owned files on disk
  loaded,     \* the units as systemd last read them
  linked,     \* the units enabled for the next boot
  active,     \* the timer is running
  lock,       \* the process holding the automation lock, or Free
  pc, mem,    \* the call each process makes next and its local variables
  result,     \* how the last command of each process ended
  cancelled,  \* the processes whose context is cancelled
  others,     \* history: the files and units that someone else changed since the
              \* lock was last taken and its holder last looked at them
  faults,     \* number of faults so far
  ops         \* number of commands started so far

systemd == <<loaded, linked, active>>
vars == <<file, systemd, lock, pc, mem, result, cancelled, others, faults, ops>>

Mem == [profile : Profiles,
        backups : [Owned -> Contents],  \* what capture returned
        todo    : SUBSET Owned,         \* what the current loop has left
        failed  : BOOLEAN]              \* an error is to be returned

Blank == [profile |-> CHOOSE v \in Profiles : TRUE,
          backups |-> [f \in Owned |-> Absent], todo |-> {}, failed |-> FALSE]

Installing == {"capture", "write", "reload", "enableApply", "enableTimer"}
Undoing    == {"undoTimer", "undoApply", "restore", "reloadRestored"}
Removing   == {"disableTimer", "disableApply", "remove", "unlink", "reloadRemoved"}
Locked     == Installing \cup Undoing \cup Removing
Calls      ==
  {"idle", "preflight", "reconcile", "acquireInstall", "acquireUninstall"} \cup Locked

(* "undone": Install failed and restoreInstall returned nil.  "dirty": it  *)
(* did not.  "incomplete": Uninstall returned an error.                    *)
Results == {"none", "running", "refused", "installed", "undone", "dirty",
            "removed", "incomplete", "killed"}

TypeOK ==
  /\ file \in [Owned -> Contents]
  /\ loaded \in [Units -> Contents]
  /\ linked \subseteq Enabled
  /\ active \in BOOLEAN
  /\ lock \in Proc \cup {Free}
  /\ pc \in [Proc -> Calls]
  /\ mem \in [Proc -> Mem]
  /\ result \in [Proc -> Results]
  /\ cancelled \subseteq Proc
  /\ others \subseteq Owned
  /\ faults \in 0..MaxFaults
  /\ ops \in 0..MaxOps

(* Nothing of the tool is installed yet, or an earlier release of it is.   *)
Init ==
  /\ file \in {[f \in Owned |-> Absent],
               [f \in Owned |-> IF f = "profile" THEN CHOOSE v \in Profiles : TRUE
                                ELSE OldUnit]}
  /\ loaded = [u \in Units |-> file[u]]
  /\ active = (file["timer"] # Absent)
  /\ linked = IF active THEN Enabled ELSE {}
  /\ lock = Free
  /\ pc = [p \in Proc |-> "idle"]
  /\ mem = [p \in Proc |-> Blank]
  /\ result = [p \in Proc |-> "none"]
  /\ cancelled = {}
  /\ others = {}
  /\ faults = 0
  /\ ops = 0

-----------------------------------------------------------------------------
(* Faults and control.                                                     *)

Fault(kind) == kind \in Faults /\ faults < MaxFaults /\ faults' = faults + 1
NoFault == UNCHANGED faults

CmdOk(p)    == p \notin cancelled /\ NoFault
CmdFails(p) == (p \in cancelled /\ NoFault) \/ Fault("cmd")

(* A directory in its place keeps a file from being written or removed, a  *)
(* device does not.                                                        *)
FileFails(f) == Fault("fs") \/ (NoFault /\ file[f] = Irregular)

Goto(p, call, m) ==
  /\ pc' = [pc EXCEPT ![p] = call]
  /\ mem' = [mem EXCEPT ![p] = m]
  /\ UNCHANGED <<lock, result, cancelled>>

(* The deferred releaseAutomationLock runs and the process exits.          *)
Return(p, r) ==
  /\ pc' = [pc EXCEPT ![p] = "idle"]
  /\ mem' = [mem EXCEPT ![p] = Blank]
  /\ result' = [result EXCEPT ![p] = r]
  /\ lock' = IF lock = p THEN Free ELSE lock
  /\ cancelled' = cancelled \ {p}

Loop(p)     == [mem[p] EXCEPT !.todo = Owned]
Did(p, f)   == [mem[p] EXCEPT !.todo = @ \ {f}]
Forgets(m)  == m
Erred(m)    == [m EXCEPT !.failed = TRUE]
First(p, f) == f \in mem[p].todo /\ \A g \in mem[p].todo : Rank[f] <= Rank[g]

Undo(p) == Goto(p, "undoTimer", mem[p])

-----------------------------------------------------------------------------
(* Before the lock.                                                        *)

Begin(p) ==
  /\ pc[p] = "idle"
  /\ ops < MaxOps
  /\ ops' = ops + 1
  /\ \/ \E v \in Profiles :
          /\ pc' = [pc EXCEPT ![p] = "preflight"]
          /\ mem' = [mem EXCEPT ![p] = [Blank EXCEPT !.profile = v]]
     \/ pc' = [pc EXCEPT ![p] = "acquireUninstall"] /\ UNCHANGED mem
  /\ result' = [result EXCEPT ![p] = "running"]
  /\ UNCHANGED <<file, systemd, lock, cancelled, others, faults>>

Replaceable(f) == file[f] = Absent \/ IsOurs(f, file[f])

(* PreflightInstall looks at the files without the lock.                   *)
Preflight(p) ==
  /\ pc[p] = "preflight"
  /\ \/ NoFault /\ (\A f \in Owned : Replaceable(f)) /\ Goto(p, "reconcile", mem[p])
     \/ NoFault /\ (\E f \in Owned : ~Replaceable(f)) /\ Return(p, "refused")
     \/ Fault("fs") /\ Return(p, "refused")
  /\ UNCHANGED <<file, systemd, others, ops>>

(* reconcileInput runs before Install and either ends well or does not;    *)
(* module Service puts the manager in the place of this choice.            *)
Reconcile(p) ==
  /\ pc[p] = "reconcile"
  /\ NoFault
  /\ Goto(p, "acquireInstall", mem[p]) \/ Return(p, "refused")
  /\ UNCHANGED <<file, systemd, others, ops>>

LockIgnored == TRUE
LockIsFree == lock = Free

Acquire(p, here, there) ==
  /\ pc[p] = here
  /\ \/ /\ NoFault
        /\ LockIsFree
        /\ lock' = p
        /\ others' = {}
        /\ pc' = [pc EXCEPT ![p] = there]
        /\ UNCHANGED <<mem, result, cancelled>>
     \/ /\ (NoFault /\ ~LockIsFree) \/ Fault("fs")
        /\ Return(p, "refused")
        /\ UNCHANGED others
  /\ UNCHANGED <<file, systemd, ops>>

-----------------------------------------------------------------------------
(* Install.                                                                *)

CaptureUnchecked(p) ==
  /\ pc[p] = "capture"
  /\ NoFault
  /\ Goto(p, "write", [Loop(p) EXCEPT !.backups = file])
  /\ UNCHANGED <<file, systemd, others, ops>>

(* capture: a file that is not ours is refused, the others are backed up.  *)
Capture(p) ==
  /\ pc[p] = "capture"
  /\ \/ /\ NoFault
        /\ \A f \in Owned : Replaceable(f)
        /\ Goto(p, "write", [Loop(p) EXCEPT !.backups = file])
        /\ others' = {}
     \/ /\ (NoFault /\ \E f \in Owned : ~Replaceable(f)) \/ Fault("fs")
        /\ Return(p, "refused")
        /\ UNCHANGED others
  /\ UNCHANGED <<file, systemd, ops>>

(* The files are written in the order Go ranges over a map: any.           *)
Write(p) ==
  /\ pc[p] = "write"
  /\ \/ \E f \in mem[p].todo :
          /\ NoFault
          /\ file' = [file EXCEPT ![f] = Install(mem[p].profile)[f]]
          /\ Goto(p, IF mem[p].todo = {f} THEN "reload" ELSE "write", Did(p, f))
     \/ (\E f \in mem[p].todo : FileFails(f)) /\ Undo(p) /\ UNCHANGED file
  /\ UNCHANGED <<systemd, others, ops>>

Reload(p) ==
  /\ pc[p] = "reload"
  /\ \/ /\ CmdOk(p)
        /\ loaded' = [u \in Units |-> file[u]]
        /\ Goto(p, "enableApply", mem[p])
     \/ CmdFails(p) /\ Undo(p) /\ UNCHANGED loaded
  /\ UNCHANGED <<file, linked, active, others, ops>>

(* A unit that is gone, or has a directory or a device in its place, is    *)
(* not enabled, and one of someone else need not be.                       *)
HasUnit(u) == file[u] \notin {Absent, Irregular}
NoUnitOfOurs(u) == NoFault /\ ~IsOurs(u, file[u])

(* systemctl enable may fail before or after it has made the link.         *)
EnableApply(p) ==
  /\ pc[p] = "enableApply"
  /\ \/ /\ CmdOk(p)
        /\ HasUnit("apply")
        /\ linked' = linked \cup {"apply"}
        /\ Goto(p, "enableTimer", mem[p])
     \/ /\ CmdFails(p)
        /\ linked' \in {linked, linked \cup {"apply"}}
        /\ Undo(p)
     \/ NoUnitOfOurs("apply") /\ Undo(p) /\ UNCHANGED linked
  /\ UNCHANGED <<file, loaded, active, others, ops>>

LinksService == linked \cup {"verify"}
LinksTimer == linked \cup {"timer"}

(* systemctl enable --now makes the link, then starts the timer.           *)
EnableTimer(p) ==
  /\ pc[p] = "enableTimer"
  /\ \/ /\ CmdOk(p)
        /\ HasUnit("timer")
        /\ linked' = LinksTimer
        /\ active' = TRUE
        /\ Return(p, "installed")
     \/ /\ CmdFails(p)
        /\ \/ linked' = LinksTimer /\ active' \in {active, TRUE}
           \/ UNCHANGED <<linked, active>>
        /\ Undo(p)
     \/ NoUnitOfOurs("timer") /\ Undo(p) /\ UNCHANGED <<linked, active>>
  /\ UNCHANGED <<file, loaded, others, ops>>

-----------------------------------------------------------------------------
(* restoreInstall.  The errors of the two disable commands are dropped;    *)
(* a unit that was there before is not disabled.  For a unit whose file is *)
(* missing, systemctl may remove the link that is left or report that      *)
(* there is no such unit.                                                  *)

IsAbsentNow(p, u) == file[u] = Absent
WasAbsent(p, u) == mem[p].backups[u] = Absent

UndoTimer(p) ==
  /\ pc[p] = "undoTimer"
  /\ \/ /\ WasAbsent(p, "timer")
        /\ CmdOk(p)
        /\ \/ linked' = linked \ {"timer"} /\ active' = FALSE
           \/ file["timer"] = Absent /\ UNCHANGED <<linked, active>>
     \/ WasAbsent(p, "timer") /\ CmdFails(p) /\ UNCHANGED <<linked, active>>
     \/ ~WasAbsent(p, "timer") /\ NoFault /\ UNCHANGED <<linked, active>>
  /\ Goto(p, "undoApply", mem[p])
  /\ UNCHANGED <<file, loaded, others, ops>>

UndoApply(p) ==
  /\ pc[p] = "undoApply"
  /\ \/ /\ WasAbsent(p, "apply")
        /\ CmdOk(p)
        /\ \/ linked' = linked \ {"apply"}
           \/ file["apply"] = Absent /\ UNCHANGED linked
     \/ WasAbsent(p, "apply") /\ CmdFails(p) /\ UNCHANGED linked
     \/ ~WasAbsent(p, "apply") /\ NoFault /\ UNCHANGED linked
  /\ Goto(p, "restore", Loop(p))
  /\ UNCHANGED <<file, loaded, active, others, ops>>

BackupUnlessAbsent(p, f) ==
  IF mem[p].backups[f] = Absent THEN file[f] ELSE mem[p].backups[f]
Backup(p, f) == mem[p].backups[f]

(* restoreOwnedFiles goes on after an error.                               *)
RestoreOwned(p) ==
  /\ pc[p] = "restore"
  /\ \E f \in Owned :
       /\ First(p, f)
       /\ LET there == IF mem[p].todo = {f} THEN "reloadRestored" ELSE "restore"
          IN \/ /\ NoFault
                /\ file' = [file EXCEPT ![f] = Backup(p, f)]
                /\ Goto(p, there, Did(p, f))
             \/ FileFails(f) /\ Goto(p, there, Erred(Did(p, f))) /\ UNCHANGED file
  /\ UNCHANGED <<systemd, others, ops>>

ReloadRestored(p) ==
  /\ pc[p] = "reloadRestored"
  /\ \/ /\ CmdOk(p)
        /\ loaded' = [u \in Units |-> file[u]]
        /\ Return(p, IF mem[p].failed THEN "dirty" ELSE "undone")
     \/ CmdFails(p) /\ Return(p, "dirty") /\ UNCHANGED loaded
  /\ UNCHANGED <<file, linked, active, others, ops>>

-----------------------------------------------------------------------------
(* Uninstall goes on after an error, and drops the error that there is no  *)
(* such unit (isMissingUnitError).                                         *)

DisableTimerLater(p) ==
  /\ pc[p] = "disableTimer"
  /\ \/ CmdOk(p) /\ linked' = linked \ {"timer"} /\ Goto(p, "disableApply", mem[p])
     \/ CmdFails(p) /\ Goto(p, "disableApply", Erred(mem[p])) /\ UNCHANGED linked
  /\ UNCHANGED <<file, loaded, active, others, ops>>

DisableTimer(p) ==
  /\ pc[p] = "disableTimer"
  /\ \/ /\ CmdOk(p)
        /\ \/ linked' = linked \ {"timer"} /\ active' = FALSE
           \/ file["timer"] = Absent /\ UNCHANGED <<linked, active>>
        /\ Goto(p, "disableApply", mem[p])
     \/ CmdFails(p) /\ Goto(p, "disableApply", Erred(mem[p])) /\ UNCHANGED <<linked, active>>
  /\ UNCHANGED <<file, loaded, others, ops>>

DisableApply(p) ==
  /\ pc[p] = "disableApply"
  /\ \/ /\ CmdOk(p)
        /\ \/ linked' = linked \ {"apply"}
           \/ file["apply"] = Absent /\ UNCHANGED linked
        /\ Goto(p, "remove", Loop(p))
     \/ CmdFails(p) /\ Goto(p, "remove", Erred(Loop(p))) /\ UNCHANGED linked
  /\ UNCHANGED <<file, loaded, active, others, ops>>

Removed(p, f) == IF mem[p].todo = {f} THEN "reloadRemoved" ELSE "remove"

(* removeIfOwned reads a file, leaves it and reports it if it is not ours, *)
Remove(p) ==
  /\ pc[p] = "remove"
  /\ \E f \in Owned :
       /\ First(p, f)
       /\ others' = others \ {f}
       /\ \/ NoFault /\ IsOurs(f, file[f]) /\ Goto(p, "unlink", mem[p])
          \/ NoFault /\ file[f] = Absent /\ Goto(p, Removed(p, f), Did(p, f))
          \/ /\ (NoFault /\ ~Replaceable(f)) \/ Fault("fs")
             /\ Goto(p, Removed(p, f), Erred(Did(p, f)))
  /\ UNCHANGED <<file, systemd, ops>>

(* and then removes what is there by now.                                  *)
Unlink(p) ==
  /\ pc[p] = "unlink"
  /\ \E f \in Owned :
       /\ First(p, f)
       /\ \/ /\ NoFault
             /\ file[f] # Absent
             /\ file' = [file EXCEPT ![f] = Absent]
             /\ Goto(p, Removed(p, f), Did(p, f))
          \/ /\ FileFails(f) \/ (NoFault /\ file[f] = Absent)
             /\ Goto(p, Removed(p, f), Erred(Did(p, f)))
             /\ UNCHANGED file
  /\ UNCHANGED <<systemd, others, ops>>

ReloadRemoved(p) ==
  /\ pc[p] = "reloadRemoved"
  /\ \/ /\ CmdOk(p)
        /\ loaded' = [u \in Units |-> file[u]]
        /\ Return(p, IF mem[p].failed THEN "incomplete" ELSE "removed")
     \/ CmdFails(p) /\ Return(p, "incomplete") /\ UNCHANGED loaded
  /\ UNCHANGED <<file, linked, active, others, ops>>

-----------------------------------------------------------------------------
(* Signals, crashes and the administrator.                                 *)

Cancel(p) ==
  /\ pc[p] # "idle"
  /\ p \notin cancelled
  /\ Fault("cancel")
  /\ cancelled' = cancelled \cup {p}
  /\ UNCHANGED <<file, systemd, lock, pc, mem, result, others, ops>>

Kill(p) ==
  /\ pc[p] # "idle"
  /\ Fault("kill")
  /\ Return(p, "killed")
  /\ UNCHANGED <<file, systemd, others, ops>>

(* systemd reads the units again and starts the timer if it is enabled.    *)
Reboot ==
  /\ Fault("reboot")
  /\ loaded' = [u \in Units |-> file[u]]
  /\ active' = ("timer" \in linked /\ HasUnit("timer"))
  /\ lock' = Free
  /\ pc' = [p \in Proc |-> "idle"]
  /\ mem' = [p \in Proc |-> Blank]
  /\ result' = [p \in Proc |-> IF pc[p] = "idle" THEN result[p] ELSE "killed"]
  /\ cancelled' = {}
  /\ UNCHANGED <<file, linked, others, ops>>

(* The administrator replaces or removes a file or disables a unit, while  *)
(* a command runs or not.                                                  *)
AdminChanges ==
  /\ Fault("interfere")
  /\ \E f \in Owned :
       /\ others' = others \cup {f}
       /\ \/ /\ \E c \in {Absent, Foreign, Irregular} : file' = [file EXCEPT ![f] = c]
             /\ UNCHANGED <<linked, active>>
          \/ /\ f \in linked
             /\ linked' = linked \ {f}
             /\ active' = (active /\ f # "timer")
             /\ UNCHANGED file
  /\ UNCHANGED <<loaded, lock, pc, mem, result, cancelled, ops>>

-----------------------------------------------------------------------------

OwnStep(p) ==
  \/ Preflight(p)
  \/ Acquire(p, "acquireInstall", "capture")
  \/ Acquire(p, "acquireUninstall", "disableTimer")
  \/ Capture(p) \/ Write(p) \/ Reload(p) \/ EnableApply(p) \/ EnableTimer(p)
  \/ UndoTimer(p) \/ UndoApply(p) \/ RestoreOwned(p) \/ ReloadRestored(p)
  \/ DisableTimer(p) \/ DisableApply(p) \/ Remove(p) \/ Unlink(p) \/ ReloadRemoved(p)

Step(p) == OwnStep(p) \/ Reconcile(p)

Next ==
  \/ \E p \in Proc : Begin(p) \/ Step(p) \/ Cancel(p) \/ Kill(p)
  \/ Reboot
  \/ AdminChanges

Spec == Init /\ [][Next]_vars

-----------------------------------------------------------------------------
(* Properties.                                                             *)

(* Command p ends with result r in this step.                              *)
Ends(p, r) == result[p] = "running" /\ result'[p] = r

(* The files of others are safe from the tool: one that was there when the *)
(* lock was taken, or when capture or removeIfOwned looked at it inside    *)
(* the lock, is never written or removed, also when it appeared between    *)
(* the preflight and the lock, or after a crash left an installation half  *)
(* done.  One that appears after that look is in others: atomicWrite and   *)
(* os.Remove do not look again (installer.go:87-95, 257-272).              *)
ForeignKept ==
  [][\A f \in Owned \ others :
       file[f] \in {Foreign, Irregular} /\ file'[f] # file[f] => faults' # faults]_vars

(* A nil error from Install: the files are those of one profile, systemd   *)
(* has read them, both units are enabled and the timer runs, whatever      *)
(* other invocations did meanwhile, but for what someone else has changed  *)
(* since the capture.                                                      *)
InstalledWhole ==
  [][\A p \in Proc : Ends(p, "installed") =>
       /\ active'
       /\ \A f \in Owned \ others :
            /\ file'[f] = Install(mem[p].profile)[f]
            /\ f \in Units => loaded'[f] = file'[f]
            /\ f \in Enabled => f \in linked']_vars

(* Every file but those someone else has changed since is what capture     *)
(* read before the first write.                                            *)
PutBack(p) == \A f \in Owned \ others : file'[f] = mem[p].backups[f]

(* README.md:28: an installation that fails on the way puts the files back *)
(* as they were, also when it fails because it was interrupted or because  *)
(* someone replaced a file it was about to write.                          *)
InstallIsTransaction ==
  [][\A p \in Proc : Ends(p, "undone") \/ Ends(p, "dirty") => PutBack(p)]_vars

(* A nil error from restoreInstall is the truth under any number of faults. *)
UndoneIsUndone ==
  [][\A p \in Proc : Ends(p, "undone") => PutBack(p)]_vars

(* A first installation that fails leaves nothing enabled or running.  An  *)
(* interrupted one may: restoreInstall passes the cancelled context to     *)
(* systemctl disable and drops the error.                                  *)
FirstInstallLeavesNoUnit ==
  [][\A p \in Proc :
       (/\ Ends(p, "undone") \/ Ends(p, "dirty")
        /\ p \notin cancelled
        /\ \A f \in Owned : mem[p].backups[f] = Absent)
       => linked' = {} /\ ~active']_vars

(* Status asks systemctl about the units only if there is a profile.       *)
SaysNotInstalled == file["profile"] = Absent

(* `service status` does not hide a unit: where it says that nothing is    *)
(* installed, no unit is enabled and the timer does not run, and every     *)
(* enabled unit has its file, also in the middle of a command and after    *)
(* one that was killed.  It rests on the order in which Install enables    *)
(* after it has written, and Uninstall and restoreInstall disable before   *)
(* they remove.                                                            *)
StatusHidesNothing ==
  /\ SaysNotInstalled => linked = {} /\ ~active
  /\ \A u \in linked : file[u] # Absent

(* A nil error from Uninstall: no owned file, no enabled unit, no running  *)
(* timer is left, also after an installation or a removal that was killed. *)
(* (After a removal in which systemctl disable failed this need not hold:  *)
(* the unit files are gone and the retry drops the error.)                 *)
RemovedWhole ==
  [][\A p \in Proc : Ends(p, "removed") =>
       /\ file' = [f \in Owned |-> Absent]
       /\ linked' = {}
       /\ ~active']_vars
=============================================================================
