------------------------------ MODULE Service ------------------------------
(***************************************************************************)
(* The whole program on one host: the commands of module Manager, and      *)
(* `service install` and `service uninstall` of internal/cli, which drive  *)
(* the manager and the installer under their two locks.  An installation   *)
(* reconciles the host, installs the units, and rolls its own reconcile    *)
(* back when the units could not be installed.  The unit it enables        *)
(* reconciles the host with the saved profile after a boot.                *)
(*                                                                         *)
(* The steps of the two components are those of their modules; this one    *)
(* says which of them follow each other.  Both share the faults and the    *)
(* count of commands.                                                      *)
(***************************************************************************)
EXTENDS Manager

CONSTANTS UnitText, OldUnit   \* as in Installer

ASSUME ServiceAssumption ==
  /\ Inputs # {}
  /\ Absent # Foreign
  /\ UnitText # OldUnit
  /\ {UnitText, OldUnit} \cap {Absent, Foreign, Irregular} = {}
  /\ {UnitText, OldUnit, Absent, Foreign, Irregular} \cap Inputs = {}

VARIABLES
  owned,                  \* the installer's file: the profile and the units
  loaded, linked, active, \* as in Installer
  ilock, ipc, imem, iresult, icancelled,
  made,       \* the snapshot of the reconcile of each process's installation
  booting,    \* the boot has not come to the enabled unit yet
  was         \* history: the host when p's command began, if only p changed it

I == INSTANCE Installer WITH
       Profiles <- Inputs, Faults <- Faults \ {"ignore", "drift", "interfere"},
       file <- owned, lock <- ilock, pc <- ipc, mem <- imem,
       result <- iresult, cancelled <- icancelled, others <- {}

manager   == <<live, file, snaps, latest, lock, pc, mem, result, cancelled, torn>>
installer == <<owned, loaded, linked, active, ilock, ipc, imem, iresult, icancelled>>
svars     == <<manager, installer, faults, ops, made, booting, was>>

SInit ==
  /\ Init
  /\ I!Init
  /\ made = [p \in Proc |-> None]
  /\ booting = FALSE
  /\ was = [p \in Proc |-> None]

Idle(p) == pc[p] = "idle" /\ ipc[p] = "idle"

-----------------------------------------------------------------------------
(* Commands are started.  reconcile takes its input from the profile, and  *)
(* fails at once if LoadProfile does.                                      *)

ManagerCommand(p) ==
  /\ Idle(p)
  /\ Begin(p)
  /\ mem'[p].op = "reconcile" => mem'[p].input = owned["profile"]
  /\ UNCHANGED <<installer, made, booting>>

ServiceCommand(p) ==
  /\ Idle(p)
  /\ I!Begin(p)
  /\ UNCHANGED <<manager, made, booting>>

StartReconcile(p, input) ==
  Start(p, "detect", [Blank EXCEPT !.op = "reconcile", !.input = input, !.todo = Keys])

StartRollback(p, id) ==
  Start(p, "acquire", [Blank EXCEPT !.op = "rollback", !.id = id])

-----------------------------------------------------------------------------
(* serviceInstall: preflight, reconcileInput, Install, and after a failed  *)
(* Install the rollback of what reconcileInput changed.  One context       *)
(* serves all of them.                                                     *)

RollsBackLatest(p) == made[p] # None /\ StartRollback(p, None)
RollsBack(p) == made[p] # None /\ StartRollback(p, made[p])

InstallerStep(p) ==
  /\ I!OwnStep(p)
  /\ \/ /\ ipc'[p] = "reconcile"
        /\ StartReconcile(p, imem[p].profile)
        /\ UNCHANGED made
     \/ /\ ipc'[p] = "idle" /\ iresult'[p] # "installed"
        /\ RollsBack(p)
        /\ UNCHANGED made
     \/ /\ ipc'[p] = "idle" /\ (iresult'[p] = "installed" \/ made[p] = None)
        /\ made' = [made EXCEPT ![p] = None]
        /\ UNCHANGED <<pc, mem, result>>
     \/ ipc'[p] \notin {"idle", "reconcile"} /\ UNCHANGED <<pc, mem, result, made>>
  /\ cancelled' = IF pc'[p] = "idle" THEN cancelled ELSE cancelled \cup (icancelled \cap {p})
  /\ UNCHANGED <<live, file, snaps, latest, lock, torn, booting>>

ReconcileIgnored(r) == TRUE
ReconcileEndsWell(r) == r \in {"applied", "unchanged"}

(* reconcileInput within service install.  Without an error Install is     *)
(* next, and the snapshot is kept in mind if something was changed.        *)
ReconcileStep(p) ==
  /\ ipc[p] = "reconcile"
  /\ Step(p)
  /\ \/ pc'[p] # "idle" /\ UNCHANGED <<ilock, ipc, imem, iresult, icancelled, made>>
     \/ /\ pc'[p] = "idle" /\ ReconcileEndsWell(result'[p])
        /\ ipc' = [ipc EXCEPT ![p] = "acquireInstall"]
        /\ made' = [made EXCEPT ![p] = IF result'[p] = "applied" THEN mem[p].snap.id ELSE None]
        /\ UNCHANGED <<ilock, imem, iresult, icancelled>>
     \/ /\ pc'[p] = "idle" /\ ~ReconcileEndsWell(result'[p])
        /\ I!Return(p, "refused")
        /\ UNCHANGED made
  /\ UNCHANGED <<owned, loaded, linked, active, booting>>

(* A command of the manager, or the rollback at the end of an installation. *)
ManagerStep(p) ==
  /\ ipc[p] = "idle"
  /\ Step(p)
  /\ made' = IF pc'[p] = "idle" THEN [made EXCEPT ![p] = None] ELSE made
  /\ UNCHANGED <<installer, booting>>

Act(p) == InstallerStep(p) \/ ReconcileStep(p) \/ ManagerStep(p)

-----------------------------------------------------------------------------
(* Signals and crashes meet the part of p that runs, or both.              *)

Meets(p, m, i) ==
  /\ ~Idle(p)
  /\ IF pc[p] = "idle" THEN UNCHANGED manager ELSE m
  /\ IF ipc[p] = "idle" THEN UNCHANGED installer ELSE i
  /\ UNCHANGED <<ops, booting>>

Signal(p) == Meets(p, Cancel(p), I!Cancel(p)) /\ UNCHANGED made

Death(p) == Meets(p, Kill(p), I!Kill(p)) /\ made' = [made EXCEPT ![p] = None]

(* The unit must be enabled and there, and its condition is the profile.   *)
BootsUnit ==
  /\ "apply" \in linked
  /\ owned["apply"] \in {UnitText, OldUnit}
  /\ owned["profile"] # Absent

Restart ==
  /\ Reboot
  /\ I!Reboot
  /\ made' = [p \in Proc |-> None]
  /\ booting' = BootsUnit

(* apply.service runs once, after systemd-sysctl.                          *)
BootService(p) ==
  /\ booting
  /\ Idle(p)
  /\ booting' = FALSE
  /\ \/ owned["profile"] \in Inputs /\ StartReconcile(p, owned["profile"])
     \/ owned["profile"] \notin Inputs /\ UNCHANGED <<pc, mem, result>>
  /\ UNCHANGED <<live, file, snaps, latest, lock, cancelled, torn, installer, faults, ops, made>>

-----------------------------------------------------------------------------
(* The history: what the host was when the command of p began, as long as  *)
(* nobody but p has changed it since.                                      *)

Everything == [host |-> Host, owned |-> owned]

Looks(p) == ipc'[p] # "idle" \/ mem'[p].op = "verify"

Note(mine) ==
  was' = [p \in Proc |->
            IF Idle(p)' THEN None
            ELSE IF Idle(p) THEN IF Looks(p) THEN Everything ELSE None
            ELSE IF p \in mine \/ Everything' = Everything THEN was[p] ELSE None]

SNext ==
  \/ \E p \in Proc :
       /\ \/ ManagerCommand(p) \/ ServiceCommand(p) \/ BootService(p)
          \/ Act(p) \/ Signal(p) \/ Death(p)
       /\ Note({p})
  \/ Restart /\ Note({})

SSpec == SInit /\ [][SNext]_svars

(* A command that was started keeps running, and systemd starts the unit.  *)
SFairness ==
  /\ \A p \in Proc : WF_svars(Act(p) /\ Note({p}))
  /\ WF_svars(\E p \in Proc : BootService(p) /\ Note({p}))

SFairSpec == SSpec /\ SFairness

-----------------------------------------------------------------------------
(* Properties.                                                             *)

(* The host is what Apply for input v would make of it.                    *)
TunedFor(v) == Host = Target(BuildPlan(v, live))

(* p's installation ends with an error in this step, and neither restore   *)
(* (restoreSnapshot, restoreInstall) has reported one, nor the rollback.   *)
InstallUndone(p) ==
  /\ ~Idle(p) /\ Idle(p)'
  /\ \/ /\ made[p] = None
        /\ I!Ends(p, "refused") \/ I!Ends(p, "undone")
        /\ pc[p] # "idle" => result'[p] # "dirty"
     \/ made[p] # None /\ iresult[p] # "dirty" /\ result'[p] = "restored"

(* A service install that fails leaves the host and the owned files as     *)
(* they were, although the reconcile and the installation are undone by    *)
(* two components, one after the other, and the lock of the first is free  *)
(* meanwhile (cli.go serviceInstall).  Where it does not, because someone  *)
(* else changed the host or a restore failed, the error says so.           *)
InstallAllOrNothing ==
  [][\A p \in Proc : InstallUndone(p) /\ was[p] # None => Everything' = was[p]]_svars

(* A service install that succeeds while nobody else changes anything has  *)
(* tuned the host for the very profile it installed: what the unit does    *)
(* after a boot, and what verify expects, agree with what is in force.     *)
InstallTunes ==
  [][\A p \in Proc : I!Ends(p, "installed") /\ was[p] # None =>
       /\ owned' = I!Install(imem[p].profile)
       /\ Host' = Target(BuildPlan(imem[p].profile, live'))]_svars

(* The verdict of verify, by hand or from the timer, is right if nobody    *)
(* changes the host meanwhile: the values are read before the file that    *)
(* says what they should be (manager.go:155-173).                          *)
VerdictIsRight ==
  [][\A p \in Proc :
       /\ was[p] # None /\ file["sysctl"] \in Rendered \cup {Absent}
       /\ \A k \in Keys : mem[p].seen[k] # None
       /\ faults' = faults
       => /\ Ends(p, "verified") => VerifyMaps(live, Expected(file["sysctl"]))
          /\ Ends(p, "drifted") => ~VerifyMaps(live, Expected(file["sysctl"]))]_svars

(* After a boot the enabled unit brings the host to the saved profile,     *)
(* whatever an installation, a rollback or an Apply cut short by the       *)
(* reboot has left behind, if from then on nothing fails and nobody runs   *)
(* another command (README.md:40, renderApplyUnit).                        *)
BootTunes ==
  /\ booting /\ (\A p \in Proc : Idle(p)) /\ faults = MaxFaults /\ ops = MaxOps
  /\ owned["profile"] \in Inputs
  /\ \A f \in Files : file[f] # Irregular
  ~> owned["profile"] \in Inputs /\ TunedFor(owned["profile"])
=============================================================================
