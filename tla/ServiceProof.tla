---------------------------- MODULE ServiceProof ----------------------------
(***************************************************************************)
(* What `service install` and `verify` promise when manager and installer  *)
(* run together, for any number of invocations, sysctls, inputs, faults    *)
(* and snapshots.  Each component keeps the invariants of its own proofs   *)
(* here, since a step of Service is a step of it, leaves it alone or moves *)
(* it on as serviceInstall does.  What spans both, and what a command      *)
(* knows of the host while nobody else changes it, is shown in this one.   *)
(***************************************************************************)
EXTENDS Service, RecoveryProof

IP == INSTANCE InstallerProof WITH
        Profiles <- Inputs, Faults <- Faults \ {"ignore", "drift", "interfere"},
        file <- owned, lock <- ilock, pc <- ipc, mem <- imem,
        result <- iresult, cancelled <- icancelled, others <- {}

(* The calls of an installation after its reconcile.                       *)
AfterTuned == {"acquireInstall"} \cup IP!Installing \cup IP!Undoing

(* Which part of p runs, and which snapshot its installation remembers.    *)
Joined(p) ==
  /\ ipc[p] = "reconcile" =>
       /\ pc[p] # "idle" /\ mem[p].op = "reconcile"
       /\ mem[p].input = imem[p].profile
  /\ ipc[p] \notin {"idle", "reconcile"} => pc[p] = "idle"
  /\ made[p] # None =>
       \/ ipc[p] \in AfterTuned /\ result[p] = "applied"
       \/ ipc[p] = "idle" /\ pc[p] # "idle" /\ mem[p].op = "rollback" /\ mem[p].id = made[p]

ManagerInv == KnownInv /\ SnapshotInv

MadeType == made \in [Proc -> Ids \cup {None}]

JointInv == ManagerInv /\ IP!InstallerInv /\ MadeType /\ \A p \in Proc : Joined(p)

-----------------------------------------------------------------------------
(* The history of a command while nobody else changes the host.            *)

(* The host p has tuned stays tuned for the profile it installs.           *)
StaysTuned(p) ==
  ipc[p] \in {"acquireInstall"} \cup IP!Installing => TunedFor(imem[p].profile)

(* While the reconcile of an installation runs, the snapshot it has taken  *)
(* is the host as it was.                                                  *)
Reconciling(p) ==
  ipc[p] = "reconcile" =>
    /\ owned = was[p].owned
    /\ pc[p] = "observe" => mem[p].plan.input = imem[p].profile
    /\ pc[p] \in Unlocked \cup Prepare \cup {"writeSysctl"} => Host = was[p].host
    /\ pc[p] \in HasSnap => Saved(mem[p].snap) = was[p].host
    /\ pc[p] \in {"writeLatest"} \cup Modify => snaps[mem[p].snap.id] = mem[p].snap

(* Afterwards the snapshot is the one the installation remembers, unless   *)
(* there was nothing to change, and the backups are the files as they were.*)
Installs(p) ==
  /\ ipc[p] \in {"preflight", "acquireUninstall", "acquireInstall", "capture"}
       => owned = was[p].owned
  /\ ipc[p] \in IP!Writing \cup IP!Undoing => imem[p].backups = was[p].owned
  /\ ipc[p] \in {"preflight", "acquireUninstall"} \cup AfterTuned /\ made[p] = None
       => Host = was[p].host
  /\ made[p] # None => snaps[made[p]] # None /\ Saved(snaps[made[p]]) = was[p].host

(* The rollback at the end.                                                *)
RollsBackAll(p) ==
  ipc[p] = "idle" /\ made[p] # None =>
    /\ iresult[p] # "dirty" => owned = was[p].owned
    /\ pc[p] \in Restore => mem[p].snap = snaps[made[p]]

Recalls(p) ==
  /\ was[p] = [host |-> was[p].host, owned |-> was[p].owned]
  /\ SeenInv(p) /\ StaysTuned(p)
  /\ Reconciling(p) /\ Installs(p) /\ RollsBackAll(p)

HistoryInv == \A p \in Proc : was[p] # None => Recalls(p)

-----------------------------------------------------------------------------
(* The installer of Service is the installer of InstallerProof.            *)

LEMMA SameEnvironment ==
  /\ I!Init => IP!Init
  /\ I!Reboot => IP!Reboot
  /\ \A p : /\ I!Begin(p) => IP!Begin(p)
            /\ I!Cancel(p) => IP!Cancel(p)
            /\ I!Kill(p) => IP!Kill(p)
            /\ \A r : I!Return(p, r) => IP!Return(p, r)
<1> USE DEF I!systemd, IP!systemd, I!Enabled, IP!Enabled, I!Owned, IP!Owned,
            I!Units, IP!Units, I!Blank, IP!Blank, I!Fault, IP!Fault, I!NoFault,
            IP!NoFault, I!CmdOk, IP!CmdOk, I!CmdFails, IP!CmdFails, I!Return,
            IP!Return, I!Goto, IP!Goto, I!Undo, IP!Undo, I!First, IP!First, I!Rank,
            IP!Rank, I!Did, IP!Did, I!Backup, IP!Backup, I!Loop, IP!Loop, I!Erred,
            IP!Erred, I!Replaceable, IP!Replaceable, I!IsOurs, IP!IsOurs, I!Install,
            IP!Install, I!WasAbsent, IP!WasAbsent, I!LockIsFree, IP!LockIsFree,
            I!LinksTimer, IP!LinksTimer, I!FileFails, IP!FileFails, I!HasUnit,
            IP!HasUnit, I!NoUnitOfOurs, IP!NoUnitOfOurs, I!Removed, IP!Removed
<1>1. I!Init => IP!Init
  BY DEF I!Init, IP!Init
<1>2. I!Reboot => IP!Reboot
  BY DEF I!Reboot, IP!Reboot
<1>3. \A p : I!Begin(p) => IP!Begin(p)
  BY DEF I!Begin, IP!Begin
<1>4. \A p : I!Cancel(p) => IP!Cancel(p)
  BY DEF I!Cancel, IP!Cancel
<1>5. \A p : I!Kill(p) => IP!Kill(p)
  BY DEF I!Kill, IP!Kill
<1>6. \A p, r : I!Return(p, r) => IP!Return(p, r)
  OBVIOUS
<1>7. QED
  BY <1>1, <1>2, <1>3, <1>4, <1>5, <1>6

LEMMA SameSteps ==
  ASSUME NEW p, I!OwnStep(p)
  PROVE  IP!OwnStep(p)
<1> USE DEF I!systemd, IP!systemd, I!Enabled, IP!Enabled, I!Owned, IP!Owned,
            I!Units, IP!Units, I!Blank, IP!Blank, I!Fault, IP!Fault, I!NoFault,
            IP!NoFault, I!CmdOk, IP!CmdOk, I!CmdFails, IP!CmdFails, I!Return,
            IP!Return, I!Goto, IP!Goto, I!Undo, IP!Undo, I!First, IP!First, I!Rank,
            IP!Rank, I!Did, IP!Did, I!Backup, IP!Backup, I!Loop, IP!Loop, I!Erred,
            IP!Erred, I!Replaceable, IP!Replaceable, I!IsOurs, IP!IsOurs, I!Install,
            IP!Install, I!WasAbsent, IP!WasAbsent, I!LockIsFree, IP!LockIsFree,
            I!LinksTimer, IP!LinksTimer, I!FileFails, IP!FileFails, I!HasUnit,
            IP!HasUnit, I!NoUnitOfOurs, IP!NoUnitOfOurs, I!Removed, IP!Removed
<1>1. I!Preflight(p) => IP!Preflight(p)
  BY DEF I!Preflight, IP!Preflight
<1>2. I!Acquire(p, "acquireInstall", "capture") => IP!Acquire(p, "acquireInstall", "capture")
  BY DEF I!Acquire, IP!Acquire
<1>3. I!Acquire(p, "acquireUninstall", "disableTimer") => IP!Acquire(p, "acquireUninstall", "disableTimer")
  BY DEF I!Acquire, IP!Acquire
<1>4. I!Capture(p) => IP!Capture(p)
  BY DEF I!Capture, IP!Capture
<1>5. I!Write(p) => IP!Write(p)
  BY DEF I!Write, IP!Write
<1>6. I!Reload(p) => IP!Reload(p)
  BY DEF I!Reload, IP!Reload
<1>7. I!EnableApply(p) => IP!EnableApply(p)
  BY DEF I!EnableApply, IP!EnableApply
<1>8. I!EnableTimer(p) => IP!EnableTimer(p)
  BY DEF I!EnableTimer, IP!EnableTimer
<1>9. I!UndoTimer(p) => IP!UndoTimer(p)
  BY DEF I!UndoTimer, IP!UndoTimer
<1>10. I!UndoApply(p) => IP!UndoApply(p)
  BY DEF I!UndoApply, IP!UndoApply
<1>11. I!RestoreOwned(p) => IP!RestoreOwned(p)
  BY DEF I!RestoreOwned, IP!RestoreOwned
<1>12. I!ReloadRestored(p) => IP!ReloadRestored(p)
  BY DEF I!ReloadRestored, IP!ReloadRestored
<1>13. I!DisableTimer(p) => IP!DisableTimer(p)
  BY DEF I!DisableTimer, IP!DisableTimer
<1>14. I!DisableApply(p) => IP!DisableApply(p)
  BY DEF I!DisableApply, IP!DisableApply
<1>15. I!Remove(p) => IP!Remove(p)
  BY DEF I!Remove, IP!Remove
<1>16. I!ReloadRemoved(p) => IP!ReloadRemoved(p)
  BY DEF I!ReloadRemoved, IP!ReloadRemoved
<1>17. I!Unlink(p) => IP!Unlink(p)
  BY DEF I!Unlink, IP!Unlink
<1>18. QED
  BY <1>1, <1>2, <1>3, <1>4, <1>5, <1>6, <1>7, <1>8, <1>9, <1>10, <1>11, <1>12, <1>13, <1>14,
     <1>15, <1>16, <1>17
     DEF I!OwnStep, IP!OwnStep

-----------------------------------------------------------------------------
(* Each component keeps its invariants.                                    *)

(* What the installer assumes of its constants holds here.                 *)
LEMMA InstallerAssumptions ==
  /\ Faults \ {"ignore", "drift", "interfere"} \subseteq IP!FaultKinds
  /\ MaxFaults \in Nat /\ MaxOps \in Nat
  /\ Inputs # {}
  /\ Free \notin Proc
  /\ UnitText # OldUnit
  /\ {UnitText, OldUnit} \cap {Absent, Foreign, Irregular} = {}
  /\ Absent \notin {Foreign, Irregular} /\ Foreign # Irregular
  /\ {UnitText, OldUnit, Absent, Foreign, Irregular} \cap Inputs = {}
<1>1. Absent \notin {Foreign, Irregular} /\ Foreign # Irregular
  BY ServiceAssumption, FilesAssumption
<1>2. Faults \ {"ignore", "drift", "interfere"} \subseteq IP!FaultKinds
  BY FaultsAssumption DEF FaultKinds, IP!FaultKinds
<1>3. QED
  BY <1>1, <1>2, ServiceAssumption, ProcAssumption, FaultsAssumption, BoundAssumption

InstallerMoves ==
  \/ \E p \in Proc : I!Begin(p) \/ I!OwnStep(p) \/ I!Cancel(p) \/ I!Kill(p)
  \/ I!Reboot

LEMMA InstallerKept ==
  ASSUME IP!InstallerInv, InstallerMoves
  PROVE  IP!InstallerInv'
<1>1. IP!Next
  BY SameEnvironment, SameSteps DEF InstallerMoves, IP!Next, IP!Step
<1>2. IP!TypeOK /\ IP!Mutex
  BY DEF IP!InstallerInv
<1>3. IP!TypeOK'
  BY <1>1, <1>2, IP!TypeNext, InstallerAssumptions
<1>4. IP!Mutex'
  BY <1>1, <1>2, IP!MutexNext, InstallerAssumptions
<1>5. \A q \in Proc : IP!Phase(q)'
  BY <1>1, IP!PhaseNext, InstallerAssumptions
<1>6. QED
  BY <1>3, <1>4, <1>5 DEF IP!InstallerInv

LEMMA InstallerRests ==
  ASSUME IP!InstallerInv, UNCHANGED installer, faults' \in 0..MaxFaults, ops' \in 0..MaxOps
  PROVE  IP!InstallerInv'
BY IP!OnlyCounts, InstallerAssumptions DEF installer, IP!systemd

LEMMA InstallerGoesOn ==
  ASSUME IP!InstallerInv, NEW p \in Proc, ipc[p] = "reconcile",
         UNCHANGED <<owned, loaded, linked, active>>,
         \/ /\ ipc' = [ipc EXCEPT ![p] = "acquireInstall"]
            /\ UNCHANGED <<ilock, imem, iresult, icancelled>>
         \/ I!Return(p, "refused"),
         faults' \in 0..MaxFaults, ops' \in 0..MaxOps
  PROVE  IP!InstallerInv'
BY IP!ReconcileEnds, InstallerAssumptions, SameEnvironment DEF IP!systemd

(* A command of the manager that the installer or systemd starts.          *)
ManagerBegins(p) ==
  /\ pc[p] = "idle"
  /\ Begins(p)
  /\ cancelled' \in {cancelled, cancelled \cup {p}}
  /\ UNCHANGED <<live, file, snaps, latest, lock, torn>>
  /\ faults' \in 0..MaxFaults /\ ops' \in 0..MaxOps

ManagerMoves ==
  \/ \E p \in Proc : Begin(p) \/ Step(p) \/ Cancel(p) \/ Kill(p)
  \/ Reboot

LEMMA ManagerKept ==
  ASSUME ManagerInv, ManagerMoves
  PROVE  ManagerInv'
<1>1. [Next]_vars
  BY DEF ManagerMoves, Next
<1>2. KnownInv /\ SnapshotInv /\ TypeInv /\ MutualExclusion /\ CommandInv /\ HonestInv
  BY DEF ManagerInv, KnownInv
<1>3. TypeInv' /\ MutualExclusion' /\ CommandInv' /\ SnapshotInv'
  BY <1>1, <1>2, TypeNext, MutexNext, CommandNext, SnapshotNext DEF TypeInv
<1>4. HonestInv'
  <2>1. CASE \E p \in Proc : Begin(p) \/ Step(p) \/ Cancel(p) \/ Kill(p)
    BY <1>2, <2>1, HonestCommand
  <2>2. CASE Reboot
    BY <2>2 DEF Reboot, HonestInv, AppliedInv, RestoredInv, LatestInv, Restore
  <2>3. QED
    BY <2>1, <2>2 DEF ManagerMoves
<1>5. QED
  BY <1>3, <1>4 DEF ManagerInv, KnownInv

LEMMA ManagerRests ==
  ASSUME ManagerInv, UNCHANGED manager, faults' \in 0..MaxFaults, ops' \in 0..MaxOps
  PROVE  ManagerInv'
<1>1. /\ UNCHANGED <<live, file, snaps, latest, lock, pc, mem, result, cancelled, torn>>
      /\ TypeInv /\ MutualExclusion /\ CommandInv /\ HonestInv /\ SnapshotInv
  BY DEF manager, ManagerInv, KnownInv
<1>2. TypeInv'
  BY <1>1 DEF TypeInv, ControlInv, DataType
<1>3. MutualExclusion' /\ CommandInv'
  BY <1>1 DEF MutualExclusion, CommandInv
<1>4. HonestInv'
  BY <1>1 DEF HonestInv, AppliedInv, RestoredInv, LatestInv
<1>5. SnapshotInv'
  BY <1>1 DEF SnapshotInv, LatestExists
<1>6. QED
  BY <1>2, <1>3, <1>4, <1>5 DEF ManagerInv, KnownInv

LEMMA ManagerStarts ==
  ASSUME ManagerInv, NEW p \in Proc, ManagerBegins(p)
  PROVE  ManagerInv'
<1>1. TypeInv /\ MutualExclusion /\ CommandInv /\ HonestInv /\ SnapshotInv
  BY DEF ManagerInv, KnownInv
<1>2. PICK call \in {"detect", "acquire", "observe"}, m \in Mem :
        Start(p, call, m) /\ LocalsOf(call, m) /\ CommandOf(call, m)
  BY DEF ManagerBegins, Begins
<1>3. /\ pc' = [pc EXCEPT ![p] = call]
      /\ mem' = [mem EXCEPT ![p] = m]
      /\ result' = [result EXCEPT ![p] = "running"]
      /\ UNCHANGED <<live, file, snaps, latest, lock, torn>>
      /\ cancelled' \in {cancelled, cancelled \cup {p}}
      /\ faults' \in 0..MaxFaults /\ ops' \in 0..MaxOps
      /\ pc[p] = "idle"
  BY <1>2 DEF Start, ManagerBegins
<1>4. pc \in [Proc -> Calls] /\ mem \in [Proc -> Mem] /\ result \in [Proc -> Results]
  BY <1>1 DEF TypeInv, ControlInv
<1>5. \A q \in Proc : IF q = p THEN pc'[q] = call /\ mem'[q] = m /\ result'[q] = "running"
                      ELSE pc'[q] = pc[q] /\ mem'[q] = mem[q] /\ result'[q] = result[q]
  BY <1>3, <1>4
<1>6. call \in Calls \ {"idle"} /\ call \notin Locked
  BY DEF Calls, Unlocked, Locked, Prepare, Modify, Restore
<1>7. TypeInv'
  <2>1. pc' \in [Proc -> Calls] /\ mem' \in [Proc -> Mem] /\ result' \in [Proc -> Results]
    BY <1>3, <1>4, <1>6 DEF Results
  <2>2. \A q \in Proc : LocalsOf(pc'[q], mem'[q])
    BY <1>1, <1>2, <1>5 DEF TypeInv, ControlInv
  <2>3. QED
    BY <1>1, <1>3, <2>1, <2>2 DEF TypeInv, ControlInv, DataType
<1>8. MutualExclusion'
  BY <1>1, <1>3, <1>5, <1>6 DEF MutualExclusion, Locked, Prepare, Modify, Restore
<1>9. CommandInv'
  BY <1>1, <1>2, <1>5, <1>6 DEF CommandInv
<1>10. HonestInv'
  BY <1>1, <1>3, <1>5, <1>6 DEF HonestInv, AppliedInv, RestoredInv, LatestInv, Locked, Modify,
         Restore
<1>11. SnapshotInv'
  BY <1>1, <1>3, <1>5, <1>6 DEF SnapshotInv, LatestExists, Locked, Prepare, Modify
<1>12. QED
  BY <1>7, <1>8, <1>9, <1>10, <1>11 DEF ManagerInv, KnownInv

-----------------------------------------------------------------------------
(* What a step of Service is to each component, and to the other commands. *)

Moves(p) ==
  ManagerCommand(p) \/ ServiceCommand(p) \/ BootService(p) \/ Act(p) \/ Signal(p) \/ Death(p)

Counts == faults' \in 0..MaxFaults /\ ops' \in 0..MaxOps

(* serviceInstall goes on with Install after its reconcile, or returns.    *)
ReconcileOver(p) ==
  /\ ipc[p] = "reconcile"
  /\ UNCHANGED <<owned, loaded, linked, active>>
  /\ \/ /\ ipc' = [ipc EXCEPT ![p] = "acquireInstall"]
        /\ UNCHANGED <<ilock, imem, iresult, icancelled>>
     \/ I!Return(p, "refused")

LEMMA OwnStepMoves ==
  ASSUME IP!InstallerInv, NEW p \in Proc, I!OwnStep(p)
  PROVE  /\ IP!Proceeds(p) \/ IP!Finishes(p)
         /\ ipc[p] \notin {"idle", "reconcile"}
<1>1. IP!Proceeds(p) \/ IP!Finishes(p)
  BY SameSteps, IP!OwnStepMoves, InstallerAssumptions
<1>2. ipc[p] \notin {"idle", "reconcile"}
  BY <1>1 DEF IP!Proceeds, IP!Finishes, IP!Writing, IP!Undoing, IP!Removing
<1>3. QED
  BY <1>1, <1>2

LEMMA InstallerStarts ==
  ASSUME JointInv, NEW p \in Proc, InstallerStep(p)
  PROVE  /\ pc[p] = "idle"
         /\ Counts
         /\ \/ ManagerBegins(p) /\ UNCHANGED made
            \/ UNCHANGED manager /\ made' \in {made, [made EXCEPT ![p] = None]}
<1>1. I!OwnStep(p) /\ IP!InstallerInv /\ Joined(p) /\ TypeInv
  BY DEF InstallerStep, JointInv, ManagerInv, KnownInv
<1>2. pc[p] = "idle"
  BY <1>1, OwnStepMoves DEF Joined
<1>3. Counts
  <2>1. IP!InstallerInv'
    BY <1>1, InstallerKept DEF InstallerMoves
  <2>2. QED
    BY <2>1 DEF IP!InstallerInv, IP!TypeOK, Counts
<1>4. pc \in [Proc -> Calls] /\ mem \in [Proc -> Mem] /\ result \in [Proc -> Results]
  BY <1>1 DEF TypeInv, ControlInv
<1>5. imem[p].profile \in Inputs
  BY <1>1 DEF IP!InstallerInv, IP!TypeOK, IP!Mem
<1>6. UNCHANGED <<live, file, snaps, latest, lock, torn>>
      /\ cancelled' = IF pc'[p] = "idle" THEN cancelled ELSE cancelled \cup (icancelled \cap {p})
  BY DEF InstallerStep
<1>7. cancelled' \in {cancelled, cancelled \cup {p}}
  BY <1>6
<1>8. CASE Begins(p) /\ UNCHANGED made
  BY <1>2, <1>3, <1>6, <1>7, <1>8 DEF ManagerBegins, Counts
<1>9. CASE UNCHANGED <<pc, mem, result>> /\ made' \in {made, [made EXCEPT ![p] = None]}
  BY <1>2, <1>3, <1>6, <1>9 DEF manager
<1>10. \/ Begins(p) /\ UNCHANGED made
       \/ UNCHANGED <<pc, mem, result>> /\ made' \in {made, [made EXCEPT ![p] = None]}
  <2>1. StartReconcile(p, imem[p].profile) => Begins(p)
    BY <1>5, BeginsWith DEF StartReconcile
  <2>2. RollsBack(p) => Begins(p)
    BY <1>1, BeginsWith DEF RollsBack, StartRollback, JointInv, MadeType
  <2>3. QED
    BY <2>1, <2>2 DEF InstallerStep
<1>11. QED
  BY <1>2, <1>3, <1>8, <1>9, <1>10

(* Lemmas ManagerSide and InstallerSide: so every step of a command is one *)
(* of the manager, the start of one, or none, and likewise for the other.  *)
LEMMA ManagerSide ==
  ASSUME JointInv, NEW p \in Proc, Moves(p)
  PROVE  \/ Begin(p) \/ Step(p) \/ Cancel(p) \/ Kill(p)
         \/ ManagerBegins(p)
         \/ UNCHANGED manager /\ Counts
<1>1. IP!InstallerInv /\ ManagerInv /\ Joined(p)
  BY DEF JointInv
<1>2. faults \in 0..MaxFaults /\ ops \in 0..MaxOps
  BY <1>1 DEF IP!InstallerInv, IP!TypeOK
<1>3. InstallerMoves => Counts
  BY <1>1, InstallerKept DEF IP!InstallerInv, IP!TypeOK, Counts
<1>4. CASE ManagerCommand(p)
  BY <1>4 DEF ManagerCommand
<1>5. CASE ServiceCommand(p)
  BY <1>3, <1>5 DEF ServiceCommand, InstallerMoves
<1>6. CASE BootService(p)
  <2>1. CASE owned["profile"] \in Inputs /\ StartReconcile(p, owned["profile"])
    <3>1. Begins(p)
      BY <2>1, BeginsWith DEF StartReconcile
    <3>2. QED
      BY <1>2, <1>6, <3>1 DEF BootService, ManagerBegins, Idle
  <2>2. CASE UNCHANGED <<pc, mem, result>>
    BY <1>2, <1>6, <2>2 DEF BootService, manager, Counts
  <2>3. QED
    BY <1>6, <2>1, <2>2 DEF BootService
<1>7. CASE InstallerStep(p)
  BY <1>7, InstallerStarts
<1>8. CASE ReconcileStep(p) \/ ManagerStep(p)
  BY <1>8 DEF ReconcileStep, ManagerStep
<1>9. CASE Signal(p)
  BY <1>3, <1>9 DEF Signal, Meets, InstallerMoves, Idle
<1>10. CASE Death(p)
  BY <1>3, <1>10 DEF Death, Meets, InstallerMoves, Idle
<1>11. QED
  BY <1>4, <1>5, <1>6, <1>7, <1>8, <1>9, <1>10 DEF Moves, Act

LEMMA InstallerSide ==
  ASSUME JointInv, NEW p \in Proc, Moves(p)
  PROVE  \/ I!Begin(p) \/ I!OwnStep(p) \/ I!Cancel(p) \/ I!Kill(p)
         \/ UNCHANGED installer /\ Counts
         \/ ReconcileOver(p) /\ Counts
<1>1. IP!InstallerInv /\ ManagerInv /\ Joined(p)
  BY DEF JointInv
<1>2. faults \in 0..MaxFaults /\ ops \in 0..MaxOps
  BY <1>1 DEF IP!InstallerInv, IP!TypeOK
<1>3. ManagerMoves => Counts
  BY <1>1, ManagerKept DEF ManagerInv, KnownInv, TypeInv, DataType, Counts
<1>4. CASE ManagerCommand(p)
  BY <1>3, <1>4 DEF ManagerCommand, ManagerMoves
<1>5. CASE ServiceCommand(p)
  BY <1>5 DEF ServiceCommand
<1>6. CASE BootService(p)
  BY <1>2, <1>6 DEF BootService, Counts
<1>7. CASE InstallerStep(p)
  BY <1>7 DEF InstallerStep
<1>8. CASE ReconcileStep(p)
  <2>1. Counts
    BY <1>3, <1>8 DEF ReconcileStep, ManagerMoves
  <2>2. UNCHANGED <<ilock, ipc, imem, iresult, icancelled>> \/ ReconcileOver(p)
    BY <1>8 DEF ReconcileStep, ReconcileOver
  <2>3. QED
    BY <1>8, <2>1, <2>2 DEF ReconcileStep, installer
<1>9. CASE ManagerStep(p)
  BY <1>3, <1>9 DEF ManagerStep, ManagerMoves
<1>10. CASE Signal(p)
  BY <1>3, <1>10 DEF Signal, Meets, ManagerMoves, Idle
<1>11. CASE Death(p)
  BY <1>3, <1>11 DEF Death, Meets, ManagerMoves, Idle
<1>12. QED
  BY <1>4, <1>5, <1>6, <1>7, <1>8, <1>9, <1>10, <1>11 DEF Moves, Act

-----------------------------------------------------------------------------
(* The invariant of the two together.                                      *)

(* A command leaves the others where they are.                             *)
Aside(q) ==
  /\ pc'[q] = pc[q] /\ mem'[q] = mem[q] /\ result'[q] = result[q]
  /\ ipc'[q] = ipc[q] /\ imem'[q] = imem[q] /\ iresult'[q] = iresult[q]
  /\ made'[q] = made[q]

LEMMA OthersAside ==
  ASSUME JointInv, NEW p \in Proc, Moves(p), NEW q \in Proc \ {p}
  PROVE  Aside(q)
<1>1. TypeInv /\ ControlInv /\ IP!TypeOK
  BY DEF JointInv, ManagerInv, KnownInv, TypeInv, IP!InstallerInv
<1>2. pc \in [Proc -> Calls] /\ mem \in [Proc -> Mem] /\ result \in [Proc -> Results]
  BY <1>1 DEF ControlInv
<1>3. pc'[q] = pc[q] /\ mem'[q] = mem[q] /\ result'[q] = result[q]
  <2>1. CASE Step(p)
    BY <1>1, <2>1, OthersStay
  <2>2. CASE Begin(p) \/ ManagerBegins(p)
    <3>1. PICK call, m : Start(p, call, m)
      BY <2>2 DEF Begin, ManagerBegins, Begins
    <3>2. QED
      BY <1>2, <3>1 DEF Start
  <2>3. CASE Cancel(p) \/ Kill(p) \/ UNCHANGED manager
    BY <1>2, <2>3 DEF Cancel, Kill, Return, manager
  <2>4. QED
    BY <2>1, <2>2, <2>3, ManagerSide
<1>4. ipc'[q] = ipc[q] /\ imem'[q] = imem[q] /\ iresult'[q] = iresult[q]
  <2>1. CASE I!Begin(p) \/ I!OwnStep(p) \/ I!Cancel(p) \/ I!Kill(p)
    <3>1. IP!Begin(p) \/ IP!Step(p) \/ IP!Cancel(p) \/ IP!Kill(p)
      BY <2>1, SameEnvironment, SameSteps DEF IP!Step
    <3>2. QED
      BY <1>1, <3>1, IP!OthersStay, InstallerAssumptions
  <2>2. CASE UNCHANGED installer
    BY <2>2 DEF installer
  <2>3. CASE ReconcileOver(p)
    <3>1. ipc \in [Proc -> IP!Calls] /\ imem \in [Proc -> IP!Mem]
          /\ iresult \in [Proc -> IP!Results]
      BY <1>1 DEF IP!TypeOK
    <3>2. QED
      BY <2>3, <3>1 DEF ReconcileOver, I!Return
  <2>4. QED
    BY <2>1, <2>2, <2>3, InstallerSide
<1>5. made' = made \/ \E i : made' = [made EXCEPT ![p] = i]
  BY InstallerStarts DEF Moves, Act, ManagerCommand, ServiceCommand, BootService,
     ReconcileStep, ManagerStep, Signal, Death
<1>6. made'[q] = made[q]
  BY <1>5 DEF JointInv, MadeType
<1>7. QED
  BY <1>3, <1>4, <1>6 DEF Aside

(* A step of a command that goes on keeps what was asked for.              *)
LEMMA RequestKept ==
  ASSUME ManagerInv, NEW p \in Proc, Step(p), pc'[p] # "idle"
  PROVE  SameRequest(mem[p], mem'[p])
<1>1. TypeInv /\ ControlInv /\ CommandInv
  BY DEF ManagerInv, KnownInv, TypeInv
<1>2. CASE GoesOn(p)
  BY <1>1, <1>2, Arrives DEF GoesOn
<1>3. CASE TakesLock(p)
  BY <1>3 DEF TakesLock, SameRequest
<1>4. CASE Returns(p)
  BY <1>1, <1>4, Arrives DEF Returns
<1>5. QED
  BY <1>1, <1>2, <1>3, <1>4, StepForm

LEMMA IdleMadeNone ==
  ASSUME NEW p \in Proc, Joined(p),
         ipc[p] \in {"idle", "preflight", "reconcile", "acquireUninstall"} \cup IP!Removing,
         ipc[p] = "idle" => pc[p] = "idle"
  PROVE  made[p] = None
BY DEF Joined, AfterTuned, IP!Installing, IP!Undoing, IP!Removing

LEMMA ReconcileEndsIn ==
  ASSUME ManagerInv, NEW p \in Proc, Step(p), pc'[p] = "idle", result'[p] = "applied"
  PROVE  pc[p] = "verify" /\ Ends(p, "applied") /\ mem[p].snap \in Snapshots
<1>1. TypeInv /\ ControlInv /\ CommandInv /\ [Next]_vars
  BY DEF ManagerInv, KnownInv, TypeInv, Next
<1>2. Ends(p, "applied")
  BY <1>1, StepRuns DEF Ends
<1>3. pc[p] = "verify"
  BY <1>1, <1>2, EndsApplied
<1>4. QED
  BY <1>1, <1>2, <1>3 DEF ControlInv, LocalsOf, HasSnap, Modify

LEMMA StartsJoined ==
  ASSUME JointInv, NEW p \in Proc,
         ManagerCommand(p) \/ ServiceCommand(p) \/ BootService(p) \/ Signal(p) \/ Death(p)
  PROVE  Joined(p)' /\ MadeType'
<1>1. Joined(p) /\ MadeType
  BY DEF JointInv
<1>2. TypeInv /\ ControlInv /\ IP!TypeOK
  BY DEF JointInv, ManagerInv, KnownInv, TypeInv, IP!InstallerInv
<1>3. pc \in [Proc -> Calls] /\ ipc \in [Proc -> IP!Calls]
  BY <1>2 DEF ControlInv, IP!TypeOK
<1>4. Idle(p) => made[p] = None
  BY <1>1, IdleMadeNone DEF Idle
<1>5. CASE ManagerCommand(p) \/ BootService(p)
  BY <1>1, <1>4, <1>5 DEF ManagerCommand, BootService, Idle, installer, Joined, MadeType
<1>6. CASE ServiceCommand(p)
  <2>1. ipc'[p] \in {"preflight", "acquireUninstall"} /\ pc'[p] = "idle" /\ made' = made
    BY <1>3, <1>6 DEF ServiceCommand, I!Begin, Idle, manager
  <2>2. QED
    BY <1>1, <1>4, <1>6, <2>1 DEF ServiceCommand, Joined, Idle, MadeType
<1>7. CASE Signal(p)
  <2>1. UNCHANGED <<pc, mem, result, ipc, imem, made>>
    BY <1>7 DEF Signal, Meets, Cancel, I!Cancel, manager, installer
  <2>2. QED
    BY <1>1, <2>1 DEF Joined, MadeType
<1>8. CASE Death(p)
  <2>1. ipc'[p] = "idle"
    BY <1>3, <1>8 DEF Death, Meets, I!Kill, I!Return, installer
  <2>2. made' = [made EXCEPT ![p] = None]
    BY <1>8 DEF Death
  <2>3. QED
    BY <1>1, <2>1, <2>2 DEF Joined, MadeType
<1>9. QED
  BY <1>5, <1>6, <1>7, <1>8

LEMMA InstallerJoined ==
  ASSUME JointInv, NEW p \in Proc, InstallerStep(p)
  PROVE  Joined(p)' /\ MadeType'
<1>1. Joined(p) /\ MadeType /\ I!OwnStep(p) /\ IP!InstallerInv
  BY DEF JointInv, InstallerStep
<1>2. TypeInv /\ ControlInv /\ IP!TypeOK
  BY <1>1 DEF JointInv, ManagerInv, KnownInv, TypeInv, IP!InstallerInv
<1>3. pc \in [Proc -> Calls] /\ mem \in [Proc -> Mem] /\ result \in [Proc -> Results]
  BY <1>2 DEF ControlInv
<1>4. /\ IP!Proceeds(p) \/ IP!Finishes(p)
      /\ ipc[p] \notin {"idle", "reconcile"} /\ pc[p] = "idle"
  BY <1>1, OwnStepMoves, InstallerStarts
<1>5. MadeType'
  BY <1>1, InstallerStarts DEF MadeType
<1>6. CASE /\ ipc'[p] = "reconcile"
           /\ StartReconcile(p, imem[p].profile)
           /\ UNCHANGED made
  <2>1. ipc[p] = "preflight" /\ imem'[p] = imem[p]
    BY <1>4, <1>6 DEF IP!Proceeds, IP!Finishes, IP!Writing, IP!Undoing, IP!Removing
  <2>2. made'[p] = None
    BY <1>1, <1>6, <2>1, IdleMadeNone
  <2>3. pc'[p] = "detect" /\ mem'[p].op = "reconcile" /\ mem'[p].input = imem[p].profile
    BY <1>3, <1>6 DEF StartReconcile, Start, Blank
  <2>4. QED
    BY <1>5, <1>6, <2>1, <2>2, <2>3 DEF Joined
<1>7. CASE ipc'[p] = "idle" /\ RollsBack(p) /\ UNCHANGED made
  <2>1. pc'[p] = "acquire" /\ mem'[p].op = "rollback" /\ mem'[p].id = made[p]
    BY <1>3, <1>7 DEF RollsBack, StartRollback, Start, Blank
  <2>2. QED
    BY <1>5, <1>7, <2>1 DEF Joined
<1>8. CASE /\ ipc'[p] = "idle"
           /\ made' = [made EXCEPT ![p] = None]
  BY <1>1, <1>5, <1>8 DEF Joined, MadeType
<1>9. CASE ipc'[p] \notin {"idle", "reconcile"} /\ UNCHANGED <<pc, mem, result, made>>
  <2>1. ipc[p] \in AfterTuned => ipc'[p] \in AfterTuned
    BY <1>4, <1>9 DEF IP!Proceeds, IP!Finishes, AfterTuned, IP!Installing, IP!Writing,
       IP!Undoing, IP!Removing
  <2>2. QED
    BY <1>1, <1>4, <1>5, <1>9, <2>1 DEF Joined
<1>10. QED
  BY <1>6, <1>7, <1>8, <1>9 DEF InstallerStep

LEMMA ManagerJoined ==
  ASSUME JointInv, NEW p \in Proc, ReconcileStep(p) \/ ManagerStep(p)
  PROVE  Joined(p)' /\ MadeType'
<1>1. Joined(p) /\ MadeType /\ Step(p) /\ ManagerInv
  BY DEF JointInv, ReconcileStep, ManagerStep
<1>2. TypeInv /\ ControlInv /\ IP!TypeOK
  BY DEF JointInv, ManagerInv, KnownInv, TypeInv, IP!InstallerInv
<1>3. pc \in [Proc -> Calls] /\ ipc \in [Proc -> IP!Calls]
  BY <1>2 DEF ControlInv, IP!TypeOK
<1>4. pc'[p] # "idle" => SameRequest(mem[p], mem'[p])
  BY <1>1, RequestKept
<1>5. result'[p] = "applied" /\ pc'[p] = "idle" => mem[p].snap.id \in Ids
  BY <1>1, ReconcileEndsIn DEF Snapshots
<1>6. pc[p] # "idle"
  BY <1>1, StepRuns DEF ManagerInv, KnownInv
<1>7. CASE ManagerStep(p)
  <2>1. ipc'[p] = "idle" /\ ipc[p] = "idle"
    BY <1>7 DEF ManagerStep, installer
  <2>2. made' = IF pc'[p] = "idle" THEN [made EXCEPT ![p] = None] ELSE made
    BY <1>7 DEF ManagerStep
  <2>3. QED
    BY <1>1, <1>4, <1>6, <2>1, <2>2 DEF Joined, MadeType, SameRequest, AfterTuned, IP!Installing,
       IP!Undoing
<1>8. CASE ReconcileStep(p)
  <2>1. ipc[p] = "reconcile" /\ made[p] = None
    BY <1>1, <1>8, IdleMadeNone DEF ReconcileStep
  <2>2. CASE pc'[p] # "idle" /\ UNCHANGED <<ilock, ipc, imem, iresult, icancelled, made>>
    BY <1>1, <1>4, <2>1, <2>2 DEF Joined, MadeType, SameRequest
  <2>3. CASE /\ pc'[p] = "idle" /\ ReconcileEndsWell(result'[p])
             /\ ipc' = [ipc EXCEPT ![p] = "acquireInstall"]
             /\ made' = [made EXCEPT ![p] =
                           IF result'[p] = "applied" THEN mem[p].snap.id ELSE None]
    <3>1. ipc'[p] = "acquireInstall" /\ ipc'[p] \in AfterTuned
      BY <1>3, <2>3 DEF AfterTuned
    <3>2. made'[p] = IF result'[p] = "applied" THEN mem[p].snap.id ELSE None
      BY <1>1, <2>3 DEF MadeType
    <3>3. MadeType'
      BY <1>1, <1>5, <2>3 DEF MadeType
    <3>4. QED
      BY <2>3, <3>1, <3>2, <3>3 DEF Joined
  <2>4. CASE pc'[p] = "idle" /\ I!Return(p, "refused") /\ UNCHANGED made
    <3>1. ipc'[p] = "idle"
      BY <1>3, <2>4 DEF I!Return
    <3>2. QED
      BY <1>1, <2>1, <2>4, <3>1 DEF Joined, MadeType
  <2>5. QED
    BY <1>8, <2>2, <2>3, <2>4 DEF ReconcileStep
<1>9. QED
  BY <1>7, <1>8

LEMMA JointInit == SInit => JointInv
<1> SUFFICES ASSUME SInit PROVE JointInv
  OBVIOUS
<1>1. Init /\ IP!Init
  BY SameEnvironment DEF SInit
<1>2. ManagerInv
  BY <1>1, KnownInit, SnapshotInit DEF ManagerInv
<1>3. ipc = [p \in Proc |-> "idle"] /\ ilock = Free
  BY <1>1 DEF IP!Init
<1>4. IP!InstallerInv
  <2>1. IP!TypeOK
    BY <1>1, IP!TypeInit, InstallerAssumptions
  <2>2. IP!Mutex
    BY <1>3, ProcAssumption DEF IP!Mutex, IP!Locked, IP!Installing, IP!Undoing, IP!Removing
  <2>3. \A p \in Proc : IP!Phase(p)
    BY <1>3 DEF IP!Phase, IP!OwnFiles, IP!Progress, IP!Restored, IP!Undoing
  <2>4. QED
    BY <2>1, <2>2, <2>3 DEF IP!InstallerInv
<1>5. MadeType /\ \A p \in Proc : Joined(p)
  BY <1>3 DEF SInit, MadeType, Joined
<1>6. QED
  BY <1>2, <1>4, <1>5 DEF JointInv

LEMMA JointNext == JointInv /\ [SNext]_svars => JointInv'
<1> SUFFICES ASSUME JointInv, [SNext]_svars PROVE JointInv'
  OBVIOUS
<1>1. ManagerInv /\ IP!InstallerInv /\ MadeType /\ \A p \in Proc : Joined(p)
  BY DEF JointInv
<1>2. faults \in 0..MaxFaults /\ ops \in 0..MaxOps
  BY <1>1 DEF IP!InstallerInv, IP!TypeOK
<1>3. ASSUME NEW p \in Proc, Moves(p)
      PROVE  JointInv'
  <2>1. ManagerInv'
    BY <1>1, <1>3, ManagerSide, ManagerKept, ManagerStarts, ManagerRests DEF ManagerMoves, Counts
  <2>2. IP!InstallerInv'
    BY <1>1, <1>3, InstallerSide, InstallerKept, InstallerRests, InstallerGoesOn
       DEF InstallerMoves, Counts, ReconcileOver
  <2>3. MadeType' /\ Joined(p)'
    BY <1>3, StartsJoined, InstallerJoined, ManagerJoined DEF Moves, Act
  <2>4. ASSUME NEW q \in Proc \ {p}
        PROVE  Joined(q)'
    BY <1>1, <1>3, <2>4, OthersAside DEF Aside, Joined
  <2>5. QED
    BY <2>1, <2>2, <2>3, <2>4 DEF JointInv
<1>4. CASE Restart
  <2>1. ManagerInv' /\ IP!InstallerInv'
    BY <1>1, <1>4, ManagerKept, InstallerKept DEF Restart, ManagerMoves, InstallerMoves
  <2>2. made' = [p \in Proc |-> None] /\ ipc' = [p \in Proc |-> "idle"]
    BY <1>4 DEF Restart, I!Reboot
  <2>3. MadeType' /\ \A p \in Proc : Joined(p)'
    BY <2>2 DEF MadeType, Joined
  <2>4. QED
    BY <2>1, <2>3 DEF JointInv
<1>5. CASE UNCHANGED svars
  <2>1. ManagerInv' /\ IP!InstallerInv'
    BY <1>1, <1>2, <1>5, ManagerRests, InstallerRests DEF svars
  <2>2. UNCHANGED <<pc, mem, result, ipc, imem, made>>
    BY <1>5 DEF svars, manager, installer
  <2>3. MadeType' /\ \A p \in Proc : Joined(p)'
    BY <1>1, <2>2 DEF MadeType, Joined
  <2>4. QED
    BY <2>1, <2>3 DEF JointInv
<1>6. QED
  BY <1>3, <1>4, <1>5 DEF SNext, Moves

(* Run together, both components keep every invariant of their own proofs: *)
(* types, both locks, snapshots that are never lost, honest outcomes of    *)
(* Apply and restoreSnapshot, owned files that are nobody else's; and an   *)
(* installation remembers a snapshot only while it may still have to roll  *)
(* its own reconcile back, or does (serviceInstall, cli.go:302-331).       *)
THEOREM BothKeepTheirInvariants == SSpec => []JointInv
<1>1. SInit => JointInv
  BY JointInit
<1>2. JointInv /\ [SNext]_svars => JointInv'
  BY JointNext
<1>3. QED
  BY <1>1, <1>2, PTL DEF SSpec

-----------------------------------------------------------------------------
(* The history of a command, step by step.                                 *)

(* A step that changes neither the host, nor the owned files, nor anything *)
(* of p, and no snapshot, takes nothing from what p knows.                 *)
LEMMA RecallsKept ==
  ASSUME JointInv, NEW p \in Proc, Recalls(p), Aside(p), UNCHANGED <<live, file, owned>>,
         was'[p] = was[p], \A i \in Ids : snaps[i] # None => snaps'[i] = snaps[i]
  PROVE  Recalls(p)'
<1>1. SeenInv(p)'
  BY SeenKept DEF Aside, Recalls
<1>2. StaysTuned(p)'
  BY DEF Aside, Recalls, StaysTuned, TunedFor, Host
<1>3. pc[p] \in {"writeLatest"} \cup Modify => mem[p].snap \in Snapshots
  BY DEF JointInv, ManagerInv, KnownInv, TypeInv, ControlInv, LocalsOf, HasSnap
<1>4. Reconciling(p)'
  BY <1>3, FilesAssumption DEF Aside, Recalls, Reconciling, Host, Snapshots
<1>5. made[p] \in Ids \cup {None}
  BY DEF JointInv, MadeType
<1>6. Installs(p)'
  BY <1>5 DEF Aside, Recalls, Installs, Host
<1>7. RollsBackAll(p)'
  BY <1>5 DEF Aside, Recalls, RollsBackAll, Installs
<1>8. QED
  BY <1>1, <1>2, <1>4, <1>6, <1>7 DEF Recalls

(* A command that begins knows the host as it is.                          *)
LEMMA RecallsBegins ==
  ASSUME JointInv, NEW p \in Proc, Idle(p), ~Idle(p)', was'[p] = Everything,
         ManagerCommand(p) \/ ServiceCommand(p) \/ BootService(p)
  PROVE  Recalls(p)'
<1>1. Joined(p) /\ IP!TypeOK /\ TypeInv /\ ControlInv
  BY DEF JointInv, IP!InstallerInv, ManagerInv, KnownInv, TypeInv
<1>2. made[p] = None /\ made' = made
  BY <1>1, IdleMadeNone DEF Idle, ManagerCommand, ServiceCommand, BootService
<1>3. UNCHANGED <<live, file, owned>>
  BY DEF ManagerCommand, ServiceCommand, BootService, Begin, I!Begin, manager, installer
<1>4. CASE ServiceCommand(p)
  <2>1. ipc'[p] \in {"preflight", "acquireUninstall"} /\ pc'[p] = "idle"
    BY <1>1, <1>4 DEF ServiceCommand, I!Begin, Idle, IP!TypeOK, manager
  <2>2. SeenInv(p)'
    BY <2>1, SeenOver
  <2>3. QED
    BY <1>2, <1>3, <2>1, <2>2 DEF Recalls, StaysTuned, Reconciling, Installs, RollsBackAll,
       Everything, Host, IP!Installing, IP!Writing, IP!Undoing, AfterTuned
<1>5. CASE ManagerCommand(p) \/ BootService(p)
  <2>1. ipc'[p] = "idle"
    BY <1>5 DEF ManagerCommand, BootService, Idle, installer
  <2>2. Begins(p)
    <3>1. Idle(p)' <=> pc'[p] = "idle"
      BY <2>1 DEF Idle
    <3>2. StartReconcile(p, owned["profile"]) /\ owned["profile"] \in Inputs => Begins(p)
      BY BeginsWith DEF StartReconcile
    <3>3. Begin(p) => Begins(p)
      BY BeginsWith DEF Begin
    <3>4. QED
      BY <1>5, <3>1, <3>2, <3>3 DEF ManagerCommand, BootService, Idle
  <2>3. SeenInv(p)'
    BY <1>1, <2>2, SeenBegins
  <2>4. QED
    BY <1>2, <2>1, <2>3 DEF Recalls, StaysTuned, Reconciling, Installs, RollsBackAll,
       Everything, IP!Installing, IP!Writing, IP!Undoing, AfterTuned
<1>6. QED
  BY <1>4, <1>5

(* How the reconcile of an installation comes to its snapshot and keeps it. *)
Observing(p) ==
  pc'[p] = "observe" =>
    \/ pc[p] = "observe" /\ mem'[p].plan = mem[p].plan
    \/ pc[p] = "needsApply" /\ mem'[p].plan.input = mem[p].input

LEMMA LocalsChange ==
  ASSUME NEW p \in Proc, mem[p] \in Mem
  PROVE  /\ Loop(p).snap = mem[p].snap /\ Erred(Loop(p)).snap = mem[p].snap
         /\ Unseen(p).plan = mem[p].plan
         /\ \A k : /\ Did(p, k).snap = mem[p].snap /\ Did(p, k).plan = mem[p].plan
                   /\ Erred(Did(p, k)).snap = mem[p].snap
                   /\ \A v : [Did(p, k) EXCEPT !.seen[k] = v].plan = mem[p].plan
BY DEF Mem, Loop, Erred, Unseen, Did

LEMMA ReconcileUnlocked ==
  ASSUME ManagerInv, NEW p \in Proc, mem[p].op = "reconcile", pc'[p] # "idle",
         \/ DetectKey(p) \/ MakePlan(p) \/ NeedsApply(p) \/ VerifyHost(p)
         \/ AcquireLock(p) \/ LoadModule(p)
  PROVE  /\ pc[p] \in Unlocked \cup {"modprobe"}
         /\ pc'[p] \in Unlocked \cup {"modprobe", "capture"}
         /\ UNCHANGED <<live, file>>
         /\ Observing(p)
<1>1. KnownInv /\ TypeInv /\ ControlInv /\ mem[p] \in Mem
  BY DEF ManagerInv, KnownInv, TypeInv, ControlInv
<1>2. UNCHANGED <<live, file>>
  BY DEF DetectKey, MakePlan, NeedsApply, VerifyHost, AcquireLock, LoadModule
<1>3. CASE DetectKey(p)
  <2>1. PICK k \in mem[p].todo :
          /\ pc[p] \in {"detect", "observe"} /\ pc'[p] = pc[p]
          /\ mem'[p] \in {Did(p, k), [Did(p, k) EXCEPT !.seen[k] = live[k]]}
    BY <1>1, <1>3, Arrives DEF DetectKey
  <2>2. mem'[p].plan = mem[p].plan
    <3> DEFINE m == [Did(p, k) EXCEPT !.seen[k] = live[k]]
    <3>1. Did(p, k).plan = mem[p].plan /\ m.plan = mem[p].plan
      BY <1>1, LocalsChange
    <3>2. mem'[p] = Did(p, k) \/ mem'[p] = m
      BY <2>1
    <3> HIDE DEF m
    <3>3. QED
      BY <3>1, <3>2
  <2>3. QED
    BY <1>2, <2>1, <2>2 DEF Unlocked, Observing
<1>4. CASE MakePlan(p)
  <2>1. pc[p] = "detect" /\ pc'[p] \in {"acquire", "needsApply"}
    BY <1>1, <1>4, Arrives DEF MakePlan
  <2>2. QED
    BY <1>2, <2>1 DEF Unlocked, Observing
<1>5. CASE NeedsApply(p)
  <2>1. pc[p] = "needsApply" /\ pc'[p] \in {"acquire", "observe"}
    BY <1>1, <1>5, Arrives DEF NeedsApply
  <2>2. mem[p].plan.input = mem[p].input
    <3>1. mem[p].plan = BuildPlan(mem[p].input, mem[p].seen)
      BY <1>1, <2>1, PlanInUse DEF HasPlan
    <3>2. QED
      BY <3>1 DEF BuildPlan
  <2>3. pc'[p] = "observe" => mem'[p].plan = mem[p].plan
    <3>1. pc'[p] = "observe" => mem'[p] = Unseen(p)
      BY <1>1, <1>5, Arrives DEF NeedsApply
    <3>2. QED
      BY <1>1, <3>1, LocalsChange
  <2>4. QED
    BY <1>2, <2>1, <2>2, <2>3 DEF Unlocked, Observing
<1>6. CASE VerifyHost(p)
  BY <1>1, <1>6, Arrives DEF VerifyHost
<1>7. CASE AcquireLock(p)
  <2>1. pc[p] = "acquire" /\ pc'[p] = "modprobe"
    BY <1>1, <1>7, Arrives DEF AcquireLock, ControlInv
  <2>2. QED
    BY <1>2, <2>1 DEF Unlocked, Observing
<1>8. CASE LoadModule(p)
  <2>1. pc[p] = "modprobe" /\ pc'[p] = "capture"
    BY <1>1, <1>8, Arrives DEF LoadModule
  <2>2. QED
    BY <1>2, <2>1 DEF Unlocked, Observing
<1>9. QED
  BY <1>3, <1>4, <1>5, <1>6, <1>7, <1>8

KeepsSnap(p) ==
  /\ pc[p] \in Modify \cup Restore
  /\ pc'[p] \in (Modify \cup Restore) \ {"writeSysctl"}
  /\ pc'[p] \in Modify => pc[p] \in Modify
  /\ mem'[p].snap = mem[p].snap
  /\ UNCHANGED snaps

LEMMA EntersCapture ==
  ASSUME ControlInv, NEW p \in Proc, Step(p), pc'[p] = "writeSnapshot"
  PROVE  pc[p] = "capture"
<1> USE Arrives
<1>1. CASE DetectKey(p) \/ MakePlan(p) \/ NeedsApply(p) \/ VerifyHost(p)
  <2>1. \/ \E r : Return(p, r)
        \/ \E call \in Unlocked : \E m : Goto(p, call, m)
    BY <1>1 DEF DetectKey, MakePlan, NeedsApply, VerifyHost, Unlocked
  <2>2. QED
    BY <2>1 DEF Unlocked
<1>2. CASE AcquireLock(p)
  BY <1>2 DEF AcquireLock, ControlInv
<1>3. CASE LoadModule(p) \/ Capture(p) \/ WriteSnapshot(p) \/ WriteLatest(p)
  BY <1>3 DEF LoadModule, Capture, WriteSnapshot, WriteLatest
<1>4. CASE WriteSysctlFile(p) \/ WriteModulesFile(p) \/ LoadKey(p) \/ LoadEnds(p) \/ Verify(p)
  <2>1. CASE WriteSysctlFile(p) \/ WriteModulesFile(p)
    BY <2>1 DEF WriteSysctlFile, WriteModulesFile
  <2>2. CASE LoadKey(p) \/ LoadEnds(p)
    BY <2>2 DEF LoadKey, LoadEnds
  <2>3. CASE Verify(p)
    BY <2>3 DEF Verify
  <2>4. QED
    BY <1>4, <2>1, <2>2, <2>3
<1>5. CASE \/ ReadSnapshot(p) \/ RestoreKey(p) \/ VerifyRestored(p)
           \/ RestoreFile(p, "restoreModules", "modules", "restoreSysctl")
           \/ RestoreFile(p, "restoreSysctl", "sysctl", "restoreKeys")
  BY <1>5 DEF ReadSnapshot, RestoreFile, RestoreKey, VerifyRestored
<1>6. QED
  BY <1>1, <1>2, <1>3, <1>4, <1>5 DEF Step

LEMMA ReconcileLocked ==
  ASSUME ManagerInv, NEW p \in Proc, Step(p), pc'[p] # "idle",
         pc[p] \in {"capture", "writeSnapshot", "writeLatest"} \cup Modify \cup Restore
  PROVE  \/ pc[p] = "capture" /\ Captures(p)
         \/ SavesSnapshot(p) \/ SavesLatest(p) \/ KeepsSnap(p)
<1>1. TypeInv /\ ControlInv /\ mem[p] \in Mem
  BY DEF ManagerInv, KnownInv, TypeInv, ControlInv
<1>2. CASE pc'[p] \in Saving
  <2>1. Captures(p) \/ SavesSnapshot(p) \/ SavesLatest(p)
    BY <1>1, <1>2, SavingSteps
  <2>2. Captures(p) => pc[p] = "capture"
    BY <1>1, Arrives, EntersCapture DEF Captures
  <2>3. QED
    BY <2>1, <2>2
<1>3. CASE pc'[p] \notin Saving
  <2>1. ~Capture(p) /\ ~WriteSnapshot(p) /\ ~WriteLatest(p)
    <3>1. ~Capture(p)
      <4>1. Capture(p) => \/ \E r : Return(p, r)
                          \/ \E m : Goto(p, "writeSnapshot", m)
        BY DEF Capture
      <4>2. QED
        BY <1>1, <1>3, <4>1, Arrives DEF Saving
    <3>2. ~WriteSnapshot(p) /\ ~WriteLatest(p)
      BY <1>1, <1>3, Arrives DEF WriteSnapshot, WriteLatest, Saving
    <3>3. QED
      BY <3>1, <3>2
  <2>2. CASE StartRestore(p, mem[p]) /\ pc[p] \in Modify /\ UNCHANGED snaps
    BY <1>1, <2>2, Arrives, ArrivesRestore DEF KeepsSnap, Modify, Restore
  <2>3. CASE WriteSysctlFile(p) \/ WriteModulesFile(p)
    <3>1. CASE StartRestore(p, mem[p])
      BY <2>2, <2>3, <3>1 DEF WriteSysctlFile, WriteModulesFile, Modify
    <3>2. CASE ~StartRestore(p, mem[p])
      <4>1. /\ pc[p] \in Modify /\ pc'[p] \in {"writeModules", "load"}
            /\ mem'[p] \in {mem[p], Loop(p)} /\ UNCHANGED snaps
        BY <1>1, <2>3, <3>2, Arrives DEF WriteSysctlFile, WriteModulesFile, Modify
      <4>2. QED
        BY <1>1, <4>1, LocalsChange DEF KeepsSnap, Modify
    <3>3. QED
      BY <3>1, <3>2
  <2>4. CASE LoadKey(p)
    <3>1. PICK k : /\ pc[p] = "load" /\ pc'[p] = "load"
                   /\ mem'[p] \in {Did(p, k), Erred(Did(p, k))} /\ UNCHANGED snaps
      BY <1>1, <2>4, Arrives DEF LoadKey
    <3>2. QED
      BY <1>1, <3>1, LocalsChange DEF KeepsSnap, Modify
  <2>5. CASE LoadEnds(p) \/ Verify(p)
    <3>1. CASE StartRestore(p, mem[p])
      BY <2>2, <2>5, <3>1 DEF LoadEnds, Verify, Modify
    <3>2. CASE ~StartRestore(p, mem[p])
      <4>1. pc[p] \in Modify /\ pc'[p] = "verify" /\ mem'[p] = mem[p] /\ UNCHANGED snaps
        BY <1>1, <2>5, <3>2, Arrives DEF LoadEnds, Verify, Modify
      <4>2. QED
        BY <4>1 DEF KeepsSnap, Modify
    <3>3. QED
      BY <3>1, <3>2
  <2>6. CASE \/ RestoreFile(p, "restoreModules", "modules", "restoreSysctl")
             \/ RestoreFile(p, "restoreSysctl", "sysctl", "restoreKeys")
    <3>1. /\ pc[p] \in Restore /\ pc'[p] \in Restore
          /\ mem'[p] \in {Loop(p), Erred(Loop(p))} /\ UNCHANGED snaps
      BY <1>1, <2>6, Arrives DEF RestoreFile, Restore
    <3>2. QED
      BY <1>1, <3>1, LocalsChange DEF KeepsSnap, Modify, Restore
  <2>7. CASE RestoreKey(p) \/ VerifyRestored(p)
    <3>1. PICK k : /\ pc[p] = "restoreKeys" /\ pc'[p] = "restoreKeys"
                   /\ mem'[p] \in {Did(p, k), Erred(Did(p, k))} /\ UNCHANGED snaps
      BY <1>1, <2>7, Arrives DEF RestoreKey, VerifyRestored
    <3>2. QED
      BY <1>1, <3>1, LocalsChange DEF KeepsSnap, Modify, Restore
  <2>8. QED
    BY <2>1, <2>3, <2>4, <2>5, <2>6, <2>7 DEF Step, DetectKey, MakePlan, NeedsApply, VerifyHost,
       AcquireLock, LoadModule, ReadSnapshot, Modify, Restore
<1>4. QED
  BY <1>2, <1>3

LEMMA RollbackReads ==
  ASSUME ManagerInv, NEW p \in Proc, Step(p), mem[p].op = "rollback", mem[p].id # None,
         pc'[p] \in Restore
  PROVE  \/ pc[p] = "readSnapshot" /\ mem'[p].snap = snaps[mem[p].id] /\ UNCHANGED snaps
         \/ pc[p] \in Restore /\ KeepsSnap(p)
<1>1. TypeInv /\ ControlInv /\ CommandInv /\ mem[p] \in Mem
  BY DEF ManagerInv, KnownInv, TypeInv, ControlInv
<1>2. CommandOf(pc[p], mem[p]) /\ pc[p] # "idle" /\ pc[p] \in Calls
  BY <1>1, StepRuns DEF ControlInv
<1>3. pc[p] \in {"acquire", "readSnapshot"} \cup Restore
  BY <1>2 DEF CommandOf, HasPlan, Calls, Unlocked, Locked, Prepare, Modify
<1>4. CASE pc[p] \in Restore
  <2>1. pc'[p] # "idle"
    BY DEF Restore
  <2>2. ~Captures(p) /\ ~SavesSnapshot(p) /\ ~SavesLatest(p)
    BY <1>4 DEF Captures, SavesSnapshot, SavesLatest, Restore
  <2>3. QED
    BY <1>4, <2>1, <2>2, ReconcileLocked
<1>5. CASE pc[p] = "acquire"
  <2>1. AcquireLock(p)
    BY <1>5 DEF Step, DetectKey, MakePlan, NeedsApply, VerifyHost, LoadModule, Capture,
       WriteSnapshot, WriteLatest, WriteSysctlFile, WriteModulesFile, LoadKey, LoadEnds, Verify,
       ReadSnapshot, RestoreFile, RestoreKey, VerifyRestored
  <2>2. pc'[p] \in {"readSnapshot", "idle"}
    BY <1>1, <2>1, Arrives DEF AcquireLock, ControlInv
  <2>3. QED
    BY <2>2 DEF Restore
<1>6. CASE pc[p] = "readSnapshot"
  <2>1. ReadSnapshot(p)
    BY <1>6 DEF Step, DetectKey, MakePlan, NeedsApply, VerifyHost, AcquireLock, LoadModule, Capture,
       WriteSnapshot, WriteLatest, WriteSysctlFile, WriteModulesFile, LoadKey, LoadEnds, Verify,
       RestoreFile, RestoreKey, VerifyRestored
  <2>2. snaps[mem[p].id] # None /\ StartRestore(p, [mem[p] EXCEPT !.snap = snaps[mem[p].id]])
    BY <1>1, <2>1, Arrives DEF ReadSnapshot, Restore
  <2>3. snaps[mem[p].id] \in Snapshots
    BY <1>1, <2>2 DEF TypeInv, DataType, Mem
  <2>4. [mem[p] EXCEPT !.snap = snaps[mem[p].id]] \in Mem
        /\ [mem[p] EXCEPT !.snap = snaps[mem[p].id]].snap = snaps[mem[p].id]
    BY <1>1, <2>3 DEF Mem
  <2>5. mem'[p].snap = snaps[mem[p].id]
    BY <1>1, <2>2, <2>4, ArrivesRestore
  <2>6. QED
    BY <1>6, <2>1, <2>5 DEF ReadSnapshot
<1>7. QED
  BY <1>3, <1>4, <1>5, <1>6

LEMMA SnapshotsGrow ==
  ASSUME JointInv, [SNext]_svars, NEW i \in Ids, snaps[i] # None
  PROVE  snaps'[i] = snaps[i]
<1>1. TypeInv /\ SnapshotInv
  BY DEF JointInv, ManagerInv, KnownInv
<1>2. CASE [Next]_vars
  BY <1>1, <1>2, SnapshotKeptStep
<1>3. CASE \E p \in Proc : Moves(p)
  <2>1. PICK p \in Proc : Moves(p)
    BY <1>3
  <2>2. [Next]_vars \/ UNCHANGED snaps
    BY <2>1, ManagerSide DEF Next, ManagerBegins, manager
  <2>3. QED
    BY <1>2, <2>2
<1>4. CASE Restart \/ UNCHANGED svars
  BY <1>4 DEF Restart, Reboot, svars, manager
<1>5. QED
  BY <1>3, <1>4 DEF SNext, Moves

LEMMA RecallsRollback ==
  ASSUME JointInv, [SNext]_svars, NEW p \in Proc, Recalls(p), ManagerStep(p), pc'[p] # "idle",
         was'[p] = was[p]
  PROVE  Recalls(p)'
<1>1. ManagerInv /\ KnownInv /\ Joined(p) /\ MadeType /\ Step(p)
  BY DEF JointInv, ManagerInv, ManagerStep
<1>2. ipc[p] = "idle" /\ UNCHANGED <<ipc, imem, iresult, owned, made>>
  BY DEF ManagerStep, installer
<1>3. SeenInv(p)'
  BY <1>1, SeenStep DEF Recalls
<1>4. StaysTuned(p)' /\ Reconciling(p)'
  BY <1>2 DEF StaysTuned, Reconciling, IP!Installing
<1>5. made[p] # None => snaps'[made[p]] = snaps[made[p]] /\ snaps[made[p]] # None
  BY <1>1, SnapshotsGrow DEF MadeType, Recalls, Installs
<1>6. Installs(p)'
  BY <1>2, <1>5 DEF Recalls, Installs, IP!Writing, IP!Undoing, IP!Installing, AfterTuned
<1>7. RollsBackAll(p)'
  <2>1. SUFFICES ASSUME made[p] # None
                 PROVE  /\ iresult[p] # "dirty" => owned = was[p].owned
                        /\ pc'[p] \in Restore => mem'[p].snap = snaps[made[p]]
    BY <1>2, <1>5 DEF RollsBackAll
  <2>2. mem[p].op = "rollback" /\ mem[p].id = made[p]
    BY <1>1, <1>2, <2>1 DEF Joined, AfterTuned, IP!Installing, IP!Undoing
  <2>3. ASSUME pc'[p] \in Restore
        PROVE  mem'[p].snap = snaps[made[p]]
    BY <1>1, <1>2, <2>1, <2>2, <2>3, RollbackReads DEF KeepsSnap, Recalls, RollsBackAll
  <2>4. QED
    BY <1>2, <2>1, <2>3 DEF Recalls, RollsBackAll
<1>8. QED
  BY <1>3, <1>4, <1>6, <1>7 DEF Recalls

(* The reconcile goes on.                                                  *)
LEMMA ReconcileKnows ==
  ASSUME JointInv, [SNext]_svars, NEW p \in Proc, Recalls(p), ReconcileStep(p),
         pc'[p] # "idle", was'[p] = was[p]
  PROVE  Reconciling(p)'
<1>1. ManagerInv /\ KnownInv /\ Joined(p) /\ Step(p) /\ ipc[p] = "reconcile"
  BY DEF JointInv, ManagerInv, ReconcileStep
<1>2. UNCHANGED <<ipc, imem, owned>>
  BY <1>1 DEF ReconcileStep, JointInv, IP!InstallerInv, IP!TypeOK, I!Return
<1>3. TypeInv /\ ControlInv /\ CommandInv
  BY <1>1 DEF KnownInv, TypeInv
<1>4. CommandOf(pc[p], mem[p]) /\ pc[p] \in Calls \ {"idle"} /\ LocalsOf(pc[p], mem[p])
  BY <1>1, <1>3, StepRuns DEF ControlInv
<1>5. mem[p].op = "reconcile" /\ mem[p].input = imem[p].profile
  BY <1>1 DEF Joined
<1>6. Reconciling(p)
  BY DEF Recalls
<1>7. CASE pc[p] \in Unlocked \cup {"modprobe"}
  <2>1. /\ pc'[p] \in Unlocked \cup {"modprobe", "capture"}
        /\ UNCHANGED <<live, file>>
        /\ Observing(p)
    BY <1>1, <1>5, <1>7, ReconcileUnlocked DEF Step, Capture, WriteSnapshot, WriteLatest,
       WriteSysctlFile, WriteModulesFile, LoadKey, LoadEnds, Verify, ReadSnapshot, RestoreFile,
       RestoreKey, VerifyRestored, Unlocked
  <2>2. Host' = was[p].host /\ owned' = was[p].owned
    BY <1>1, <1>2, <1>6, <1>7, <2>1 DEF Reconciling, Prepare, Host
  <2>3. pc'[p] = "observe" => mem'[p].plan.input = imem[p].profile
    BY <1>1, <1>5, <1>6, <2>1 DEF Observing, Reconciling
  <2>4. QED
    BY <1>2, <2>1, <2>2, <2>3 DEF Reconciling, HasSnap, Modify, Restore, Unlocked
<1>8. CASE pc[p] \notin Unlocked \cup {"modprobe"}
  <2>1. pc[p] \in {"capture", "writeSnapshot", "writeLatest"} \cup Modify \cup Restore
    BY <1>4, <1>5, <1>8 DEF CommandOf, Calls, Locked, Prepare
  <2>2. CASE pc[p] = "capture" /\ Captures(p)
    <3>1. Host = was[p].host /\ owned = was[p].owned
      BY <1>1, <1>6, <2>2 DEF Reconciling, Prepare
    <3>2. Saved(mem'[p].snap) = Host
      BY <2>2 DEF Captures, Saved, Host
    <3>3. QED
      BY <1>2, <2>2, <3>1, <3>2 DEF Reconciling, Captures, Host, HasSnap, Modify
  <2>3. CASE SavesSnapshot(p)
    <3>1. mem[p].snap \in Snapshots
      BY <1>4, <2>3 DEF SavesSnapshot, LocalsOf, HasSnap
    <3>2. snaps'[mem[p].snap.id] = mem[p].snap
      BY <1>3, <2>3, <3>1 DEF SavesSnapshot, TypeInv, DataType, Snapshots
    <3>3. QED
      BY <1>1, <1>2, <1>6, <2>3, <3>2 DEF Reconciling, SavesSnapshot, Host, HasSnap, Prepare
  <2>4. CASE SavesLatest(p)
    BY <1>1, <1>2, <1>6, <2>4 DEF Reconciling, SavesLatest, Host, HasSnap, Prepare, Modify
  <2>5. CASE KeepsSnap(p)
    <3>1. pc'[p] \notin Unlocked \cup Prepare \cup {"writeSysctl", "observe"}
      BY <2>5 DEF KeepsSnap, Modify, Restore, Unlocked, Prepare
    <3>2. Saved(mem'[p].snap) = was[p].host
      BY <1>1, <1>6, <2>5 DEF Reconciling, KeepsSnap, HasSnap
    <3>3. pc'[p] \in {"writeLatest"} \cup Modify => snaps'[mem'[p].snap.id] = mem'[p].snap
      BY <1>1, <1>6, <2>5 DEF Reconciling, KeepsSnap, Modify, Restore
    <3>4. QED
      BY <1>1, <1>2, <1>6, <3>1, <3>2, <3>3 DEF Reconciling
  <2>6. QED
    BY <1>1, <2>1, <2>2, <2>3, <2>4, <2>5, ReconcileLocked
<1>9. QED
  BY <1>7, <1>8

(* It has ended well: the host is tuned for the profile, and the snapshot  *)
(* is remembered if there was something to change.                         *)
LEMMA ReconcileEndedWell ==
  ASSUME JointInv, [SNext]_svars, NEW p \in Proc, Recalls(p), ReconcileStep(p),
         pc'[p] = "idle", ReconcileEndsWell(result'[p]),
         ipc' = [ipc EXCEPT ![p] = "acquireInstall"],
         made' = [made EXCEPT ![p] = IF result'[p] = "applied" THEN mem[p].snap.id ELSE None],
         UNCHANGED imem, was'[p] = was[p]
  PROVE  Recalls(p)'
<1>1. ManagerInv /\ KnownInv /\ Joined(p) /\ MadeType /\ Step(p) /\ ipc[p] = "reconcile"
      /\ UNCHANGED owned
  BY DEF JointInv, ManagerInv, ReconcileStep
<1>2. TypeInv /\ ControlInv /\ CommandInv /\ [Next]_vars
  BY <1>1 DEF KnownInv, TypeInv, Next
<1>3. ipc'[p] = "acquireInstall"
  BY DEF JointInv, IP!InstallerInv, IP!TypeOK
<1>4. made'[p] = IF result'[p] = "applied" THEN mem[p].snap.id ELSE None
  BY <1>1 DEF MadeType
<1>5. mem[p].op = "reconcile" /\ mem[p].input = imem[p].profile /\ owned = was[p].owned
  BY <1>1 DEF Joined, Recalls, Reconciling
<1>6. result[p] = "running" /\ CommandOf(pc[p], mem[p]) /\ mem[p] \in Mem
  BY <1>1, <1>2, StepRuns DEF ControlInv
<1>7. SeenInv(p)' /\ Reconciling(p)' /\ RollsBackAll(p)'
  BY <1>3, SeenOver DEF Reconciling, RollsBackAll
<1>8. CASE result'[p] = "applied"
  <2>1. pc[p] = "verify" /\ Ends(p, "applied") /\ mem[p].snap \in Snapshots
    BY <1>1, <1>8, ReconcileEndsIn
  <2>2. mem[p].snap.id \in Ids /\ mem[p].snap.id # None
    BY <2>1, NoneAssumption DEF Snapshots
  <2>3. snaps[mem[p].snap.id] = mem[p].snap /\ Saved(mem[p].snap) = was[p].host
    BY <1>1, <2>1 DEF Recalls, Reconciling, HasSnap, Modify
  <2>4. snaps[mem[p].snap.id] # None
    BY <2>1, <2>3, FilesAssumption
  <2>5. snaps'[mem[p].snap.id] = mem[p].snap
    BY <2>2, <2>3, <2>4, SnapshotsGrow
  <2>6. mem[p].plan = BuildPlan(mem[p].input, mem[p].seen)
    BY <1>1, <2>1, PlanInUse DEF HasPlan, Modify
  <2>7. mem[p].plan.input = imem[p].profile
    BY <1>5, <2>6 DEF BuildPlan
  <2>8. StaysTuned(p)'
    BY <1>1, <1>2, <2>1, <2>7, AppliedAgain DEF StaysTuned, TunedFor
  <2>9. Installs(p)'
    BY <1>1, <1>3, <1>4, <1>5, <1>8, <2>2, <2>3, <2>4, <2>5
       DEF Installs, IP!Writing, IP!Undoing
  <2>10. QED
    BY <1>7, <2>8, <2>9 DEF Recalls
<1>9. CASE result'[p] = "unchanged"
  <2>1. pc[p] = "observe" /\ UNCHANGED <<live, file>>
    BY <1>2, <1>6, <1>9, EndsUnchanged DEF Ends
  <2>2. Settled(p) /\ mem[p].plan.input = imem[p].profile /\ Host = was[p].host
    BY <1>1, <1>5, <2>1 DEF Recalls, SeenInv, Reconciling, Unlocked
  <2>3. live = mem[p].plan.sysctls
    BY <2>2 DEF Settled, Host, Target
  <2>4. Host = Target(BuildPlan(imem[p].profile, live))
    BY <2>2, <2>3 DEF Settled
  <2>5. Host' = Host
    BY <2>1 DEF Host
  <2>6. StaysTuned(p)'
    BY <2>1, <2>4, <2>5 DEF StaysTuned, TunedFor
  <2>7. Installs(p)'
    BY <1>1, <1>3, <1>4, <1>5, <1>9, <2>2, <2>5 DEF Installs, IP!Writing, IP!Undoing
  <2>8. QED
    BY <1>7, <2>6, <2>7 DEF Recalls
<1>10. QED
  BY <1>8, <1>9 DEF ReconcileEndsWell

LEMMA RecallsReconcile ==
  ASSUME JointInv, [SNext]_svars, NEW p \in Proc, Recalls(p), ReconcileStep(p), ~Idle(p)',
         was'[p] = was[p]
  PROVE  Recalls(p)'
<1>1. ManagerInv /\ KnownInv /\ Joined(p) /\ Step(p) /\ ipc[p] = "reconcile"
  BY DEF JointInv, ManagerInv, ReconcileStep
<1>2. CASE pc'[p] # "idle"
  <2>1. ipc'[p] = "reconcile" /\ made' = made /\ made[p] = None
    BY <1>1, <1>2, IdleMadeNone DEF ReconcileStep
  <2>2. SeenInv(p)'
    BY <1>1, SeenStep DEF Recalls
  <2>3. Reconciling(p)'
    BY <1>2, ReconcileKnows
  <2>4. QED
    BY <2>1, <2>2, <2>3 DEF Recalls, StaysTuned, Installs, RollsBackAll, AfterTuned,
       IP!Installing, IP!Writing, IP!Undoing
<1>3. CASE pc'[p] = "idle" /\ ReconcileEndsWell(result'[p])
           /\ ipc' = [ipc EXCEPT ![p] = "acquireInstall"]
           /\ made' = [made EXCEPT ![p] =
                         IF result'[p] = "applied" THEN mem[p].snap.id ELSE None]
           /\ UNCHANGED imem
  BY <1>3, ReconcileEndedWell
<1>4. CASE pc'[p] = "idle" /\ I!Return(p, "refused")
  BY <1>1, <1>4 DEF Idle, I!Return, JointInv, IP!InstallerInv, IP!TypeOK
<1>5. QED
  BY <1>2, <1>3, <1>4 DEF ReconcileStep

LEMMA RecallsInstaller ==
  ASSUME JointInv, NEW p \in Proc, Recalls(p), InstallerStep(p), ~Idle(p)', was'[p] = was[p]
  PROVE  Recalls(p)'
<1>1. Joined(p) /\ MadeType /\ ControlInv /\ IP!InstallerInv /\ I!OwnStep(p)
  BY DEF JointInv, ManagerInv, KnownInv, TypeInv, InstallerStep
<1>2. UNCHANGED <<live, file, snaps>>
  BY DEF InstallerStep
<1>3. pc[p] = "idle" /\ (ManagerBegins(p) \/ UNCHANGED <<pc, mem, result>>)
  BY InstallerStarts DEF manager
<1>4. SeenInv(p)'
  BY <1>1, <1>3, SeenBegins, SeenOver DEF ManagerBegins
<1>5. ipc[p] \notin {"idle", "reconcile"} /\ (IP!Proceeds(p) \/ IP!Finishes(p))
  BY <1>1, OwnStepMoves
<1>6. StaysTuned(p) /\ Installs(p)
  BY DEF Recalls
<1>7. CASE IP!Proceeds(p) /\ ipc'[p] = "reconcile"
  <2>1. ipc[p] = "preflight" /\ owned' = owned /\ imem'[p] = imem[p]
    BY <1>7 DEF IP!Proceeds, IP!Writing, IP!Undoing, IP!Removing
  <2>2. made' = made /\ made[p] = None /\ StartReconcile(p, imem[p].profile)
    BY <1>1, <1>7, <2>1, IdleMadeNone DEF InstallerStep
  <2>3. pc'[p] = "detect"
    BY <1>1, <2>2 DEF StartReconcile, Start, ControlInv
  <2>4. Host' = was[p].host /\ owned' = was[p].owned
    BY <1>2, <1>6, <2>1, <2>2 DEF Installs, Host
  <2>5. QED
    BY <1>4, <1>7, <2>2, <2>3, <2>4 DEF Recalls, StaysTuned, Reconciling, Installs, RollsBackAll,
       HasSnap, Modify, Restore, AfterTuned, IP!Installing, IP!Writing, IP!Undoing
<1>8. CASE IP!Proceeds(p) /\ ipc'[p] # "reconcile"
  <2>1. ipc'[p] # "idle" /\ made' = made
    BY <1>8 DEF IP!Proceeds, IP!Writing, IP!Undoing, IP!Removing, InstallerStep
  <2>2. Reconciling(p)' /\ RollsBackAll(p)'
    BY <1>8, <2>1 DEF Reconciling, RollsBackAll
  <2>3. StaysTuned(p)'
    BY <1>2, <1>6, <1>8 DEF IP!Proceeds, StaysTuned, TunedFor, Host, IP!Installing, IP!Writing,
       IP!Undoing, IP!Removing
  <2>4. Installs(p)'
    BY <1>2, <1>6, <1>8, <2>1 DEF IP!Proceeds, Installs, Host, AfterTuned, IP!Installing,
       IP!Writing, IP!Undoing, IP!Removing
  <2>5. QED
    BY <1>4, <2>2, <2>3, <2>4 DEF Recalls
<1>9. CASE IP!Finishes(p)
  <2>1. ipc'[p] = "idle" /\ pc'[p] # "idle"
    BY <1>9 DEF IP!Finishes, Idle
  <2>2. RollsBack(p) /\ made' = made /\ iresult'[p] # "installed"
    BY <1>3, <2>1 DEF InstallerStep
  <2>3. made[p] # None /\ pc'[p] = "acquire"
    BY <1>1, <2>2 DEF RollsBack, StartRollback, Start, ControlInv
  <2>4. ipc[p] \in AfterTuned
    BY <1>1, <1>5, <2>3 DEF Joined
  <2>5. iresult'[p] # "dirty" => owned' = was[p].owned
    BY <1>6, <1>9, <2>2, <2>4 DEF IP!Finishes, Installs, AfterTuned, IP!Installing, IP!Writing,
       IP!Undoing
  <2>6. Installs(p)'
    BY <1>2, <1>6, <2>1, <2>2 DEF Installs, AfterTuned, IP!Installing, IP!Writing, IP!Undoing
  <2>7. QED
    BY <1>4, <2>1, <2>3, <2>5, <2>6 DEF Recalls, StaysTuned, Reconciling, RollsBackAll, Restore,
       IP!Installing
<1>10. QED
  BY <1>5, <1>7, <1>8, <1>9

(* What the history variable is after a step, for the command that makes   *)
(* the step and for the others.                                            *)
LEMMA HistoryNext == JointInv /\ HistoryInv /\ [SNext]_svars => HistoryInv'
<1> SUFFICES ASSUME JointInv, HistoryInv, [SNext]_svars, NEW q \in Proc, was'[q] # None
             PROVE  Recalls(q)'
  BY DEF HistoryInv
<1>1. \A i \in Ids : snaps[i] # None => snaps'[i] = snaps[i]
  BY SnapshotsGrow
<1>2. ASSUME NEW p \in Proc, Moves(p), Note({p})
      PROVE  Recalls(q)'
  <2>1. ~Idle(q)'
    BY <1>2 DEF Note
  <2>2. CASE q # p
    <3>1. Aside(q)
      BY <1>2, <2>2, OthersAside
    <3>2. ~Idle(q)
      BY <2>1, <3>1 DEF Idle, Aside
    <3>3. was'[q] = was[q] /\ Everything' = Everything
      BY <1>2, <2>1, <2>2, <3>2 DEF Note
    <3>4. UNCHANGED <<live, file, owned>>
      BY <3>3 DEF Everything, Host
    <3>5. Recalls(q)
      BY <3>3 DEF HistoryInv
    <3>6. QED
      BY <1>1, <3>1, <3>3, <3>4, <3>5, RecallsKept
  <2>3. CASE q = p /\ Idle(q)
    <3>1. was'[q] = Everything
      BY <1>2, <2>1, <2>3 DEF Note
    <3>2. ~Act(p) /\ ~Signal(p) /\ ~Death(p)
      <4>1. JointInv => Joined(p) /\ IP!InstallerInv /\ ManagerInv
        BY DEF JointInv
      <4>2. ~InstallerStep(p)
        BY <2>3, <4>1, OwnStepMoves DEF InstallerStep, Idle
      <4>3. ~ReconcileStep(p) /\ ~ManagerStep(p)
        BY <2>3, <4>1, StepRuns DEF ReconcileStep, ManagerStep, Idle, ManagerInv, KnownInv
      <4>4. QED
        BY <2>3, <4>2, <4>3 DEF Act, Signal, Death, Meets
    <3>3. QED
      BY <1>2, <2>1, <2>3, <3>1, <3>2, RecallsBegins DEF Moves
  <2>4. CASE q = p /\ ~Idle(q)
    <3>1. was'[p] = was[p] /\ ~Idle(p)'
      BY <1>2, <2>1, <2>4 DEF Note
    <3>2. Recalls(p)
      BY <2>4, <3>1 DEF HistoryInv
    <3>3. CASE InstallerStep(p)
      BY <2>4, <3>1, <3>2, <3>3, RecallsInstaller
    <3>4. CASE ReconcileStep(p)
      BY <2>4, <3>1, <3>2, <3>4, RecallsReconcile
    <3>5. CASE ManagerStep(p)
      <4>1. pc'[p] # "idle"
        BY <3>1, <3>5 DEF ManagerStep, installer, Idle
      <4>2. QED
        BY <2>4, <3>1, <3>2, <3>5, <4>1, RecallsRollback
    <3>6. CASE Signal(p)
      <4>1. Aside(p) /\ UNCHANGED <<live, file, owned>>
        BY <3>6 DEF Signal, Meets, Cancel, I!Cancel, manager, installer, Aside
      <4>2. QED
        BY <1>1, <2>4, <3>1, <3>2, <4>1, RecallsKept
    <3>7. CASE Death(p)
      <4>1. JointInv => ControlInv /\ IP!TypeOK
        BY DEF JointInv, ManagerInv, KnownInv, TypeInv, IP!InstallerInv
      <4>2. pc'[p] = "idle" /\ ipc'[p] = "idle"
        BY <3>7, <4>1 DEF Death, Meets, Kill, Return, I!Kill, I!Return, manager, installer,
           ControlInv, IP!TypeOK
      <4>3. QED
        BY <3>1, <4>2 DEF Idle
    <3>8. QED
      BY <1>2, <2>4, <3>1, <3>3, <3>4, <3>5, <3>6, <3>7 DEF Moves, Act, ManagerCommand,
         ServiceCommand, BootService
  <2>5. QED
    BY <2>2, <2>3, <2>4
<1>3. CASE Restart /\ Note({})
  BY <1>3 DEF Restart, Reboot, I!Reboot, Note, Idle
<1>4. CASE UNCHANGED svars
  <2>1. Aside(q) /\ UNCHANGED <<live, file, owned>> /\ was' = was
    BY <1>4 DEF svars, manager, installer, Aside
  <2>2. Recalls(q)
    BY <2>1 DEF HistoryInv
  <2>3. QED
    BY <1>1, <2>1, <2>2, RecallsKept
<1>5. QED
  BY <1>2, <1>3, <1>4 DEF SNext, Moves

LEMMA HistoryHolds == SSpec => [](JointInv /\ HistoryInv)
<1>1. SInit => JointInv /\ HistoryInv
  BY JointInit DEF SInit, HistoryInv
<1>2. JointInv /\ HistoryInv /\ [SNext]_svars => JointInv' /\ HistoryInv'
  BY JointNext, HistoryNext
<1>3. QED
  BY <1>1, <1>2, PTL DEF SSpec

-----------------------------------------------------------------------------
(* How the commands end.                                                   *)

(* Only the manager's own steps end a command of the manager with a        *)
(* verdict.                                                                *)
LEMMA EndsByStep ==
  ASSUME JointInv, [SNext]_svars, NEW p \in Proc, NEW r \in Results \ {"running", "killed"},
         Ends(p, r)
  PROVE  Step(p) /\ (ReconcileStep(p) \/ ManagerStep(p))
<1>1. result[p] = "running" /\ result'[p] = r /\ ControlInv
  BY DEF Ends, JointInv, ManagerInv, KnownInv, TypeInv
<1>2. ASSUME NEW q \in Proc, Moves(q)
      PROVE  q = p /\ (ReconcileStep(q) \/ ManagerStep(q))
  <2>1. q = p
    BY <1>1, <1>2, OthersAside DEF Aside
  <2>2. ~ManagerBegins(p) /\ ~UNCHANGED manager
    BY <1>1 DEF ManagerBegins, Begins, Start, ControlInv, manager
  <2>3. ~Begin(p) /\ ~Cancel(p) /\ ~Kill(p)
    BY <1>1 DEF Begin, Start, Cancel, Kill, Return, ControlInv
  <2>4. ~ManagerCommand(p) /\ ~ServiceCommand(p) /\ ~Signal(p) /\ ~Death(p)
    BY <2>2, <2>3 DEF ManagerCommand, ServiceCommand, Signal, Death, Meets
  <2>5. ~BootService(p)
    BY <1>1 DEF BootService, StartReconcile, Start, ControlInv
  <2>6. ~InstallerStep(p)
    BY <2>2, InstallerStarts
  <2>7. QED
    BY <1>2, <2>1, <2>4, <2>5, <2>6 DEF Moves, Act
<1>3. ~Restart /\ ~UNCHANGED svars
  BY <1>1 DEF Restart, Reboot, svars, manager
<1>4. QED
  BY <1>2, <1>3 DEF SNext, Moves, ReconcileStep, ManagerStep

LEMMA EndsVerdict ==
  ASSUME ManagerInv, NEW p \in Proc, Step(p), Ends(p, "verified") \/ Ends(p, "drifted")
  PROVE  VerifyHost(p)
<1>1. TypeInv /\ ControlInv /\ [Next]_vars
  BY DEF ManagerInv, KnownInv, TypeInv, Next
<1>2. PICK r \in {"verified", "drifted"} : Ends(p, r)
  OBVIOUS
<1>3. r \in Results \ {"killed"} /\ r # "running"
  BY DEF Results
<1>4. \A s : Return(p, s) => s = r
  BY <1>1, <1>2, <1>3, EndsReturning
<1>5. \A call, m : ~Goto(p, call, m)
  BY <1>1, <1>2, <1>3, EndsReturning
<1>6. \A m : ~StartRestore(p, m)
  BY <1>5 DEF StartRestore
<1>7. ~DetectKey(p) /\ ~MakePlan(p) /\ ~NeedsApply(p) /\ ~LoadModule(p)
  BY <1>4, <1>5 DEF DetectKey, MakePlan, NeedsApply, LoadModule
<1>8. ~AcquireLock(p)
  BY <1>2, <1>4 DEF AcquireLock, Ends
<1>9. ~Capture(p) /\ ~WriteSnapshot(p) /\ ~WriteLatest(p)
  BY <1>4, <1>5 DEF Capture, WriteSnapshot, WriteLatest
<1>10. ~WriteSysctlFile(p) /\ ~WriteModulesFile(p) /\ ~LoadKey(p) /\ ~LoadEnds(p) /\ ~Verify(p)
  BY <1>4, <1>5, <1>6 DEF WriteSysctlFile, WriteModulesFile, LoadKey, LoadEnds, Verify
<1>11. ~ReadSnapshot(p) /\ ~RestoreKey(p) /\ ~VerifyRestored(p)
       /\ \A here, f, there : ~RestoreFile(p, here, f, there)
  BY <1>4, <1>5, <1>6 DEF ReadSnapshot, RestoreKey, VerifyRestored, RestoreFile
<1>12. QED
  BY <1>7, <1>8, <1>9, <1>10, <1>11 DEF Step

(* verify compares what it has seen with what is expected, so that its     *)
(* verdict is right if nothing has changed since.                          *)
LEMMA VerdictStep ==
  ASSUME JointInv, HistoryInv, [SNext]_svars, NEW p \in Proc, was[p] # None,
         file["sysctl"] \in Rendered \cup {Absent},
         \A k \in Keys : mem[p].seen[k] # None,
         faults' = faults,
         NEW r \in {"verified", "drifted"}, Ends(p, r)
  PROVE  VerifyMaps(live, Expected(file["sysctl"])) <=> r = "verified"
<1>1. ManagerInv /\ TypeInv /\ ControlInv /\ DataType /\ SeenInv(p)
  BY DEF JointInv, ManagerInv, KnownInv, TypeInv, HistoryInv, Recalls
<1>2. VerifyHost(p)
  <2>1. Step(p)
    BY EndsByStep DEF Results
  <2>2. QED
    BY <1>1, <2>1, EndsVerdict
<1>3. pc[p] = "observe"
  BY <1>2 DEF VerifyHost
<1>4. \A k \in Keys : mem[p].seen[k] = live[k]
  BY <1>1, <1>3 DEF SeenInv, Early, Unlocked, Fresh
<1>5. DOMAIN Expected(file["sysctl"]) \subseteq Keys
  BY BuiltinAssumption DEF Expected, Rendered
<1>6. Observes(p) <=> VerifyMaps(live, Expected(file["sysctl"]))
  BY <1>4, <1>5 DEF Observes, VerifyMaps
<1>7. \A s : Return(p, s) => s = r
  BY <1>1 DEF Return, Ends, ControlInv
<1>8. ~Fault("drift")
  BY <1>1, FaultsAssumption DEF Fault, DataType
<1>9. Return(p, Verdict(p, Observes(p)))
  BY <1>2, <1>7, <1>8 DEF VerifyHost
<1>10. Verdict(p, Observes(p)) = r
  BY <1>7, <1>9
<1>11. QED
  BY <1>6, <1>10 DEF Verdict

(* VerdictIsRight: verify says that the host is as expected exactly when   *)
(* it is, if nobody changes the host from its first look to its last       *)
(* (manager.go:155-173).  What it has seen is then still so (SeenInv).     *)
THEOREM VerdictIsTrue == SSpec => VerdictIsRight
<1>1. JointInv /\ HistoryInv /\ [SNext]_svars =>
        [\A p \in Proc :
           /\ was[p] # None /\ file["sysctl"] \in Rendered \cup {Absent}
           /\ \A k \in Keys : mem[p].seen[k] # None
           /\ faults' = faults
           => /\ Ends(p, "verified") => VerifyMaps(live, Expected(file["sysctl"]))
              /\ Ends(p, "drifted") => ~VerifyMaps(live, Expected(file["sysctl"]))]_svars
  BY VerdictStep
<1>2. QED
  BY <1>1, HistoryHolds, PTL DEF SSpec, VerdictIsRight

LEMMA InstalledStep ==
  ASSUME JointInv, [SNext]_svars, NEW p \in Proc, NEW r \in {"installed", "undone"},
         I!Ends(p, r)
  PROVE  InstallerStep(p) /\ IP!Finishes(p)
<1>1. IP!InstallerInv /\ IP!TypeOK
  BY DEF JointInv, IP!InstallerInv
<1>2. iresult[p] = "running" /\ iresult'[p] = r
  BY DEF I!Ends
<1>3. iresult \in [Proc -> IP!Results]
  BY <1>1 DEF IP!TypeOK
<1>4. ASSUME NEW q \in Proc, Moves(q)
      PROVE  q = p /\ InstallerStep(q)
  <2>1. q = p
    BY <1>2, <1>4, OthersAside DEF Aside
  <2>2. ~I!Begin(p) /\ ~I!Cancel(p) /\ ~I!Kill(p) /\ ~UNCHANGED installer
    BY <1>2, <1>3 DEF I!Begin, I!Cancel, I!Kill, I!Return, installer
  <2>3. ~ManagerCommand(p) /\ ~ServiceCommand(p) /\ ~BootService(p) /\ ~Signal(p) /\ ~Death(p)
        /\ ~ManagerStep(p)
    BY <2>2 DEF ManagerCommand, ServiceCommand, BootService, Signal, Death, Meets, ManagerStep,
       installer
  <2>4. ~ReconcileStep(p)
    BY <1>2, <1>3 DEF ReconcileStep, I!Return
  <2>5. QED
    BY <1>4, <2>1, <2>3, <2>4 DEF Moves, Act
<1>5. ~Restart /\ ~UNCHANGED svars
  BY <1>2 DEF Restart, I!Reboot, svars, installer
<1>6. InstallerStep(p)
  BY <1>4, <1>5 DEF SNext, Moves
<1>7. IP!Finishes(p)
  BY <1>1, <1>2, <1>6, OwnStepMoves DEF InstallerStep, IP!Proceeds
<1>8. QED
  BY <1>6, <1>7

(* InstallTunes: serviceInstall returns nil only with the owned files of   *)
(* the profile it was given and the host tuned for that very profile, if   *)
(* nobody else has changed anything since it began (cli.go:302-331).  The  *)
(* reconcile leaves the host so (Idempotent), and every step after it      *)
(* keeps it (StaysTuned).                                                  *)
THEOREM InstallHasTuned == SSpec => InstallTunes
<1>1. ASSUME JointInv, HistoryInv, [SNext]_svars, NEW p \in Proc, I!Ends(p, "installed"),
             was[p] # None
      PROVE  /\ owned' = I!Install(imem[p].profile)
             /\ Host' = Target(BuildPlan(imem[p].profile, live'))
  <2>1. InstallerStep(p) /\ IP!Finishes(p)
    BY <1>1, InstalledStep
  <2>2. ipc[p] = "enableTimer" /\ owned' = IP!Install(imem[p].profile)
    BY <1>1, <2>1 DEF IP!Finishes, I!Ends
  <2>3. IP!Install(imem[p].profile) = I!Install(imem[p].profile)
    BY DEF I!Install, IP!Install, I!Owned, IP!Owned, I!Units, IP!Units
  <2>4. Host = Target(BuildPlan(imem[p].profile, live))
    BY <1>1, <2>2 DEF HistoryInv, Recalls, StaysTuned, TunedFor, IP!Installing
  <2>5. UNCHANGED <<live, file>>
    BY <2>1 DEF InstallerStep
  <2>6. QED
    BY <2>2, <2>3, <2>4, <2>5 DEF Host
<1>2. JointInv /\ HistoryInv /\ [SNext]_svars =>
        [\A p \in Proc : I!Ends(p, "installed") /\ was[p] # None =>
           /\ owned' = I!Install(imem[p].profile)
           /\ Host' = Target(BuildPlan(imem[p].profile, live'))]_svars
  BY <1>1
<1>3. QED
  BY <1>2, HistoryHolds, PTL DEF SSpec, InstallTunes

(* A restore that has ended without an error has put everything back.      *)
LEMMA RestoredHost ==
  ASSUME ManagerInv, NEW p \in Proc, pc[p] = "restoreKeys", ~mem[p].failed,
         VerifyMaps(live, mem[p].snap.sysctls)
  PROVE  Host = Saved(mem[p].snap)
<1>1. ControlInv /\ DataType /\ RestoredInv(p)
  BY DEF ManagerInv, KnownInv, TypeInv, HonestInv
<1>2. mem[p].snap \in Snapshots
  BY <1>1 DEF ControlInv, LocalsOf, HasSnap, Restore
<1>3. mem[p].snap.sysctls \in [Keys -> Vals] /\ live \in [Keys -> Vals]
  BY <1>1, <1>2 DEF Snapshots, DataType
<1>4. live = mem[p].snap.sysctls
  BY <1>3, VerifiedEqual
<1>5. file = mem[p].snap.files
  BY <1>1 DEF RestoredInv
<1>6. QED
  BY <1>4, <1>5 DEF Host, Saved

(* Nothing is written before Prepare is over.                              *)
LEMMA EarlyStep ==
  ASSUME NEW p \in Proc, Step(p), pc[p] \in Unlocked \cup Prepare
  PROVE  UNCHANGED <<live, file>>
BY DEF Step, DetectKey, MakePlan, NeedsApply, VerifyHost, AcquireLock, LoadModule, Capture,
       WriteSnapshot, WriteLatest, WriteSysctlFile, WriteModulesFile, LoadKey, LoadEnds, Verify,
       ReadSnapshot, RestoreFile, RestoreKey, VerifyRestored, Unlocked, Prepare

(* Once it has begun to change the host, Apply ends well or restores.      *)
LEMMA RefusesEarly ==
  ASSUME ManagerInv, NEW p \in Proc, Step(p), pc'[p] = "idle", mem[p].op = "reconcile",
         result'[p] \notin {"applied", "unchanged", "reverted", "restored", "dirty"}
  PROVE  pc[p] \in Unlocked \cup Prepare
<1>1. ControlInv /\ CommandInv
  BY DEF ManagerInv, KnownInv, TypeInv
<1>2. CommandOf(pc[p], mem[p]) /\ pc[p] \in Calls \ {"idle"}
  BY <1>1, StepRuns DEF ControlInv
<1>3. pc[p] # "readSnapshot"
  BY <1>2 DEF CommandOf
<1>4. \A call \in Calls \ {"idle"} : \A m : ~Goto(p, call, m)
  BY <1>1, Arrives
<1>5. \A m : ~StartRestore(p, m)
  BY <1>1, Arrives
<1>6. \A r \in {"applied", "reverted", "restored", "dirty"} : ~Return(p, r)
  BY <1>1 DEF Return, ControlInv
<1>7. {"writeModules", "load", "verify", "restoreSysctl", "restoreKeys"} \subseteq Calls \ {"idle"}
  BY DEF Calls, Locked, Modify, Restore
<1>8. ~WriteSysctlFile(p) /\ ~WriteModulesFile(p)
  BY <1>4, <1>5, <1>7 DEF WriteSysctlFile, WriteModulesFile
<1>9. ~LoadKey(p) /\ ~LoadEnds(p) /\ ~Verify(p)
  BY <1>4, <1>5, <1>6, <1>7 DEF LoadKey, LoadEnds, Verify
<1>10. /\ ~RestoreFile(p, "restoreModules", "modules", "restoreSysctl")
       /\ ~RestoreFile(p, "restoreSysctl", "sysctl", "restoreKeys")
       /\ ~RestoreKey(p)
  BY <1>4, <1>7 DEF RestoreFile, RestoreKey
<1>11. ~VerifyRestored(p)
  BY <1>6 DEF VerifyRestored
<1>12. QED
  BY <1>3, <1>8, <1>9, <1>10, <1>11 DEF Step, DetectKey, MakePlan, NeedsApply, VerifyHost,
     AcquireLock, LoadModule, Capture, WriteSnapshot, WriteLatest, ReadSnapshot, Unlocked, Prepare

(* How the reconcile of an installation ends if not well.                  *)
LEMMA ReconcileFails ==
  ASSUME JointInv, HistoryInv, [SNext]_svars, NEW p \in Proc, was[p] # None, ReconcileStep(p),
         pc'[p] = "idle", ~ReconcileEndsWell(result'[p]), result'[p] # "dirty"
  PROVE  Host' = was[p].host /\ owned' = was[p].owned
<1>1. ManagerInv /\ TypeInv /\ ControlInv /\ CommandInv /\ HonestInv /\ [Next]_vars /\ Step(p)
      /\ Joined(p) /\ ipc[p] = "reconcile" /\ owned' = owned
  BY DEF JointInv, ManagerInv, KnownInv, TypeInv, ReconcileStep, Next
<1>2. Reconciling(p)
  BY DEF HistoryInv, Recalls
<1>3. mem[p].op = "reconcile" /\ result[p] = "running" /\ mem[p] \in Mem
  BY <1>1, StepRuns DEF Joined, ControlInv
<1>4. owned = was[p].owned
  BY <1>1, <1>2 DEF Reconciling
<1>5. CASE result'[p] \in {"reverted", "restored"}
  <2>1. Ends(p, "reverted") \/ Ends(p, "restored")
    BY <1>3, <1>5 DEF Ends
  <2>2. /\ pc[p] = "restoreKeys" /\ ~mem[p].failed
        /\ VerifyMaps(live, mem[p].snap.sysctls)
        /\ UNCHANGED <<live, file>>
    BY <1>1, <2>1, EndsRestored
  <2>3. Saved(mem[p].snap) = was[p].host
    BY <1>1, <1>2, <2>2 DEF Reconciling, HasSnap, Restore
  <2>4. Host = Saved(mem[p].snap)
    BY <1>1, <2>2, RestoredHost
  <2>5. QED
    BY <1>1, <1>4, <2>2, <2>3, <2>4 DEF Host
<1>6. CASE result'[p] \notin {"reverted", "restored"}
  <2>1. pc[p] \in Unlocked \cup Prepare
    BY <1>1, <1>3, <1>6, RefusesEarly DEF ReconcileEndsWell
  <2>2. Host = was[p].host
    BY <1>1, <1>2, <2>1 DEF Reconciling
  <2>3. UNCHANGED <<live, file>>
    BY <1>1, <2>1, EarlyStep
  <2>4. QED
    BY <1>1, <1>4, <2>2, <2>3 DEF Host
<1>7. QED
  BY <1>5, <1>6


LEMMA UndoneStep ==
  ASSUME JointInv, HistoryInv, [SNext]_svars, NEW p \in Proc, InstallUndone(p), was[p] # None
  PROVE  Everything' = was[p]
<1> DEFINE Back == Host' = was[p].host /\ owned' = was[p].owned
<1>1. ~Idle(p) /\ Idle(p)' /\ Recalls(p) /\ Joined(p) /\ ManagerInv
      /\ ControlInv /\ MadeType /\ IP!TypeOK
  BY DEF InstallUndone, HistoryInv, JointInv, ManagerInv, KnownInv, TypeInv, IP!InstallerInv
<1>2. /\ made[p] = None =>
           /\ I!Ends(p, "refused") \/ I!Ends(p, "undone")
           /\ pc[p] # "idle" => result'[p] # "dirty"
      /\ made[p] # None => iresult[p] # "dirty" /\ result'[p] = "restored"
  BY DEF InstallUndone
<1>3. ~Restart
  BY <1>1, <1>2 DEF Restart, Reboot, I!Reboot, I!Ends, Joined, AfterTuned, Idle, IP!TypeOK,
     IP!Installing, IP!Undoing
<1>4. PICK q \in Proc : Moves(q)
  BY <1>1, <1>3 DEF SNext, Moves, svars, manager, installer, Idle
<1>5. Moves(p)
  BY <1>1, <1>4, OthersAside DEF Aside, Idle
<1>6. ~ManagerCommand(p) /\ ~ServiceCommand(p) /\ ~BootService(p)
  BY <1>1 DEF ManagerCommand, ServiceCommand, BootService
<1>7. ~Signal(p)
  BY <1>1 DEF Signal, Meets, Cancel, I!Cancel, manager, installer, Idle
<1>8. ~Death(p)
  <2>1. SUFFICES ASSUME Death(p) PROVE FALSE
    OBVIOUS
  <2>2. result'[p] = IF pc[p] = "idle" THEN result[p] ELSE "killed"
    BY <1>1, <2>1 DEF Death, Meets, Kill, Return, manager, ControlInv
  <2>3. iresult'[p] = IF ipc[p] = "idle" THEN iresult[p] ELSE "killed"
    BY <1>1, <2>1 DEF Death, Meets, I!Kill, I!Return, installer, IP!TypeOK
  <2>4. QED
    BY <1>1, <1>2, <2>2, <2>3 DEF I!Ends, Joined
<1>9. CASE InstallerStep(p)
  <2>1. IP!Finishes(p) /\ pc[p] = "idle" /\ ipc[p] \notin {"idle", "reconcile"}
    BY <1>1, <1>9, OwnStepMoves, InstallerStarts
       DEF InstallerStep, JointInv, IP!Proceeds, IP!Writing, IP!Undoing, IP!Removing, Idle
  <2>2. ~RollsBack(p) /\ ~StartReconcile(p, imem[p].profile)
    BY <1>1 DEF RollsBack, StartRollback, StartReconcile, Start, ControlInv, Idle
  <2>3. UNCHANGED <<live, file, pc, mem, result>> /\ (iresult'[p] = "installed" \/ made[p] = None)
    BY <1>1, <1>9, <2>2 DEF InstallerStep, Idle
  <2>4. made[p] = None
    BY <1>1, <1>2, <2>1, <2>3 DEF Joined
  <2>5. iresult'[p] \in {"refused", "undone"}
    BY <1>2, <2>4 DEF I!Ends
  <2>6. ipc[p] \in {"preflight", "acquireUninstall", "acquireInstall", "capture", "reloadRestored"}
        /\ owned' = was[p].owned
    BY <1>1, <2>1, <2>5 DEF IP!Finishes, Recalls, Installs, IP!Undoing
  <2>7. Host = was[p].host
    BY <1>1, <2>4, <2>6 DEF Recalls, Installs, AfterTuned, IP!Installing, IP!Undoing
  <2>8. Back
    BY <2>3, <2>6, <2>7 DEF Host
  <2>9. QED
    BY <1>1, <2>8 DEF Recalls, Everything
<1>10. CASE ReconcileStep(p)
  <2>1. made[p] = None
    BY <1>1, <1>10, IdleMadeNone DEF ReconcileStep
  <2>2. pc[p] # "idle" /\ pc'[p] = "idle" /\ ~ReconcileEndsWell(result'[p])
    BY <1>1, <1>10, StepRuns DEF ReconcileStep, Idle, IP!TypeOK, ManagerInv, KnownInv
  <2>3. Back
    BY <1>2, <1>10, <2>1, <2>2, ReconcileFails
  <2>4. QED
    BY <1>1, <2>3 DEF Recalls, Everything
<1>11. CASE ManagerStep(p)
  <2>1. ipc[p] = "idle" /\ Step(p) /\ UNCHANGED <<owned, iresult>>
    BY <1>11 DEF ManagerStep, installer
  <2>2. made[p] # None
    BY <1>2, <2>1 DEF I!Ends
  <2>3. Ends(p, "restored")
    BY <1>1, <1>2, <2>1, <2>2, StepRuns DEF Ends, ManagerInv, KnownInv
  <2>4. [Next]_vars /\ TypeInv
    BY <1>1, <2>1 DEF Next, ManagerInv, KnownInv
  <2>5. /\ pc[p] = "restoreKeys" /\ ~mem[p].failed
        /\ VerifyMaps(live, mem[p].snap.sysctls)
        /\ UNCHANGED <<live, file>>
    BY <2>3, <2>4, EndsRestored
  <2>6. Host = Saved(mem[p].snap)
    BY <1>1, <2>5, RestoredHost
  <2>7. mem[p].snap = snaps[made[p]] /\ Saved(snaps[made[p]]) = was[p].host
    BY <1>1, <2>1, <2>2, <2>5 DEF Recalls, RollsBackAll, Installs, Restore
  <2>8. Back
    BY <1>1, <1>2, <2>1, <2>2, <2>5, <2>6, <2>7 DEF Recalls, RollsBackAll, Host
  <2>9. QED
    BY <1>1, <2>8 DEF Recalls, Everything
<1>12. QED
  BY <1>5, <1>6, <1>7, <1>8, <1>9, <1>10, <1>11 DEF Moves, Act

(* InstallAllOrNothing: a service install that fails while nobody else     *)
(* changes anything, and whose restores report no error, leaves the host   *)
(* and the owned files as they were when it began (cli.go:302-331),        *)
(* through both components, at whichever call it fails, is interrupted or  *)
(* finds a lock taken, for any number of faults.                           *)
THEOREM InstallIsUndone == SSpec => InstallAllOrNothing
<1>1. JointInv /\ HistoryInv /\ [SNext]_svars =>
        [\A p \in Proc : InstallUndone(p) /\ was[p] # None => Everything' = was[p]]_svars
  BY UndoneStep
<1>2. QED
  BY <1>1, HistoryHolds, PTL DEF SSpec, InstallAllOrNothing
=============================================================================
