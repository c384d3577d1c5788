--------------------------- MODULE InstallerProof ---------------------------
(***************************************************************************)
(* Proofs about Installer, for any number of invocations and profiles and  *)
(* for every fault: its types, that files of others survive, and that a    *)
(* nil error from Install is the truth.                                    *)
(***************************************************************************)
EXTENDS Installer, TLAPS

-----------------------------------------------------------------------------
(* Types.  Control is what every Goto and Return changes.                  *)

Control ==
  /\ lock \in Proc \cup {Free}
  /\ pc \in [Proc -> Calls]
  /\ mem \in [Proc -> Mem]
  /\ result \in [Proc -> Results]
  /\ cancelled \subseteq Proc

Disk ==
  /\ file \in [Owned -> Contents]
  /\ loaded \in [Units -> Contents]
  /\ linked \subseteq Enabled
  /\ active \in BOOLEAN
  /\ others \subseteq Owned

LEMMA TypeParts ==
  /\ TypeOK <=> Control /\ Disk /\ faults \in 0..MaxFaults /\ ops \in 0..MaxOps
  /\ TypeOK' <=> (Control /\ Disk /\ faults \in 0..MaxFaults /\ ops \in 0..MaxOps)'
BY DEF TypeOK, Control, Disk

LEMMA BlankType == Blank \in Mem
<1>1. (CHOOSE v \in Profiles : TRUE) \in Profiles
  BY InstallerValues
<1> QED
  BY <1>1 DEF Blank, Mem, Contents

LEMMA LocalsType ==
  ASSUME Control, Disk, NEW p \in Proc, NEW f
  PROVE  /\ mem[p] \in Mem
         /\ Loop(p) \in Mem
         /\ Did(p, f) \in Mem
         /\ Erred(mem[p]) \in Mem
         /\ Erred(Loop(p)) \in Mem
         /\ Erred(Did(p, f)) \in Mem
         /\ [Loop(p) EXCEPT !.backups = file] \in Mem
<1>1. mem[p] \in Mem
  BY DEF Control
<1> QED
  BY <1>1 DEF Mem, Loop, Did, Erred, Disk

LEMMA FaultType ==
  ASSUME faults \in 0..MaxFaults,
         NoFault \/ \E k \in FaultKinds : Fault(k)
  PROVE  faults' \in 0..MaxFaults
BY InstallerFaults DEF NoFault, Fault

LEMMA GotoType ==
  ASSUME Control, NEW p \in Proc, NEW call \in Calls, NEW m \in Mem, Goto(p, call, m)
  PROVE  Control'
BY DEF Control, Goto

LEMMA ReturnType ==
  ASSUME Control, NEW p \in Proc, NEW r \in Results, Return(p, r)
  PROVE  Control'
<1>1. lock' \in Proc \cup {Free}
  BY DEF Control, Return
<1>2. pc' \in [Proc -> Calls]
  BY DEF Control, Return, Calls
<1>3. mem' \in [Proc -> Mem] /\ result' \in [Proc -> Results] /\ cancelled' \subseteq Proc
  BY BlankType DEF Control, Return
<1> QED
  BY <1>1, <1>2, <1>3 DEF Control

(* What Install writes are contents a file can have.                       *)
LEMMA InstallType ==
  ASSUME NEW v \in Profiles
  PROVE  Install(v) \in [Owned -> Contents]
BY DEF Install, Contents

LEMMA TypeInit == Init => TypeOK
<1> SUFFICES ASSUME Init PROVE TypeOK
  OBVIOUS
<1>1. (CHOOSE v \in Profiles : TRUE) \in Profiles
  BY InstallerValues
<1>2. file \in [Owned -> Contents]
  BY <1>1 DEF Init, Contents
<1>3. loaded \in [Units -> Contents] /\ active \in BOOLEAN /\ linked \subseteq Enabled
  BY <1>2 DEF Init, Units, Owned
<1>4. Control
  BY BlankType DEF Init, Control, Calls, Results
<1> QED
  BY <1>2, <1>3, <1>4, InstallerFaults, TypeParts DEF Init, Disk

(* The steps before the lock, and those that take it.                      *)
LEMMA UnlockedType ==
  ASSUME TypeOK, NEW p \in Proc,
         Begin(p) \/ Preflight(p) \/ Reconcile(p)
           \/ Acquire(p, "acquireInstall", "capture")
           \/ Acquire(p, "acquireUninstall", "disableTimer")
  PROVE  TypeOK'
<1>0. Control /\ Disk /\ faults \in 0..MaxFaults /\ ops \in 0..MaxOps /\ mem[p] \in Mem
  BY TypeParts, LocalsType
<1>1. CASE Begin(p)
  <2>1. \A v \in Profiles : [Blank EXCEPT !.profile = v] \in Mem
    BY BlankType DEF Mem
  <2>2. Control'
    BY <1>0, <1>1, <2>1 DEF Begin, Control, Calls, Results
  <2>3. ops' \in 0..MaxOps
    BY <1>0, <1>1, InstallerFaults DEF Begin
  <2> QED
    BY <1>0, <1>1, <2>2, <2>3, TypeParts DEF Begin, Disk, systemd
<1>2. CASE Preflight(p)
  <2>1. Control'
    <3>1. "reconcile" \in Calls /\ "refused" \in Results
      BY DEF Calls, Results
    <3> QED
      BY <1>0, <1>2, <3>1, GotoType, ReturnType DEF Preflight
  <2>2. faults' \in 0..MaxFaults
    BY <1>0, <1>2, FaultType DEF Preflight, FaultKinds
  <2> QED
    BY <1>0, <1>2, <2>1, <2>2, TypeParts DEF Preflight, Disk, systemd
<1>3. CASE Reconcile(p)
  <2>1. Control'
    <3>1. "acquireInstall" \in Calls /\ "refused" \in Results
      BY DEF Calls, Results
    <3> QED
      BY <1>0, <1>3, <3>1, GotoType, ReturnType DEF Reconcile
  <2> QED
    BY <1>0, <1>3, <2>1, TypeParts DEF Reconcile, Disk, systemd, NoFault
<1>4. ASSUME NEW here, NEW there \in Calls, Acquire(p, here, there)
      PROVE  TypeOK'
  <2>1. Control'
    <3>1. CASE lock' = p /\ pc' = [pc EXCEPT ![p] = there] /\ UNCHANGED <<mem, result, cancelled>>
      BY <1>0, <3>1 DEF Control
    <3>2. CASE Return(p, "refused")
      BY <1>0, <3>2, ReturnType DEF Results
    <3> QED
      BY <1>4, <3>1, <3>2 DEF Acquire
  <2>2. faults' \in 0..MaxFaults
    BY <1>0, <1>4, FaultType DEF Acquire, FaultKinds
  <2> QED
    BY <1>0, <1>4, <2>1, <2>2, TypeParts DEF Acquire, Disk, systemd
<1> QED
  <2>1. "capture" \in Calls /\ "disableTimer" \in Calls
    BY DEF Calls, Locked, Installing, Removing
  <2> QED
    BY <1>1, <1>2, <1>3, <1>4, <2>1

(* Install, one step per call.                                             *)
LEMMA InstallingType ==
  ASSUME TypeOK, NEW p \in Proc,
         Capture(p) \/ Write(p) \/ Reload(p) \/ EnableApply(p) \/ EnableTimer(p)
  PROVE  TypeOK'
<1>0. /\ Control /\ Disk /\ faults \in 0..MaxFaults /\ ops \in 0..MaxOps
      /\ mem[p] \in Mem /\ mem[p].profile \in Profiles
      /\ [Loop(p) EXCEPT !.backups = file] \in Mem
      /\ \A f : Did(p, f) \in Mem
  BY TypeParts, LocalsType DEF Mem
<1>c. /\ {"write", "reload", "enableApply", "enableTimer", "undoTimer"} \subseteq Calls
      /\ {"refused", "installed"} \subseteq Results
  BY DEF Calls, Locked, Installing, Undoing, Results
<1>1. CASE Capture(p)
  <2>1. Control'
    BY <1>0, <1>c, <1>1, GotoType, ReturnType DEF Capture
  <2>2. faults' \in 0..MaxFaults
    BY <1>0, <1>1, FaultType DEF Capture, FaultKinds
  <2> QED
    BY <1>0, <1>1, <2>1, <2>2, TypeParts DEF Capture, Disk, systemd
<1>2. CASE Write(p)
  <2>1. Control'
    BY <1>0, <1>c, <1>2, GotoType DEF Write, Undo
  <2>2. faults' \in 0..MaxFaults
    BY <1>0, <1>2, FaultType DEF Write, FileFails, FaultKinds
  <2>3. file' \in [Owned -> Contents]
    BY <1>0, <1>2, InstallType DEF Write, Disk
  <2> QED
    BY <1>0, <1>2, <2>1, <2>2, <2>3, TypeParts DEF Write, Disk, systemd
<1>3. CASE Reload(p)
  <2>1. Control'
    BY <1>0, <1>c, <1>3, GotoType DEF Reload, Undo
  <2>2. faults' \in 0..MaxFaults
    BY <1>0, <1>3, FaultType DEF Reload, CmdOk, CmdFails, FaultKinds
  <2>3. Disk'
    BY <1>0, <1>3 DEF Reload, Disk, Units, Owned
  <2> QED
    BY <1>0, <1>3, <2>1, <2>2, <2>3, TypeParts DEF Reload
<1>4. CASE EnableApply(p)
  <2>1. Control'
    BY <1>0, <1>c, <1>4, GotoType DEF EnableApply, Undo
  <2>2. faults' \in 0..MaxFaults
    BY <1>0, <1>4, FaultType DEF EnableApply, CmdOk, CmdFails, NoUnitOfOurs, FaultKinds
  <2>3. Disk'
    BY <1>0, <1>4 DEF EnableApply, Disk, Enabled
  <2> QED
    BY <1>0, <1>4, <2>1, <2>2, <2>3, TypeParts DEF EnableApply
<1>5. CASE EnableTimer(p)
  <2>1. Control'
    BY <1>0, <1>c, <1>5, GotoType, ReturnType DEF EnableTimer, Undo
  <2>2. faults' \in 0..MaxFaults
    BY <1>0, <1>5, FaultType DEF EnableTimer, CmdOk, CmdFails, NoUnitOfOurs, FaultKinds
  <2>3. Disk'
    <3>1. linked' \subseteq Enabled
      BY <1>0, <1>5 DEF EnableTimer, LinksTimer, Disk, Enabled
    <3>2. active' \in BOOLEAN
      BY <1>0, <1>5 DEF EnableTimer, Disk
    <3> QED
      BY <1>0, <1>5, <3>1, <3>2 DEF EnableTimer, Disk
  <2> QED
    BY <1>0, <1>5, <2>1, <2>2, <2>3, TypeParts DEF EnableTimer
<1> QED
  BY <1>1, <1>2, <1>3, <1>4, <1>5

(* restoreInstall: a backup is what capture read.                          *)
LEMMA UndoingType ==
  ASSUME TypeOK, NEW p \in Proc,
         UndoTimer(p) \/ UndoApply(p) \/ RestoreOwned(p) \/ ReloadRestored(p)
  PROVE  TypeOK'
<1>0. /\ Control /\ Disk /\ faults \in 0..MaxFaults /\ ops \in 0..MaxOps
      /\ mem[p] \in Mem /\ mem[p].backups \in [Owned -> Contents]
      /\ Loop(p) \in Mem
      /\ \A f : Did(p, f) \in Mem /\ Erred(Did(p, f)) \in Mem
  BY TypeParts, LocalsType DEF Mem
<1>c. /\ {"undoApply", "restore", "reloadRestored"} \subseteq Calls
      /\ {"undone", "dirty"} \subseteq Results
  BY DEF Calls, Locked, Undoing, Results
<1>1. CASE UndoTimer(p)
  <2>1. Control'
    BY <1>0, <1>c, <1>1, GotoType DEF UndoTimer
  <2>2. faults' \in 0..MaxFaults
    BY <1>0, <1>1, FaultType DEF UndoTimer, CmdOk, CmdFails, FaultKinds
  <2>3. Disk'
    BY <1>0, <1>1 DEF UndoTimer, Disk
  <2> QED
    BY <1>0, <1>1, <2>1, <2>2, <2>3, TypeParts DEF UndoTimer
<1>2. CASE UndoApply(p)
  <2>1. Control'
    BY <1>0, <1>c, <1>2, GotoType DEF UndoApply
  <2>2. faults' \in 0..MaxFaults
    BY <1>0, <1>2, FaultType DEF UndoApply, CmdOk, CmdFails, FaultKinds
  <2>3. Disk'
    BY <1>0, <1>2 DEF UndoApply, Disk
  <2> QED
    BY <1>0, <1>2, <2>1, <2>2, <2>3, TypeParts DEF UndoApply
<1>3. CASE RestoreOwned(p)
  <2>1. Control'
    BY <1>0, <1>c, <1>3, GotoType DEF RestoreOwned
  <2>2. faults' \in 0..MaxFaults
    BY <1>0, <1>3, FaultType DEF RestoreOwned, FileFails, FaultKinds
  <2>3. Disk'
    BY <1>0, <1>3 DEF RestoreOwned, Backup, Disk, systemd
  <2> QED
    BY <1>0, <1>3, <2>1, <2>2, <2>3, TypeParts DEF RestoreOwned
<1>4. CASE ReloadRestored(p)
  <2>1. Control'
    BY <1>0, <1>c, <1>4, ReturnType DEF ReloadRestored
  <2>2. faults' \in 0..MaxFaults
    BY <1>0, <1>4, FaultType DEF ReloadRestored, CmdOk, CmdFails, FaultKinds
  <2>3. Disk'
    BY <1>0, <1>4 DEF ReloadRestored, Disk, Units, Owned
  <2> QED
    BY <1>0, <1>4, <2>1, <2>2, <2>3, TypeParts DEF ReloadRestored
<1> QED
  BY <1>1, <1>2, <1>3, <1>4

(* Uninstall.                                                              *)
LEMMA RemovingType ==
  ASSUME TypeOK, NEW p \in Proc,
         DisableTimer(p) \/ DisableApply(p) \/ Remove(p) \/ Unlink(p) \/ ReloadRemoved(p)
  PROVE  TypeOK'
<1>0. /\ Control /\ Disk /\ faults \in 0..MaxFaults /\ ops \in 0..MaxOps
      /\ mem[p] \in Mem /\ Loop(p) \in Mem
      /\ Erred(mem[p]) \in Mem /\ Erred(Loop(p)) \in Mem
      /\ \A f : Did(p, f) \in Mem /\ Erred(Did(p, f)) \in Mem
  BY TypeParts, LocalsType
<1>c. /\ {"disableApply", "remove", "unlink", "reloadRemoved"} \subseteq Calls
      /\ {"removed", "incomplete"} \subseteq Results
  BY DEF Calls, Locked, Removing, Results
<1>1. CASE DisableTimer(p)
  <2>1. Control'
    BY <1>0, <1>c, <1>1, GotoType DEF DisableTimer
  <2>2. faults' \in 0..MaxFaults
    BY <1>0, <1>1, FaultType DEF DisableTimer, CmdOk, CmdFails, FaultKinds
  <2>3. Disk'
    BY <1>0, <1>1 DEF DisableTimer, Disk
  <2> QED
    BY <1>0, <1>1, <2>1, <2>2, <2>3, TypeParts DEF DisableTimer
<1>2. CASE DisableApply(p)
  <2>1. Control'
    BY <1>0, <1>c, <1>2, GotoType DEF DisableApply
  <2>2. faults' \in 0..MaxFaults
    BY <1>0, <1>2, FaultType DEF DisableApply, CmdOk, CmdFails, FaultKinds
  <2>3. Disk'
    BY <1>0, <1>2 DEF DisableApply, Disk
  <2> QED
    BY <1>0, <1>2, <2>1, <2>2, <2>3, TypeParts DEF DisableApply
<1>3. CASE Remove(p)
  <2>1. Control'
    BY <1>0, <1>c, <1>3, GotoType DEF Remove, Removed
  <2>2. faults' \in 0..MaxFaults
    BY <1>0, <1>3, FaultType DEF Remove, FaultKinds
  <2>3. Disk'
    BY <1>0, <1>3 DEF Remove, Disk, systemd
  <2> QED
    BY <1>0, <1>3, <2>1, <2>2, <2>3, TypeParts DEF Remove
<1>4. CASE Unlink(p)
  <2>1. Control'
    BY <1>0, <1>c, <1>4, GotoType DEF Unlink, Removed
  <2>2. faults' \in 0..MaxFaults
    BY <1>0, <1>4, FaultType DEF Unlink, FileFails, FaultKinds
  <2>3. Disk'
    BY <1>0, <1>4 DEF Unlink, Disk, systemd, Contents
  <2> QED
    BY <1>0, <1>4, <2>1, <2>2, <2>3, TypeParts DEF Unlink
<1>5. CASE ReloadRemoved(p)
  <2>1. Control'
    BY <1>0, <1>c, <1>5, ReturnType DEF ReloadRemoved
  <2>2. faults' \in 0..MaxFaults
    BY <1>0, <1>5, FaultType DEF ReloadRemoved, CmdOk, CmdFails, FaultKinds
  <2>3. Disk'
    BY <1>0, <1>5 DEF ReloadRemoved, Disk, Units, Owned
  <2> QED
    BY <1>0, <1>5, <2>1, <2>2, <2>3, TypeParts DEF ReloadRemoved
<1> QED
  BY <1>1, <1>2, <1>3, <1>4, <1>5

LEMMA StepType ==
  ASSUME TypeOK, NEW p \in Proc, Begin(p) \/ Step(p)
  PROVE  TypeOK'
BY UnlockedType, InstallingType, UndoingType, RemovingType DEF Step, OwnStep

(* Signals, crashes and the administrator.                                 *)
LEMMA EnvironmentType ==
  ASSUME TypeOK,
         Reboot \/ AdminChanges \/ \E p \in Proc : Cancel(p) \/ Kill(p)
  PROVE  TypeOK'
<1>0. Control /\ Disk /\ faults \in 0..MaxFaults /\ ops \in 0..MaxOps
  BY TypeParts
<1>f. faults' \in 0..MaxFaults
  BY <1>0, FaultType DEF Reboot, AdminChanges, Cancel, Kill, FaultKinds
<1>1. ASSUME NEW p \in Proc, Cancel(p) PROVE TypeOK'
  <2>1. Control'
    BY <1>0, <1>1 DEF Cancel, Control
  <2> QED
    BY <1>0, <1>1, <1>f, <2>1, TypeParts DEF Cancel, Disk, systemd
<1>2. ASSUME NEW p \in Proc, Kill(p) PROVE TypeOK'
  <2>1. Control'
    BY <1>0, <1>2, ReturnType DEF Kill, Results
  <2> QED
    BY <1>0, <1>2, <1>f, <2>1, TypeParts DEF Kill, Disk, systemd
<1>3. CASE Reboot
  <2>1. Control'
    BY <1>0, <1>3, BlankType DEF Reboot, Control, Calls, Results
  <2>2. Disk'
    BY <1>0, <1>3 DEF Reboot, Disk, Units, Owned
  <2> QED
    BY <1>0, <1>3, <1>f, <2>1, <2>2, TypeParts DEF Reboot
<1>4. CASE AdminChanges
  <2>1. Control'
    BY <1>0, <1>4 DEF AdminChanges, Control
  <2>2. PICK f \in Owned :
          /\ others' = others \cup {f}
          /\ \/ /\ \E c \in {Absent, Foreign, Irregular} : file' = [file EXCEPT ![f] = c]
                /\ UNCHANGED <<linked, active>>
             \/ /\ linked' = linked \ {f} /\ active' = (active /\ f # "timer")
                /\ UNCHANGED file
    BY <1>4 DEF AdminChanges
  <2>3. file' \in [Owned -> Contents] /\ others' \subseteq Owned /\ linked' \subseteq Enabled
    BY <1>0, <2>2 DEF Disk, Contents
  <2>4. active' \in BOOLEAN
    BY <1>0, <2>2, Zenon DEF Disk
  <2>5. Disk'
    BY <1>0, <1>4, <2>3, <2>4 DEF AdminChanges, Disk
  <2> QED
    BY <1>0, <1>4, <1>f, <2>1, <2>5, TypeParts DEF AdminChanges
<1> QED
  BY <1>1, <1>2, <1>3, <1>4

LEMMA TypeNext == TypeOK /\ [Next]_vars => TypeOK'
<1> SUFFICES ASSUME TypeOK, [Next]_vars PROVE TypeOK'
  OBVIOUS
<1>1. CASE UNCHANGED vars
  BY <1>1 DEF TypeOK, vars, systemd
<1>2. CASE Next
  BY <1>2, StepType, EnvironmentType DEF Next
<1> QED
  BY <1>1, <1>2

(* Every variable of the installer keeps its type, for every set of        *)
(* profiles, invocations and faults (Install, Uninstall, restoreInstall).  *)
THEOREM InstallerTypeCorrect == Spec => []TypeOK
<1> QED
  BY TypeInit, TypeNext, PTL DEF Spec

-----------------------------------------------------------------------------
(* What the automation lock is for.  A process between acquire and release *)
(* holds the lock and nobody else does.                                    *)

Mutex == \A p \in Proc : pc[p] \in Locked <=> lock = p

LEMMA GotoMutex ==
  ASSUME TypeOK, Mutex, NEW p \in Proc, NEW call, NEW m, Goto(p, call, m),
         call \in Locked <=> pc[p] \in Locked
  PROVE  Mutex'
BY DEF TypeOK, Mutex, Goto

LEMMA ReturnMutex ==
  ASSUME TypeOK, Mutex, NEW p \in Proc, NEW r, Return(p, r)
  PROVE  Mutex'
<1>1. "idle" \notin Locked
  BY DEF Locked, Installing, Undoing, Removing
<1>2. ASSUME NEW q \in Proc PROVE (pc[q] \in Locked <=> lock = q)'
  <2>1. CASE q = p
    BY <1>1, <2>1, InstallerValues DEF Return, TypeOK
  <2>2. CASE q # p
    BY <2>2, InstallerValues DEF Return, TypeOK, Mutex
  <2> QED
    BY <2>1, <2>2
<1> QED
  BY <1>2 DEF Mutex

LEMMA AcquireMutex ==
  ASSUME TypeOK, Mutex, NEW p \in Proc, NEW here, NEW there \in Locked,
         Acquire(p, here, there)
  PROVE  Mutex'
<1>1. CASE Return(p, "refused")
  BY <1>1, ReturnMutex
<1>2. CASE LockIsFree /\ lock' = p /\ pc' = [pc EXCEPT ![p] = there]
  BY <1>2, InstallerValues DEF LockIsFree, TypeOK, Mutex
<1> QED
  BY <1>1, <1>2 DEF Acquire

LEMMA MutexNext == TypeOK /\ Mutex /\ [Next]_vars => Mutex'
<1> SUFFICES ASSUME TypeOK, Mutex, [Next]_vars PROVE Mutex'
  OBVIOUS
<1>d. /\ Locked = {"capture", "write", "reload", "enableApply", "enableTimer",
                   "undoTimer", "undoApply", "restore", "reloadRestored",
                   "disableTimer", "disableApply", "remove", "unlink", "reloadRemoved"}
      /\ {"idle", "preflight", "reconcile", "acquireInstall", "acquireUninstall"}
           \cap Locked = {}
  BY DEF Locked, Installing, Undoing, Removing
<1>1. ASSUME NEW p \in Proc, Begin(p) PROVE Mutex'
  BY <1>1, <1>d DEF Begin, TypeOK, Mutex
<1>2. ASSUME NEW p \in Proc, Preflight(p) \/ Reconcile(p) PROVE Mutex'
  BY <1>2, <1>d, GotoMutex, ReturnMutex DEF Preflight, Reconcile
<1>3. ASSUME NEW p \in Proc,
             \/ Acquire(p, "acquireInstall", "capture")
             \/ Acquire(p, "acquireUninstall", "disableTimer")
      PROVE  Mutex'
  BY <1>3, <1>d, AcquireMutex
<1>4. ASSUME NEW p \in Proc,
             Capture(p) \/ Write(p) \/ Reload(p) \/ EnableApply(p) \/ EnableTimer(p)
      PROVE  Mutex'
  BY <1>4, <1>d, GotoMutex, ReturnMutex
     DEF Capture, Write, Reload, EnableApply, EnableTimer, Undo
<1>5. ASSUME NEW p \in Proc,
             UndoTimer(p) \/ UndoApply(p) \/ RestoreOwned(p) \/ ReloadRestored(p)
      PROVE  Mutex'
  BY <1>5, <1>d, GotoMutex, ReturnMutex
     DEF UndoTimer, UndoApply, RestoreOwned, ReloadRestored
<1>6. ASSUME NEW p \in Proc,
             DisableTimer(p) \/ DisableApply(p) \/ Remove(p) \/ Unlink(p) \/ ReloadRemoved(p)
      PROVE  Mutex'
  BY <1>6, <1>d, GotoMutex, ReturnMutex
     DEF DisableTimer, DisableApply, Remove, Unlink, Removed, ReloadRemoved
<1>7. ASSUME NEW p \in Proc, Cancel(p) \/ Kill(p) PROVE Mutex'
  BY <1>7, ReturnMutex DEF Cancel, Kill, Mutex
<1>8. CASE Reboot
  BY <1>8, <1>d, InstallerValues DEF Reboot, Mutex
<1>9. CASE AdminChanges \/ UNCHANGED vars
  BY <1>9 DEF AdminChanges, vars, Mutex
<1> QED
  BY <1>1, <1>2, <1>3, <1>4, <1>5, <1>6, <1>7, <1>8, <1>9 DEF Next, Step, OwnStep

(* While a process is inside the lock, a step of another one changes       *)
(* neither the files nor what systemd knows nor the process's locals.      *)
LEMMA LockIsolates ==
  ASSUME TypeOK, Mutex, NEW p \in Proc, NEW q \in Proc, p # q, pc[q] \in Locked,
         Begin(p) \/ Step(p) \/ Cancel(p) \/ Kill(p)
  PROVE  UNCHANGED <<file, systemd, others, pc[q], mem[q]>>
<1>1. pc[p] \notin Locked
  BY DEF Mutex
<1>2. pc[p] \notin {"capture", "write", "reload", "enableApply", "enableTimer",
                   "undoTimer", "undoApply", "restore", "reloadRestored",
                   "disableTimer", "disableApply", "remove", "unlink", "reloadRemoved"}
  BY <1>1 DEF Locked, Installing, Undoing, Removing
<1>3. \/ Begin(p) \/ Preflight(p) \/ Reconcile(p) \/ Cancel(p) \/ Kill(p)
      \/ Acquire(p, "acquireInstall", "capture")
      \/ Acquire(p, "acquireUninstall", "disableTimer")
  BY <1>2 DEF Step, OwnStep, Capture, Write, Reload, EnableApply, EnableTimer, UndoTimer,
              UndoApply, RestoreOwned, ReloadRestored, DisableTimer, DisableApply, Remove, Unlink,
              ReloadRemoved
<1>4. UNCHANGED <<file, systemd, others>>
  <2>1. ~LockIsFree
    BY InstallerValues DEF LockIsFree, Mutex
  <2> QED
    BY <1>3, <2>1 DEF Begin, Preflight, Reconcile, Cancel, Kill, Acquire
<1>5. UNCHANGED <<pc[q], mem[q]>>
  BY <1>3 DEF Begin, Preflight, Reconcile, Cancel, Kill, Acquire, Goto, Return, TypeOK
<1> QED
  BY <1>4, <1>5

-----------------------------------------------------------------------------
(* The inductive invariant: what a process inside the lock knows at each   *)
(* call, whatever was killed or interrupted before it.                     *)

OursOrAbsent(f, c) == c = Absent \/ IsOurs(f, c)

(* From the first write to the end of the undo no backup is someone       *)
(* else's, and neither is a file but for those just put there; the file    *)
(* that Uninstall is about to remove is ours likewise.                     *)
OwnFiles(p) ==
  /\ pc[p] \in {"write", "reload", "enableApply", "enableTimer"} \cup Undoing =>
       /\ \A f \in Owned : OursOrAbsent(f, mem[p].backups[f])
       /\ \A f \in Owned \ others : OursOrAbsent(f, file[f])
  /\ pc[p] = "unlink" => \A f \in Owned \ others : First(p, f) => IsOurs(f, file[f])

(* What Install has done so far is still so.                               *)
Progress(p) ==
  /\ pc[p] = "write" =>
       \A f \in Owned \ (mem[p].todo \cup others) : file[f] = Install(mem[p].profile)[f]
  /\ pc[p] \in {"reload", "enableApply", "enableTimer"} =>
       \A f \in Owned \ others : file[f] = Install(mem[p].profile)[f]
  /\ pc[p] \in {"enableApply", "enableTimer"} =>
       \A u \in Units \ others : loaded[u] = file[u]
  /\ pc[p] = "enableTimer" => "apply" \in linked \cup others

(* What restoreOwnedFiles has put back without an error is still so.       *)
Restored(p) ==
  /\ pc[p] = "restore" /\ ~mem[p].failed =>
       \A f \in Owned \ (mem[p].todo \cup others) : file[f] = mem[p].backups[f]
  /\ pc[p] = "reloadRestored" /\ ~mem[p].failed =>
       \A f \in Owned \ others : file[f] = mem[p].backups[f]

Phase(p) == OwnFiles(p) /\ Progress(p) /\ Restored(p)

InstallerInv == TypeOK /\ Mutex /\ \A p \in Proc : Phase(p)

(* Outside the lock, before the first write and in most of Uninstall there *)
(* is nothing to know.                                                     *)
Carefree == Calls \ ((Installing \cup Undoing \cup {"unlink"}) \ {"capture"})

LEMMA PhaseCarefree ==
  ASSUME NEW p \in Proc
  PROVE  /\ pc[p] \in Carefree => Phase(p)
         /\ pc'[p] \in Carefree => Phase(p)'
BY DEF Carefree, Phase, OwnFiles, Progress, Restored, Calls, Locked, Installing, Undoing

(* What others change goes into others, and the rest stays as it is.       *)
LEMMA PhaseAmidChanges ==
  ASSUME NEW p \in Proc, Phase(p), UNCHANGED <<loaded, pc[p], mem[p]>>,
         others \subseteq others',
         \A f \in Owned \ others' : file'[f] = file[f] /\ (f \in linked => f \in linked')
  PROVE  Phase(p)'
<1>1. \A f \in Owned \ others' : f \in Owned \ others
  OBVIOUS
<1>2. \A u \in Units : u \in Owned
  BY DEF Owned
<1>3. OwnFiles(p)'
  BY <1>1 DEF Phase, OwnFiles, OursOrAbsent, IsOurs, First
<1>4. Progress(p)'
  BY <1>1, <1>2 DEF Phase, Progress, Units
<1>5. Restored(p)'
  BY <1>1 DEF Phase, Restored
<1> QED
  BY <1>3, <1>4, <1>5 DEF Phase

LEMMA PhaseFrame ==
  ASSUME NEW p \in Proc, Phase(p), UNCHANGED <<file, systemd, others, pc[p], mem[p]>>
  PROVE  Phase(p)'
BY PhaseAmidChanges DEF systemd

(* Where a step that ends with Goto or with Return leaves the process.     *)
LEMMA Lands ==
  ASSUME TypeOK, NEW p \in Proc
  PROVE  /\ \A c, m : Goto(p, c, m) => pc'[p] = c /\ mem'[p] = m
         /\ \A r : Return(p, r) => pc'[p] \in Carefree
BY DEF TypeOK, Goto, Return, Carefree, Calls, Locked, Installing, Undoing

LEMMA InstallIsOurs ==
  ASSUME NEW v \in Profiles, NEW f \in Owned
  PROVE  OursOrAbsent(f, Install(v)[f])
BY DEF OursOrAbsent, IsOurs, Install

LEMMA InstallingPhase ==
  ASSUME TypeOK, NEW p \in Proc, Phase(p),
         Capture(p) \/ Write(p) \/ Reload(p) \/ EnableApply(p) \/ EnableTimer(p)
  PROVE  Phase(p)'
<1>0. /\ mem[p] \in Mem /\ mem[p].profile \in Profiles
      /\ file \in [Owned -> Contents]
  BY DEF TypeOK, Mem
<1>r. ASSUME NEW r, Return(p, r) PROVE Phase(p)'
  BY <1>r, Lands, PhaseCarefree
<1>u. ASSUME pc[p] \in {"write", "reload", "enableApply", "enableTimer"},
             Undo(p), UNCHANGED <<file, others>>
      PROVE  Phase(p)'
  <2>1. pc'[p] = "undoTimer" /\ mem'[p] = mem[p]
    BY <1>u, Lands DEF Undo
  <2>2. OwnFiles(p)'
    BY <1>u, <2>1 DEF Phase, OwnFiles, OursOrAbsent, IsOurs
  <2> QED
    BY <2>1, <2>2 DEF Phase, Progress, Restored
<1>1. CASE Capture(p)
  <2>1. CASE /\ \A f \in Owned : Replaceable(f)
             /\ Goto(p, "write", [Loop(p) EXCEPT !.backups = file])
             /\ UNCHANGED file
    <3>1. /\ pc'[p] = "write" /\ mem'[p] = [Loop(p) EXCEPT !.backups = file]
      BY <2>1, Lands
    <3>2. mem'[p].todo = Owned /\ mem'[p].backups = file
      BY <1>0, <3>1 DEF Loop, Mem
    <3>3. OwnFiles(p)'
      BY <2>1, <3>1, <3>2 DEF OwnFiles, OursOrAbsent, IsOurs, Replaceable
    <3>4. Progress(p)' /\ Restored(p)'
      BY <3>1, <3>2 DEF Progress, Restored
    <3> QED
      BY <3>3, <3>4 DEF Phase
  <2> QED
    BY <1>1, <1>r, <2>1 DEF Capture
<1>2. CASE Write(p)
  <2>0. others' = others
    BY <1>2 DEF Write
  <2>1. ASSUME NEW f \in mem[p].todo,
               file' = [file EXCEPT ![f] = Install(mem[p].profile)[f]],
               Goto(p, IF mem[p].todo = {f} THEN "reload" ELSE "write", Did(p, f))
        PROVE  Phase(p)'
    <3>0. pc[p] = "write" /\ mem[p].todo \subseteq Owned
      BY <1>0, <1>2 DEF Write, Mem
    <3>1. /\ pc'[p] = IF mem[p].todo = {f} THEN "reload" ELSE "write"
          /\ mem'[p] = Did(p, f)
      BY <2>1, Lands
    <3>2. /\ mem'[p].todo = mem[p].todo \ {f}
          /\ mem'[p].backups = mem[p].backups
          /\ mem'[p].profile = mem[p].profile
      BY <1>0, <3>1 DEF Did, Mem
    <3>3. \A g \in Owned \ (mem[p].todo \cup others) : file[g] = Install(mem[p].profile)[g]
      BY <3>0 DEF Phase, Progress
    <3>4. \A g \in Owned \ (mem'[p].todo \cup others) :
            file'[g] = Install(mem'[p].profile)[g]
      BY <1>0, <2>1, <3>0, <3>2, <3>3
    <3>5. OwnFiles(p)'
      <4>1. /\ \A g \in Owned \ others : OursOrAbsent(g, file[g])
            /\ \A g \in Owned : OursOrAbsent(g, mem[p].backups[g])
        BY <3>0 DEF Phase, OwnFiles
      <4>2. \A g \in Owned \ others : OursOrAbsent(g, file'[g])
        BY <1>0, <2>1, <3>0, <4>1, InstallIsOurs
      <4>3. /\ \A g \in Owned \ others' : OursOrAbsent(g, file[g])'
            /\ \A g \in Owned : OursOrAbsent(g, mem[p].backups[g])'
        BY <2>0, <3>2, <4>1, <4>2 DEF OursOrAbsent, IsOurs
      <4> QED
        BY <3>1, <4>3 DEF OwnFiles
    <3>6. mem[p].todo = {f} => mem'[p].todo = {}
      BY <3>2
    <3> QED
      BY <2>0, <3>1, <3>4, <3>5, <3>6 DEF Phase, Progress, Restored
  <2> QED
    BY <1>2, <1>u, <2>0, <2>1 DEF Write
<1>3. CASE Reload(p)
  <2>1. CASE /\ loaded' = [u \in Units |-> file[u]]
             /\ Goto(p, "enableApply", mem[p])
    <3>1. /\ pc'[p] = "enableApply" /\ mem'[p] = mem[p] /\ pc[p] = "reload"
          /\ file' = file /\ others' = others
      BY <1>3, <2>1, Lands DEF Reload
    <3>2. OwnFiles(p)'
      BY <3>1 DEF Phase, OwnFiles, OursOrAbsent, IsOurs
    <3>3. Progress(p)' /\ Restored(p)'
      BY <2>1, <3>1 DEF Phase, Progress, Restored
    <3> QED
      BY <3>2, <3>3 DEF Phase
  <2> QED
    BY <1>3, <1>u, <2>1 DEF Reload
<1>4. CASE EnableApply(p)
  <2>1. CASE linked' = linked \cup {"apply"} /\ Goto(p, "enableTimer", mem[p])
    <3>1. /\ pc'[p] = "enableTimer" /\ mem'[p] = mem[p] /\ pc[p] = "enableApply"
          /\ file' = file /\ loaded' = loaded /\ others' = others
      BY <1>4, <2>1, Lands DEF EnableApply
    <3>2. OwnFiles(p)'
      BY <3>1 DEF Phase, OwnFiles, OursOrAbsent, IsOurs
    <3>3. Progress(p)' /\ Restored(p)'
      BY <2>1, <3>1 DEF Phase, Progress, Restored
    <3> QED
      BY <3>2, <3>3 DEF Phase
  <2> QED
    BY <1>4, <1>u, <2>1 DEF EnableApply
<1>5. CASE EnableTimer(p)
  BY <1>5, <1>r, <1>u DEF EnableTimer
<1> QED
  BY <1>1, <1>2, <1>3, <1>4, <1>5

LEMMA UndoingPhase ==
  ASSUME TypeOK, NEW p \in Proc, Phase(p),
         UndoTimer(p) \/ UndoApply(p) \/ RestoreOwned(p) \/ ReloadRestored(p)
  PROVE  Phase(p)'
<1>0. /\ mem[p] \in Mem /\ mem[p].backups \in [Owned -> Contents]
      /\ mem[p].todo \subseteq Owned
      /\ file \in [Owned -> Contents]
      /\ others' = others
  BY DEF TypeOK, Mem, UndoTimer, UndoApply, RestoreOwned, ReloadRestored
<1>1. CASE UndoTimer(p)
  <2>1. pc'[p] = "undoApply" /\ mem'[p] = mem[p] /\ pc[p] = "undoTimer" /\ file' = file
    BY <1>1, Lands DEF UndoTimer
  <2>2. OwnFiles(p)'
    BY <1>0, <2>1 DEF Phase, OwnFiles, OursOrAbsent, IsOurs, Undoing
  <2> QED
    BY <2>1, <2>2 DEF Phase, Progress, Restored
<1>2. CASE UndoApply(p)
  <2>1. pc'[p] = "restore" /\ mem'[p] = Loop(p) /\ pc[p] = "undoApply" /\ file' = file
    BY <1>2, Lands DEF UndoApply
  <2>2. mem'[p].todo = Owned /\ mem'[p].backups = mem[p].backups
    BY <1>0, <2>1 DEF Loop, Mem
  <2>3. OwnFiles(p)'
    BY <1>0, <2>1, <2>2 DEF Phase, OwnFiles, OursOrAbsent, IsOurs, Undoing
  <2> QED
    BY <2>1, <2>2, <2>3 DEF Phase, Progress, Restored
<1>3. CASE RestoreOwned(p)
  <2>0. /\ pc[p] = "restore"
        /\ \A g \in Owned : OursOrAbsent(g, mem[p].backups[g])
        /\ \A g \in Owned \ others : OursOrAbsent(g, file[g])
    BY <1>3 DEF RestoreOwned, Phase, OwnFiles, Undoing
  <2>1. ASSUME NEW f \in Owned, First(p, f),
               file' = [file EXCEPT ![f] = Backup(p, f)],
               Goto(p, IF mem[p].todo = {f} THEN "reloadRestored" ELSE "restore", Did(p, f))
        PROVE  Phase(p)'
    <3>1. /\ pc'[p] = IF mem[p].todo = {f} THEN "reloadRestored" ELSE "restore"
          /\ mem'[p] = Did(p, f)
      BY <2>1, Lands
    <3>2. /\ mem'[p].todo = mem[p].todo \ {f}
          /\ mem'[p].backups = mem[p].backups
          /\ mem'[p].failed = mem[p].failed
      BY <1>0, <3>1 DEF Did, Mem
    <3>3. OwnFiles(p)'
      <4>1. \A g \in Owned \ others : OursOrAbsent(g, file'[g])
        BY <1>0, <2>0, <2>1 DEF Backup
      <4>2. /\ \A g \in Owned : OursOrAbsent(g, mem[p].backups[g])'
            /\ \A g \in Owned \ others' : OursOrAbsent(g, file[g])'
        BY <1>0, <2>0, <3>2, <4>1 DEF OursOrAbsent, IsOurs
      <4> QED
        BY <3>1, <4>2 DEF OwnFiles
    <3>4. ~mem'[p].failed =>
            \A g \in Owned \ (mem'[p].todo \cup others) : file'[g] = mem'[p].backups[g]
      BY <1>0, <2>0, <2>1, <3>2 DEF Phase, Restored, Backup
    <3>5. mem[p].todo = {f} => mem'[p].todo = {}
      BY <3>2
    <3> QED
      BY <1>0, <3>1, <3>3, <3>4, <3>5 DEF Phase, Progress, Restored
  <2>2. ASSUME NEW f \in Owned, UNCHANGED file,
               Goto(p, IF mem[p].todo = {f} THEN "reloadRestored" ELSE "restore",
                    Erred(Did(p, f)))
        PROVE  Phase(p)'
    <3>1. /\ pc'[p] \in {"restore", "reloadRestored"}
          /\ mem'[p] = Erred(Did(p, f))
      BY <2>2, Lands
    <3>2. mem'[p].failed /\ mem'[p].backups = mem[p].backups
      BY <1>0, <3>1 DEF Erred, Did, Mem
    <3>3. OwnFiles(p)'
      BY <1>0, <2>0, <2>2, <3>1, <3>2 DEF OwnFiles, OursOrAbsent, IsOurs
    <3> QED
      BY <3>1, <3>2, <3>3 DEF Phase, Progress, Restored
  <2> QED
    BY <1>3, <2>1, <2>2 DEF RestoreOwned
<1>4. CASE ReloadRestored(p)
  <2>1. \E r : Return(p, r)
    BY <1>4 DEF ReloadRestored
  <2> QED
    BY <2>1, Lands, PhaseCarefree
<1> QED
  BY <1>1, <1>2, <1>3, <1>4

(* The loops of Uninstall and restoreInstall take one file at a time.      *)
LEMMA OneFirst ==
  ASSUME TypeOK, NEW p \in Proc, NEW f, NEW g, First(p, f), First(p, g)
  PROVE  f = g
<1>1. mem[p].todo \subseteq Owned
  BY DEF TypeOK, Mem
<1> QED
  BY <1>1 DEF First, Rank, Owned, Units

LEMMA RemovingPhase ==
  ASSUME TypeOK, NEW p \in Proc,
         DisableTimer(p) \/ DisableApply(p) \/ Remove(p) \/ Unlink(p) \/ ReloadRemoved(p)
  PROVE  Phase(p)'
<1>c. {"disableApply", "remove", "reloadRemoved"} \subseteq Carefree
  BY DEF Carefree, Calls, Locked, Installing, Undoing, Removing
<1>1. CASE DisableTimer(p) \/ DisableApply(p)
  <2>1. pc'[p] \in {"disableApply", "remove"}
    BY <1>1, Lands DEF DisableTimer, DisableApply
  <2> QED
    BY <1>c, <2>1, PhaseCarefree
<1>2. CASE Remove(p)
  <2>1. PICK f \in Owned :
          /\ First(p, f)
          /\ \/ IsOurs(f, file[f]) /\ Goto(p, "unlink", mem[p])
             \/ \E m : Goto(p, Removed(p, f), m)
    BY <1>2 DEF Remove
  <2>2. CASE Goto(p, "unlink", mem[p]) /\ IsOurs(f, file[f])
    <3>1. pc'[p] = "unlink" /\ mem'[p] = mem[p] /\ file' = file
      BY <1>2, <2>2, Lands DEF Remove
    <3>2. \A g \in Owned : First(p, g) => IsOurs(g, file[g])
      BY <2>1, <2>2, OneFirst
    <3>3. OwnFiles(p)'
      BY <3>1, <3>2 DEF OwnFiles, First, IsOurs, Undoing
    <3> QED
      BY <3>1, <3>3 DEF Phase, Progress, Restored
  <2>3. CASE \E m : Goto(p, Removed(p, f), m)
    BY <1>c, <2>3, Lands, PhaseCarefree DEF Removed
  <2> QED
    BY <2>1, <2>2, <2>3
<1>3. CASE Unlink(p)
  <2>1. pc'[p] \in {"remove", "reloadRemoved"}
    BY <1>3, Lands DEF Unlink, Removed
  <2> QED
    BY <1>c, <2>1, PhaseCarefree
<1>4. CASE ReloadRemoved(p)
  BY <1>4, Lands, PhaseCarefree DEF ReloadRemoved
<1> QED
  BY <1>1, <1>2, <1>3, <1>4

LEMMA PhaseNext == InstallerInv /\ [Next]_vars => \A q \in Proc : Phase(q)'
<1> SUFFICES ASSUME InstallerInv, [Next]_vars, NEW q \in Proc PROVE Phase(q)'
  OBVIOUS
<1>0. TypeOK /\ Mutex /\ Phase(q) /\ TypeOK'
  BY TypeNext DEF InstallerInv
<1>c. Calls \ Locked \subseteq Carefree
  BY DEF Carefree, Locked, Removing
<1>1. ASSUME NEW p \in Proc, p # q, Begin(p) \/ Step(p) \/ Cancel(p) \/ Kill(p)
      PROVE  Phase(q)'
  <2>1. CASE pc[q] \in Locked
    BY <1>0, <1>1, <2>1, LockIsolates, PhaseFrame
  <2>2. CASE pc[q] \notin Locked
    <3>1. pc'[q] = pc[q]
      BY <1>0, <1>1 DEF TypeOK, Begin, Step, OwnStep, Cancel, Kill, Preflight, Reconcile,
         Acquire, Capture, Write, Reload, EnableApply, EnableTimer, UndoTimer, UndoApply,
         RestoreOwned, ReloadRestored, DisableTimer, DisableApply, Remove, Unlink, ReloadRemoved,
         Undo, Goto, Return
    <3>2. pc[q] \in Carefree
      BY <1>0, <1>c, <2>2 DEF TypeOK
    <3> QED
      BY <3>1, <3>2, PhaseCarefree
  <2> QED
    BY <2>1, <2>2
<1>2. CASE Begin(q)
  <2>1. pc'[q] \in {"preflight", "acquireUninstall"}
    BY <1>0, <1>2 DEF Begin, TypeOK
  <2> QED
    BY <2>1, PhaseCarefree DEF Carefree, Calls, Locked, Installing, Undoing
<1>3. CASE Preflight(q) \/ Reconcile(q)
  <2>1. pc'[q] \in {"reconcile", "acquireInstall"} \cup Carefree
    BY <1>0, <1>3, Lands DEF Preflight, Reconcile
  <2> QED
    BY <2>1, PhaseCarefree DEF Carefree, Calls, Locked, Installing, Undoing
<1>4. CASE Acquire(q, "acquireInstall", "capture") \/ Acquire(q, "acquireUninstall", "disableTimer")
  <2>1. pc'[q] \in {"capture", "disableTimer"} \cup Carefree
    BY <1>0, <1>4, Lands DEF Acquire, TypeOK
  <2> QED
    BY <2>1, PhaseCarefree DEF Carefree, Calls, Locked, Installing, Undoing, Removing
<1>5. CASE Capture(q) \/ Write(q) \/ Reload(q) \/ EnableApply(q) \/ EnableTimer(q)
  BY <1>0, <1>5, InstallingPhase
<1>6. CASE UndoTimer(q) \/ UndoApply(q) \/ RestoreOwned(q) \/ ReloadRestored(q)
  BY <1>0, <1>6, UndoingPhase
<1>7. CASE DisableTimer(q) \/ DisableApply(q) \/ Remove(q) \/ Unlink(q) \/ ReloadRemoved(q)
  BY <1>0, <1>7, RemovingPhase
<1>8. CASE Cancel(q)
  BY <1>0, <1>8, PhaseFrame DEF Cancel
<1>9. CASE Kill(q)
  BY <1>0, <1>9, Lands, PhaseCarefree DEF Kill
<1>10. CASE Reboot
  BY <1>10, PhaseCarefree DEF Reboot, Carefree, Calls, Locked, Installing, Undoing
<1>11. CASE AdminChanges
  <2>1. /\ others \subseteq others'
        /\ \A f \in Owned \ others' : file'[f] = file[f] /\ (f \in linked => f \in linked')
    BY <1>0, <1>11 DEF AdminChanges, TypeOK
  <2> QED
    BY <1>0, <1>11, <2>1, PhaseAmidChanges DEF AdminChanges
<1>12. CASE UNCHANGED vars
  BY <1>0, <1>12, PhaseFrame DEF vars
<1> QED
  BY <1>1, <1>2, <1>3, <1>4, <1>5, <1>6, <1>7, <1>8, <1>9, <1>10, <1>11, <1>12
  DEF Next, Step, OwnStep

LEMMA InvariantHolds == Spec => []InstallerInv
<1>1. Init => InstallerInv
  <2> SUFFICES ASSUME Init PROVE InstallerInv
    OBVIOUS
  <2>1. TypeOK
    BY TypeInit
  <2>2. Mutex
    BY InstallerValues DEF Init, Mutex, Locked, Installing, Undoing, Removing
  <2>3. \A p \in Proc : pc[p] \in Carefree
    BY DEF Init, Carefree, Calls, Locked, Installing, Undoing
  <2> QED
    BY <2>1, <2>2, <2>3, PhaseCarefree DEF InstallerInv
<1>2. InstallerInv /\ [Next]_vars => InstallerInv'
  <2> SUFFICES ASSUME InstallerInv, [Next]_vars PROVE InstallerInv'
    OBVIOUS
  <2>1. TypeOK' /\ Mutex' /\ \A q \in Proc : Phase(q)'
    BY TypeNext, MutexNext, PhaseNext DEF InstallerInv
  <2> QED
    BY <2>1 DEF InstallerInv
<1> QED
  BY <1>1, <1>2, PTL DEF Spec

-----------------------------------------------------------------------------
(* The properties.                                                         *)

(* The special contents are no profile and differ from each other.         *)
LEMMA Distinct ==
  /\ Foreign \notin Profiles \cup {UnitText, OldUnit, Absent}
  /\ Irregular \notin Profiles \cup {UnitText, OldUnit, Absent}
  /\ Absent \notin Profiles \cup {UnitText, OldUnit}
BY InstallerValues

(* A file of someone else that was there when the lock was taken, or when  *)
(* capture or removeIfOwned looked at it inside the lock, is never written *)
(* or removed by the tool: with any number of invocations and faults, and  *)
(* of changes by the administrator at any time, of which only the one made *)
(* to that very file after the look can be lost.                           *)
THEOREM ForeignFilesSurvive == Spec => ForeignKept
<1>1. InstallerInv /\ [Next]_vars =>
        [\A f \in Owned \ others :
           file[f] \in {Foreign, Irregular} /\ file'[f] # file[f] => faults' # faults]_vars
  <2> SUFFICES ASSUME InstallerInv, Next, NEW f \in Owned \ others,
                      file[f] \in {Foreign, Irregular}, file'[f] # file[f]
               PROVE  faults' # faults
    OBVIOUS
  <2>1. TypeOK /\ (\A p \in Proc : OwnFiles(p)) /\ ~OursOrAbsent(f, file[f])
    BY InstallerValues, Distinct DEF InstallerInv, Phase, OursOrAbsent, IsOurs
  <2>2. CASE AdminChanges
    BY <2>1, <2>2 DEF AdminChanges, Fault, TypeOK
  <2>3. ASSUME NEW p \in Proc, Write(p) \/ RestoreOwned(p)
        PROVE  FALSE
    <3>1. pc[p] \in {"write", "restore"}
      BY <2>3 DEF Write, RestoreOwned
    <3> QED
      BY <2>1, <3>1 DEF OwnFiles, Undoing
  <2>4. ASSUME NEW p \in Proc, Unlink(p)
        PROVE  FALSE
    <3>1. PICK g \in Owned : First(p, g) /\ file' = [file EXCEPT ![g] = Absent]
      BY <2>4 DEF Unlink
    <3>2. f = g /\ pc[p] = "unlink"
      BY <2>1, <2>4, <3>1 DEF TypeOK, Unlink
    <3> QED
      BY <2>1, <3>1, <3>2 DEF OwnFiles, OursOrAbsent
  <2>5. ASSUME NEW p \in Proc, ~(Write(p) \/ RestoreOwned(p) \/ Unlink(p)),
               Begin(p) \/ Step(p) \/ Cancel(p) \/ Kill(p)
        PROVE  file' = file
    BY <2>5 DEF Begin, Step, OwnStep, Cancel, Kill, Preflight, Reconcile, Acquire, Capture,
       Reload, EnableApply, EnableTimer, UndoTimer, UndoApply, ReloadRestored,
       DisableTimer, DisableApply, Remove, ReloadRemoved
  <2>6. Reboot => file' = file
    BY DEF Reboot
  <2> QED
    BY <2>2, <2>3, <2>4, <2>5, <2>6 DEF Next
<1> QED
  BY <1>1, InvariantHolds, PTL DEF Spec, ForeignKept

(* In which step a command ends in a given way.                            *)
LEMMA EndsWhere ==
  ASSUME TypeOK, NEW p \in Proc, Next
  PROVE  /\ Ends(p, "installed") =>
              EnableTimer(p) /\ linked' = LinksTimer /\ active' = TRUE
         /\ Ends(p, "undone") => ReloadRestored(p) /\ ~mem[p].failed
         /\ Ends(p, "removed") => ReloadRemoved(p) /\ ~mem[p].failed
<1> SUFFICES ASSUME NEW r \in {"installed", "undone", "removed"}, Ends(p, r)
             PROVE  \/ /\ r = "installed" /\ EnableTimer(p)
                       /\ linked' = LinksTimer /\ active' = TRUE
                    \/ r = "undone" /\ ReloadRestored(p) /\ ~mem[p].failed
                    \/ r = "removed" /\ ReloadRemoved(p) /\ ~mem[p].failed
  OBVIOUS
<1>0. result[p] = "running" /\ result'[p] = r /\ result \in [Proc -> Results]
  BY DEF Ends, TypeOK
<1>1. \A q \in Proc : \A s : Return(q, s) => s = r /\ q = p
  BY <1>0 DEF Return
<1>2. \A q \in Proc : \A c, m : ~Goto(q, c, m)
  BY <1>0 DEF Goto
<1>3. ~Reboot /\ ~AdminChanges
  BY <1>0 DEF Reboot, AdminChanges
<1>4. ASSUME NEW q \in Proc,
             Begin(q) \/ Preflight(q) \/ Reconcile(q) \/ Cancel(q) \/ Kill(q)
               \/ Acquire(q, "acquireInstall", "capture")
               \/ Acquire(q, "acquireUninstall", "disableTimer")
      PROVE  FALSE
  BY <1>0, <1>1, <1>2, <1>4 DEF Begin, Preflight, Reconcile, Cancel, Kill, Acquire
<1>5. ASSUME NEW q \in Proc,
             Capture(q) \/ Write(q) \/ Reload(q) \/ EnableApply(q)
               \/ UndoTimer(q) \/ UndoApply(q) \/ RestoreOwned(q)
               \/ DisableTimer(q) \/ DisableApply(q) \/ Remove(q) \/ Unlink(q)
      PROVE  FALSE
  BY <1>1, <1>2, <1>5 DEF Capture, Write, Reload, EnableApply, UndoTimer, UndoApply,
     RestoreOwned, DisableTimer, DisableApply, Remove, Unlink, Undo
<1>6. ASSUME NEW q \in Proc, EnableTimer(q)
      PROVE  r = "installed" /\ q = p /\ linked' = LinksTimer /\ active' = TRUE
  BY <1>1, <1>2, <1>6 DEF EnableTimer, Undo
<1>7. ASSUME NEW q \in Proc, ReloadRestored(q)
      PROVE  r = "undone" /\ q = p /\ ~mem[p].failed
  BY <1>1, <1>7 DEF ReloadRestored
<1>8. ASSUME NEW q \in Proc, ReloadRemoved(q)
      PROVE  r = "removed" /\ q = p /\ ~mem[p].failed
  BY <1>1, <1>8 DEF ReloadRemoved
<1> QED
  BY <1>3, <1>4, <1>5, <1>6, <1>7, <1>8 DEF Next, Step, OwnStep

(* A nil error from Install is the truth: files, systemd, both units and   *)
(* the timer are as it says, under any faults and with any number of other *)
(* invocations, but for what someone else has changed since the capture.   *)
THEOREM InstalledMeansWhole == Spec => InstalledWhole
<1>1. InstallerInv /\ [Next]_vars =>
        [\A p \in Proc : Ends(p, "installed") =>
           /\ active'
           /\ \A f \in Owned \ others :
                /\ file'[f] = Install(mem[p].profile)[f]
                /\ f \in Units => loaded'[f] = file'[f]
                /\ f \in Enabled => f \in linked']_vars
  <2> SUFFICES ASSUME InstallerInv, Next, NEW p \in Proc, Ends(p, "installed")
               PROVE  /\ active'
                      /\ \A f \in Owned \ others :
                           /\ file'[f] = Install(mem[p].profile)[f]
                           /\ f \in Units => loaded'[f] = file'[f]
                           /\ f \in Enabled => f \in linked'
    OBVIOUS
  <2>1. TypeOK /\ Progress(p)
    BY DEF InstallerInv, Phase
  <2>2. EnableTimer(p) /\ linked' = LinksTimer /\ active' = TRUE
    BY <2>1, EndsWhere
  <2>3. pc[p] = "enableTimer" /\ file' = file /\ loaded' = loaded
    BY <2>2 DEF EnableTimer
  <2>4. /\ \A f \in Owned \ others : file[f] = Install(mem[p].profile)[f]
        /\ \A u \in Units \ others : loaded[u] = file[u]
        /\ "apply" \in linked \cup others
    BY <2>1, <2>3 DEF Progress
  <2>5. \A f \in Enabled \ others : f \in linked'
    BY <2>2, <2>4 DEF LinksTimer, Enabled
  <2> QED
    BY <2>2, <2>3, <2>4, <2>5
<1> QED
  BY <1>1, InvariantHolds, PTL DEF Spec, InstalledWhole

(* A nil error from restoreInstall is the truth: the files are what they   *)
(* were when the failed installation captured them, but for what someone   *)
(* else has changed since.                                                 *)
THEOREM UndoneMeansUndone == Spec => UndoneIsUndone
<1>1. InstallerInv /\ [Next]_vars =>
        [\A p \in Proc : Ends(p, "undone") => PutBack(p)]_vars
  <2> SUFFICES ASSUME InstallerInv, Next, NEW p \in Proc, Ends(p, "undone")
               PROVE  PutBack(p)
    OBVIOUS
  <2>1. TypeOK /\ Restored(p)
    BY DEF InstallerInv, Phase
  <2>2. ReloadRestored(p) /\ ~mem[p].failed
    BY <2>1, EndsWhere
  <2> QED
    BY <2>1, <2>2 DEF Restored, ReloadRestored, PutBack
<1> QED
  BY <1>1, InvariantHolds, PTL DEF Spec, UndoneIsUndone

-----------------------------------------------------------------------------
(* What holds as long as systemctl does what it is told: no command fails, *)
(* no signal cancels a context and no administrator interferes.  File      *)
(* operations fail, processes die and the host restarts.                   *)

Obedient == Faults \cap {"cmd", "cancel", "interfere"} = {}

(* A step in which they do not.                                            *)
Docile == \A kind \in {"cmd", "cancel", "interfere"} : ~Fault(kind)

LEMMA ObedientIsDocile == Obedient => Docile
BY DEF Obedient, Docile, Fault

(* An enabled unit has its file and a profile, and the timer that runs is  *)
(* enabled.                                                                *)
Backed ==
  /\ cancelled = {} /\ others = {}
  /\ file["profile"] = Absent => linked = {}
  /\ \A u \in linked : file[u] # Absent
  /\ active => "timer" \in linked

(* What restoreInstall is going to remove is not enabled.                  *)
Removable(p) ==
  pc[p] \in {"write"} \cup Undoing =>
    /\ mem[p].backups["profile"] = Absent => linked = {}
    /\ \A u \in linked : mem[p].backups[u] # Absent

(* How far Uninstall has come.                                             *)
Withdrawn(p) ==
  /\ pc[p] = "disableApply" => "timer" \notin linked
  /\ pc[p] \in {"remove", "unlink", "reloadRemoved"} => linked = {}
  /\ pc[p] \in {"remove", "unlink"} /\ ~mem[p].failed =>
       \A f \in Owned \ mem[p].todo : file[f] = Absent
  /\ pc[p] = "reloadRemoved" /\ ~mem[p].failed => \A f \in Owned : file[f] = Absent

RemovalInv == Backed /\ \A p \in Proc : Removable(p) /\ Withdrawn(p)

LEMMA Obeys ==
  ASSUME Docile, Backed, NEW p \in Proc
  PROVE  ~CmdFails(p) /\ ~Cancel(p) /\ ~AdminChanges
BY DEF Docile, Backed, CmdFails, Cancel, AdminChanges, Fault

(* No step makes the set of cancelled processes or others larger.          *)
LEMMA NoneCancelled ==
  ASSUME Docile, Backed, Next
  PROVE  cancelled' = {} /\ others' = {}
<1>1. cancelled = {} /\ others = {} /\ ~AdminChanges /\ \A p \in Proc : ~Cancel(p)
  BY DEF Docile, Backed, Cancel, AdminChanges, Fault
<1>2. /\ \A p \in Proc : \A c, m : Goto(p, c, m) => cancelled' = {}
      /\ \A p \in Proc : \A r : Return(p, r) => cancelled' = {}
  BY <1>1 DEF Goto, Return
<1>3. ASSUME NEW p \in Proc,
             Begin(p) \/ Preflight(p) \/ Reconcile(p) \/ Kill(p)
               \/ Acquire(p, "acquireInstall", "capture")
               \/ Acquire(p, "acquireUninstall", "disableTimer")
      PROVE  cancelled' = {} /\ others' = {}
  BY <1>1, <1>2, <1>3 DEF Begin, Preflight, Reconcile, Kill, Acquire
<1>4. ASSUME NEW p \in Proc,
             Capture(p) \/ Write(p) \/ Reload(p) \/ EnableApply(p) \/ EnableTimer(p)
               \/ UndoTimer(p) \/ UndoApply(p) \/ RestoreOwned(p) \/ ReloadRestored(p)
      PROVE  cancelled' = {} /\ others' = {}
  BY <1>1, <1>2, <1>4 DEF Capture, Write, Reload, EnableApply, EnableTimer, UndoTimer,
     UndoApply, RestoreOwned, ReloadRestored, Undo
<1>5. ASSUME NEW p \in Proc,
             DisableTimer(p) \/ DisableApply(p) \/ Remove(p) \/ Unlink(p) \/ ReloadRemoved(p)
      PROVE  cancelled' = {} /\ others' = {}
  BY <1>1, <1>2, <1>5 DEF DisableTimer, DisableApply, Remove, Unlink, ReloadRemoved
<1>6. Reboot => cancelled' = {} /\ others' = {}
  BY <1>1 DEF Reboot
<1> QED
  BY <1>1, <1>3, <1>4, <1>5, <1>6 DEF Next, Step, OwnStep

(* Where neither Removable nor Withdrawn says anything.                    *)
Quiet == Calls \ ({"write"} \cup Undoing \cup Removing)

LEMMA RemovalQuiet ==
  ASSUME NEW p \in Proc, pc'[p] \in Quiet \cup {"disableTimer"}
  PROVE  Removable(p)' /\ Withdrawn(p)'
BY DEF Quiet, Removable, Withdrawn, Undoing, Removing

LEMMA RemovalFrame ==
  ASSUME NEW p \in Proc, Removable(p), Withdrawn(p), UNCHANGED <<file, systemd, pc[p], mem[p]>>
  PROVE  Removable(p)' /\ Withdrawn(p)'
BY DEF Removable, Withdrawn, systemd

LEMMA ReturnQuiet ==
  ASSUME TypeOK, NEW p \in Proc, NEW r, Return(p, r)
  PROVE  Removable(p)' /\ Withdrawn(p)'
<1>1. pc'[p] = "idle"
  BY DEF Return, TypeOK
<1> QED
  BY <1>1, RemovalQuiet DEF Quiet, Calls, Locked, Undoing, Removing

(* Install: it enables what it has written.                                *)
LEMMA InstallingRemoval ==
  ASSUME Docile, TypeOK, Backed, NEW p \in Proc, Phase(p), Removable(p),
         Capture(p) \/ Write(p) \/ Reload(p) \/ EnableApply(p) \/ EnableTimer(p)
  PROVE  /\ file'["profile"] = Absent => linked' = {}
         /\ \A u \in linked' : file'[u] # Absent
         /\ active' => "timer" \in linked'
         /\ Removable(p)' /\ Withdrawn(p)'
<1>0. /\ mem[p] \in Mem /\ mem[p].profile \in Profiles
      /\ file \in [Owned -> Contents] /\ linked \subseteq Enabled
      /\ Enabled \subseteq Owned /\ "profile" \in Owned
      /\ ~CmdFails(p)
  BY Obeys DEF TypeOK, Mem, Enabled, Owned, Units
<1>i. \A v \in Profiles : \A f \in Owned : Install(v)[f] # Absent
  BY Distinct, InstallerValues DEF Install
<1>b. /\ file["profile"] = Absent => linked = {}
      /\ \A u \in linked : file[u] # Absent
      /\ active => "timer" \in linked
  BY DEF Backed
<1>1. CASE Capture(p)
  <2>1. UNCHANGED <<file, systemd>>
    BY <1>1 DEF Capture
  <2>2. CASE Goto(p, "write", [Loop(p) EXCEPT !.backups = file])
    <3>1. pc'[p] = "write" /\ mem'[p] = [Loop(p) EXCEPT !.backups = file]
      BY <2>2, Lands
    <3>2. mem'[p].backups = file
      BY <1>0, <3>1 DEF Loop, Mem
    <3> QED
      BY <1>b, <2>1, <3>1, <3>2 DEF Removable, Withdrawn, systemd
  <2>3. CASE Return(p, "refused")
    BY <1>b, <2>1, <2>3, ReturnQuiet DEF systemd
  <2> QED
    BY <1>1, <2>2, <2>3 DEF Capture
<1>2. CASE Write(p)
  <2>0. pc[p] = "write" /\ UNCHANGED systemd /\ mem[p].todo \subseteq Owned
    BY <1>0, <1>2 DEF Write, Mem
  <2>r. /\ mem[p].backups["profile"] = Absent => linked = {}
        /\ \A u \in linked : mem[p].backups[u] # Absent
    BY <2>0 DEF Removable
  <2>1. ASSUME NEW f \in mem[p].todo,
               file' = [file EXCEPT ![f] = Install(mem[p].profile)[f]],
               Goto(p, IF mem[p].todo = {f} THEN "reload" ELSE "write", Did(p, f))
        PROVE  /\ \A g \in Owned : file'[g] = Absent => file[g] = Absent
               /\ Removable(p)' /\ Withdrawn(p)'
    <3>1. /\ pc'[p] \in {"reload", "write"}
          /\ mem'[p] = Did(p, f)
      BY <2>1, Lands
    <3>2. mem'[p].backups = mem[p].backups
      BY <1>0, <3>1 DEF Did, Mem
    <3>3. \A g \in Owned : file'[g] = Absent => file[g] = Absent
      BY <1>0, <1>i, <2>0, <2>1
    <3> QED
      BY <2>0, <2>r, <3>1, <3>2, <3>3 DEF Removable, Withdrawn, systemd
  <2>2. CASE Undo(p) /\ UNCHANGED file
    <3>1. pc'[p] = "undoTimer" /\ mem'[p] = mem[p]
      BY <2>2, Lands DEF Undo
    <3> QED
      BY <1>b, <2>0, <2>2, <2>r, <3>1 DEF Removable, Withdrawn, systemd
  <2>3. CASE \A g \in Owned : file'[g] = Absent => file[g] = Absent
    BY <1>0, <1>2, <1>b, <2>0, <2>1, <2>2, <2>3 DEF Write, systemd
  <2> QED
    BY <1>2, <2>1, <2>2, <2>3 DEF Write
<1>3. ASSUME pc[p] \in {"reload", "enableApply", "enableTimer"}
      PROVE  /\ \A f \in Owned : file[f] # Absent
             /\ \A u \in Enabled : ~NoUnitOfOurs(u)
  <2>1. \A f \in Owned : file[f] = Install(mem[p].profile)[f]
    BY <1>3 DEF Phase, Progress, Backed
  <2>2. \A u \in Enabled : IsOurs(u, file[u])
    BY <2>1 DEF Install, IsOurs, Enabled, Owned, Units
  <2> QED
    BY <1>0, <1>i, <2>1, <2>2 DEF NoUnitOfOurs
<1>4. CASE Reload(p)
  <2>1. pc'[p] = "enableApply"
    BY <1>0, <1>4, Lands DEF Reload
  <2> QED
    BY <1>4, <1>b, <2>1, RemovalQuiet DEF Reload, Quiet, Calls, Locked, Installing, Undoing, Removing
<1>5. CASE EnableApply(p)
  <2>1. pc'[p] = "enableTimer" /\ linked' = linked \cup {"apply"} /\ file' = file /\ active' = active
    BY <1>0, <1>3, <1>5, Lands DEF EnableApply, Enabled
  <2>2. \A f \in Owned : file[f] # Absent
    BY <1>3, <1>5 DEF EnableApply
  <2>3. Removable(p)' /\ Withdrawn(p)'
    BY <2>1, RemovalQuiet DEF Quiet, Calls, Locked, Installing, Undoing, Removing
  <2> QED
    BY <1>0, <1>b, <2>1, <2>2, <2>3 DEF Owned, Units
<1>6. CASE EnableTimer(p)
  <2>1. linked' = LinksTimer /\ file' = file /\ Return(p, "installed")
    BY <1>0, <1>3, <1>6 DEF EnableTimer, Enabled
  <2>2. \A f \in Owned : file[f] # Absent
    BY <1>3, <1>6 DEF EnableTimer
  <2>3. Removable(p)' /\ Withdrawn(p)'
    BY <2>1, ReturnQuiet
  <2> QED
    BY <1>0, <1>b, <2>1, <2>2, <2>3 DEF Owned, Units, LinksTimer
<1> QED
  BY <1>1, <1>2, <1>4, <1>5, <1>6

(* restoreInstall: only a failed write leads to it, so that nothing it     *)
(* removes was ever enabled.                                               *)
LEMMA UndoingRemoval ==
  ASSUME Docile, TypeOK, Backed, NEW p \in Proc, Removable(p),
         UndoTimer(p) \/ UndoApply(p) \/ RestoreOwned(p) \/ ReloadRestored(p)
  PROVE  /\ file'["profile"] = Absent => linked' = {}
         /\ \A u \in linked' : file'[u] # Absent
         /\ active' => "timer" \in linked'
         /\ Removable(p)' /\ Withdrawn(p)'
<1>0. /\ mem[p] \in Mem /\ file \in [Owned -> Contents] /\ linked \subseteq Enabled
      /\ Enabled \subseteq Owned /\ "profile" \in Owned /\ pc[p] \in Undoing
  BY DEF TypeOK, Mem, Enabled, Owned, Units, Undoing, UndoTimer, UndoApply, RestoreOwned,
         ReloadRestored
<1>b. /\ file["profile"] = Absent => linked = {}
      /\ \A u \in linked : file[u] # Absent
      /\ active => "timer" \in linked
      /\ mem[p].backups["profile"] = Absent => linked = {}
      /\ \A u \in linked : mem[p].backups[u] # Absent
  BY <1>0 DEF Backed, Removable
<1>u. ASSUME mem'[p].backups = mem[p].backups, linked' \subseteq linked, pc'[p] \in Undoing
      PROVE  Removable(p)' /\ Withdrawn(p)'
  BY <1>b, <1>u DEF Removable, Withdrawn, Undoing
<1>1. CASE UndoTimer(p)
  <2>1. pc'[p] = "undoApply" /\ mem'[p] = mem[p] /\ file' = file
    BY <1>1, Lands DEF UndoTimer
  <2>2. linked' \subseteq linked /\ (active' => "timer" \in linked')
    BY <1>1, <1>b DEF UndoTimer
  <2>3. Removable(p)' /\ Withdrawn(p)'
    BY <1>u, <2>1, <2>2 DEF Undoing
  <2> QED
    BY <1>b, <2>1, <2>2, <2>3
<1>2. CASE UndoApply(p)
  <2>1. /\ pc'[p] = "restore" /\ mem'[p] = Loop(p) /\ file' = file /\ active' = active
        /\ linked' \subseteq linked /\ (active' => "timer" \in linked')
    BY <1>2, <1>b, Lands DEF UndoApply
  <2>2. mem'[p].backups = mem[p].backups
    BY <1>0, <2>1 DEF Loop, Mem
  <2>3. Removable(p)' /\ Withdrawn(p)'
    BY <1>u, <2>1, <2>2 DEF Undoing
  <2> QED
    BY <1>b, <2>1, <2>3
<1>3. CASE RestoreOwned(p)
  <2>1. UNCHANGED systemd
    BY <1>3 DEF RestoreOwned
  <2>2. ASSUME NEW f \in Owned, NEW m \in {Did(p, f), Erred(Did(p, f))},
               Goto(p, IF mem[p].todo = {f} THEN "reloadRestored" ELSE "restore", m)
        PROVE  Removable(p)' /\ Withdrawn(p)'
    <3>1. pc'[p] \in {"restore", "reloadRestored"} /\ mem'[p] = m
      BY <2>2, Lands
    <3>2. mem'[p].backups = mem[p].backups
      BY <1>0, <2>2, <3>1 DEF Did, Erred, Mem
    <3> QED
      BY <1>u, <2>1, <3>1, <3>2 DEF Undoing, systemd
  <2>3. \A g \in Owned : file'[g] \in {file[g], mem[p].backups[g]}
    BY <1>0, <1>3 DEF RestoreOwned, Backup
  <2>4. Removable(p)' /\ Withdrawn(p)'
    BY <1>3, <2>2 DEF RestoreOwned
  <2> QED
    BY <1>0, <1>b, <2>1, <2>3, <2>4 DEF systemd
<1>4. CASE ReloadRestored(p)
  <2>1. UNCHANGED <<file, linked, active>> /\ \E r : Return(p, r)
    BY <1>4 DEF ReloadRestored
  <2>2. Removable(p)' /\ Withdrawn(p)'
    BY <2>1, ReturnQuiet
  <2> QED
    BY <1>b, <2>1, <2>2
<1> QED
  BY <1>1, <1>2, <1>3, <1>4

(* Uninstall: it removes what it has disabled.                             *)
LEMMA RemovingRemoval ==
  ASSUME Docile, TypeOK, Backed, NEW p \in Proc, Withdrawn(p),
         DisableTimer(p) \/ DisableApply(p) \/ Remove(p) \/ Unlink(p) \/ ReloadRemoved(p)
  PROVE  /\ file'["profile"] = Absent => linked' = {}
         /\ \A u \in linked' : file'[u] # Absent
         /\ active' => "timer" \in linked'
         /\ Removable(p)' /\ Withdrawn(p)'
<1>0. /\ mem[p] \in Mem /\ file \in [Owned -> Contents] /\ linked \subseteq Enabled
      /\ ~CmdFails(p) /\ mem[p].todo \subseteq Owned
  BY Obeys DEF TypeOK, Mem
<1>b. /\ file["profile"] = Absent => linked = {}
      /\ \A u \in linked : file[u] # Absent
      /\ active => "timer" \in linked
  BY DEF Backed
<1>1. CASE DisableTimer(p)
  <2>1. pc'[p] = "disableApply" /\ file' = file
    BY <1>0, <1>1, Lands DEF DisableTimer
  <2>2. linked' \subseteq linked /\ ~active' /\ "timer" \notin linked'
    BY <1>0, <1>1, <1>b DEF DisableTimer
  <2>3. Removable(p)' /\ Withdrawn(p)'
    BY <2>1, <2>2 DEF Removable, Withdrawn, Undoing
  <2> QED
    BY <1>b, <2>1, <2>2, <2>3
<1>2. CASE DisableApply(p)
  <2>1. pc'[p] = "remove" /\ mem'[p] = Loop(p) /\ file' = file /\ active' = active
    BY <1>0, <1>2, Lands DEF DisableApply
  <2>2. linked' = {}
    <3>1. "timer" \notin linked
      BY <1>2 DEF DisableApply, Withdrawn
    <3>2. "apply" \notin linked' /\ linked' \subseteq linked
      BY <1>0, <1>2, <1>b DEF DisableApply
    <3> QED
      BY <1>0, <3>1, <3>2 DEF Enabled
  <2>3. ~active'
    BY <1>2, <1>b, <2>1 DEF DisableApply, Withdrawn
  <2>4. mem'[p].todo = Owned
    BY <1>0, <2>1 DEF Loop, Mem
  <2>5. Removable(p)' /\ Withdrawn(p)'
    BY <2>1, <2>2, <2>4 DEF Removable, Withdrawn, Undoing
  <2> QED
    BY <2>2, <2>3, <2>5
<1>l. ASSUME pc[p] \in {"remove", "unlink"}, UNCHANGED systemd
      PROVE  linked' = {} /\ ~active'
  BY <1>b, <1>l DEF Withdrawn, systemd
<1>d. ASSUME NEW f \in Owned, pc[p] \in {"remove", "unlink"}, UNCHANGED systemd,
             Goto(p, Removed(p, f), Did(p, f)),
             file'[f] = Absent, \A g \in Owned \ {f} : file'[g] = file[g]
      PROVE  Removable(p)' /\ Withdrawn(p)'
  <2>1. pc'[p] = Removed(p, f) /\ mem'[p] = Did(p, f)
    BY <1>d, Lands
  <2>2. mem'[p].todo = mem[p].todo \ {f} /\ mem'[p].failed = mem[p].failed
    BY <1>0, <2>1 DEF Did, Mem
  <2>3. ~mem'[p].failed => \A g \in Owned \ mem'[p].todo : file'[g] = Absent
    BY <1>d, <2>2 DEF Withdrawn
  <2>4. mem[p].todo = {f} => mem'[p].todo = {}
    BY <2>2
  <2> QED
    BY <1>d, <1>l, <2>1, <2>3, <2>4 DEF Removed, Removable, Withdrawn, Undoing
<1>e. ASSUME NEW f, pc[p] \in {"remove", "unlink"}, UNCHANGED systemd,
             Goto(p, Removed(p, f), Erred(Did(p, f)))
      PROVE  Removable(p)' /\ Withdrawn(p)'
  <2>1. pc'[p] = Removed(p, f) /\ mem'[p] = Erred(Did(p, f))
    BY <1>e, Lands
  <2>2. mem'[p].failed
    BY <1>0, <2>1 DEF Erred, Did, Mem
  <2> QED
    BY <1>e, <1>l, <2>1, <2>2 DEF Removed, Removable, Withdrawn, Undoing
<1>3. CASE Remove(p)
  <2>1. pc[p] = "remove" /\ UNCHANGED systemd /\ file' = file
    BY <1>3 DEF Remove
  <2>2. PICK f \in Owned :
          \/ Goto(p, "unlink", mem[p])
          \/ file[f] = Absent /\ Goto(p, Removed(p, f), Did(p, f))
          \/ Goto(p, Removed(p, f), Erred(Did(p, f)))
    BY <1>3 DEF Remove
  <2>3. CASE Goto(p, "unlink", mem[p])
    <3>1. pc'[p] = "unlink" /\ mem'[p] = mem[p]
      BY <2>3, Lands
    <3> QED
      BY <1>l, <2>1, <3>1 DEF Removable, Withdrawn, Undoing
  <2>4. Removable(p)' /\ Withdrawn(p)'
    BY <1>d, <1>e, <2>1, <2>2, <2>3
  <2> QED
    BY <1>l, <2>1, <2>4
<1>4. CASE Unlink(p)
  <2>1. pc[p] = "unlink" /\ UNCHANGED systemd
    BY <1>4 DEF Unlink
  <2>2. PICK f \in Owned :
          \/ file' = [file EXCEPT ![f] = Absent] /\ Goto(p, Removed(p, f), Did(p, f))
          \/ Goto(p, Removed(p, f), Erred(Did(p, f)))
    BY <1>4 DEF Unlink
  <2>3. Removable(p)' /\ Withdrawn(p)'
    BY <1>0, <1>d, <1>e, <2>1, <2>2
  <2> QED
    BY <1>l, <2>1, <2>3
<1>5. CASE ReloadRemoved(p)
  <2>1. UNCHANGED <<file, linked, active>> /\ \E r : Return(p, r)
    BY <1>5 DEF ReloadRemoved
  <2>2. Removable(p)' /\ Withdrawn(p)'
    BY <2>1, ReturnQuiet
  <2> QED
    BY <1>b, <2>1, <2>2
<1> QED
  BY <1>1, <1>2, <1>3, <1>4, <1>5

(* Steps that change neither a file nor a link.                            *)
LEMMA OutsideRemoval ==
  ASSUME TypeOK, Backed, NEW p \in Proc,
         Begin(p) \/ Preflight(p) \/ Reconcile(p) \/ Kill(p)
           \/ Acquire(p, "acquireInstall", "capture")
           \/ Acquire(p, "acquireUninstall", "disableTimer")
  PROVE  UNCHANGED <<file, systemd>> /\ Removable(p)' /\ Withdrawn(p)'
<1>1. UNCHANGED <<file, systemd>>
  BY DEF Begin, Preflight, Reconcile, Kill, Acquire
<1>2. pc'[p] \in {"preflight", "acquireUninstall", "reconcile", "acquireInstall", "capture",
                "disableTimer", "idle"}
  <2>1. \A r : Return(p, r) => pc'[p] = "idle"
    BY DEF Return, TypeOK
  <2> QED
    BY <2>1, Lands DEF TypeOK, Begin, Preflight, Reconcile, Kill, Acquire
<1> QED
  BY <1>1, <1>2, RemovalQuiet DEF Quiet, Calls, Locked, Installing, Undoing, Removing

LEMMA RemovalNext ==
  ASSUME Docile, InstallerInv, RemovalInv, [Next]_vars
  PROVE  RemovalInv'
<1>0. TypeOK /\ Mutex /\ Backed
  BY DEF InstallerInv, RemovalInv
<1>1. CASE UNCHANGED vars
  <2>1. Backed'
    BY <1>0, <1>1 DEF vars, systemd, Backed
  <2>2. \A p \in Proc : Removable(p)' /\ Withdrawn(p)'
    BY <1>1, RemovalFrame DEF vars, RemovalInv
  <2> QED
    BY <2>1, <2>2 DEF RemovalInv
<1>2. ASSUME NEW p \in Proc, Begin(p) \/ Step(p) \/ Kill(p), cancelled' = {}, others' = {}
      PROVE  RemovalInv'
  <2>1. /\ file'["profile"] = Absent => linked' = {}
        /\ \A u \in linked' : file'[u] # Absent
        /\ active' => "timer" \in linked'
        /\ Removable(p)' /\ Withdrawn(p)'
    <3>0. Phase(p) /\ Removable(p) /\ Withdrawn(p)
      BY DEF InstallerInv, RemovalInv
    <3>1. CASE Begin(p) \/ Preflight(p) \/ Reconcile(p) \/ Kill(p)
                 \/ Acquire(p, "acquireInstall", "capture")
                 \/ Acquire(p, "acquireUninstall", "disableTimer")
      BY <1>0, <3>1, OutsideRemoval DEF systemd, Backed
    <3>2. CASE Capture(p) \/ Write(p) \/ Reload(p) \/ EnableApply(p) \/ EnableTimer(p)
      BY <1>0, <3>0, <3>2, InstallingRemoval
    <3>3. CASE UndoTimer(p) \/ UndoApply(p) \/ RestoreOwned(p) \/ ReloadRestored(p)
      BY <1>0, <3>0, <3>3, UndoingRemoval
    <3>4. CASE DisableTimer(p) \/ DisableApply(p) \/ Remove(p) \/ Unlink(p) \/ ReloadRemoved(p)
      BY <1>0, <3>0, <3>4, RemovingRemoval
    <3> QED
      BY <1>2, <3>1, <3>2, <3>3, <3>4 DEF Step, OwnStep
  <2>2. ASSUME NEW q \in Proc, q # p PROVE Removable(q)' /\ Withdrawn(q)'
    <3>1. CASE pc[q] \in Locked
      BY <1>0, <1>2, <2>2, <3>1, LockIsolates, RemovalFrame DEF RemovalInv
    <3>2. CASE pc[q] \notin Locked
      <4>1. pc'[q] = pc[q]
        BY <1>0, <1>2, <2>2 DEF TypeOK, Begin, Step, OwnStep, Kill, Preflight, Reconcile,
           Acquire, Capture, Write, Reload, EnableApply, EnableTimer, UndoTimer, UndoApply,
           RestoreOwned, ReloadRestored, DisableTimer, DisableApply, Remove, Unlink, ReloadRemoved,
           Undo, Goto, Return
      <4>2. pc[q] \in Quiet
        BY <1>0, <3>2 DEF TypeOK, Quiet, Locked, Installing
      <4> QED
        BY <4>1, <4>2, RemovalQuiet
    <3> QED
      BY <3>1, <3>2
  <2> QED
    BY <1>2, <2>1, <2>2 DEF RemovalInv, Backed
<1>3. CASE Reboot
  <2>1. Backed'
    BY <1>0, <1>3 DEF Reboot, Backed
  <2>2. ASSUME NEW q \in Proc PROVE Removable(q)' /\ Withdrawn(q)'
    <3>1. pc'[q] = "idle"
      BY <1>3 DEF Reboot
    <3> QED
      BY <3>1, RemovalQuiet DEF Quiet, Calls, Undoing, Removing
  <2> QED
    BY <2>1, <2>2 DEF RemovalInv
<1>4. CASE Next
  <2>1. cancelled' = {} /\ others' = {}
    BY <1>0, <1>4, NoneCancelled
  <2>2. ~AdminChanges /\ \A p \in Proc : ~Cancel(p)
    BY <1>0 DEF Docile, Backed, Cancel, AdminChanges, Fault
  <2> QED
    BY <1>2, <1>3, <1>4, <2>1, <2>2 DEF Next
<1> QED
  BY <1>1, <1>4

LEMMA RemovalInit == Init => RemovalInv
<1> SUFFICES ASSUME Init PROVE RemovalInv
  OBVIOUS
<1>1. Backed
  <2>1. CASE file = [f \in Owned |-> Absent]
    <3>1. ~active /\ linked = {}
      BY <2>1 DEF Init, Owned, Units
    <3> QED
      BY <3>1 DEF Init, Backed
  <2>2. CASE file = [f \in Owned |-> IF f = "profile" THEN CHOOSE v \in Profiles : TRUE
                                    ELSE OldUnit]
    <3>1. (CHOOSE v \in Profiles : TRUE) \in Profiles
      BY InstallerValues
    <3>2. \A f \in Owned : file[f] # Absent
      BY <2>2, <3>1, Distinct
    <3>3. linked = Enabled
      BY <3>2 DEF Init, Owned, Units
    <3> QED
      BY <3>2, <3>3 DEF Init, Backed, Owned, Units, Enabled
  <2> QED
    BY <2>1, <2>2 DEF Init
<1>2. \A p \in Proc : Removable(p) /\ Withdrawn(p)
  BY DEF Init, Removable, Withdrawn, Undoing
<1> QED
  BY <1>1, <1>2 DEF RemovalInv

(* `service status` never hides an enabled unit or a running timer, in the *)
(* middle of a command or after any number of kills, reboots and failed    *)
(* file operations, as long as systemctl is not the one that fails.        *)
THEOREM StatusIsComplete ==
  ASSUME Obedient
  PROVE  Spec => []StatusHidesNothing
<1>1. RemovalInv => StatusHidesNothing
  BY DEF RemovalInv, Backed, StatusHidesNothing, SaysNotInstalled
<1>2. InstallerInv /\ RemovalInv /\ [Next]_vars => RemovalInv'
  BY RemovalNext, ObedientIsDocile
<1> QED
  BY <1>1, <1>2, RemovalInit, InvariantHolds, PTL DEF Spec

(* A nil error from Uninstall leaves nothing behind, whatever mix of files *)
(* and links a killed installation or removal left for it, as long as      *)
(* systemctl is not the one that fails.                                    *)
THEOREM RemovedMeansRemoved ==
  ASSUME Obedient
  PROVE  Spec => RemovedWhole
<1>1. InstallerInv /\ RemovalInv /\ [Next]_vars =>
        [\A p \in Proc : Ends(p, "removed") =>
           /\ file' = [f \in Owned |-> Absent]
           /\ linked' = {}
           /\ ~active']_vars
  <2> SUFFICES ASSUME InstallerInv, RemovalInv, Next, NEW p \in Proc, Ends(p, "removed")
               PROVE  file' = [f \in Owned |-> Absent] /\ linked' = {} /\ ~active'
    OBVIOUS
  <2>1. TypeOK /\ Backed /\ Withdrawn(p)
    BY DEF InstallerInv, RemovalInv
  <2>2. ReloadRemoved(p) /\ ~mem[p].failed
    BY <2>1, EndsWhere
  <2>3. UNCHANGED <<file, linked, active>> /\ pc[p] = "reloadRemoved"
    BY <2>2 DEF ReloadRemoved
  <2>4. linked = {} /\ ~active /\ \A f \in Owned : file[f] = Absent
    BY <2>1, <2>2, <2>3 DEF Withdrawn, Backed
  <2>5. file' = [f \in Owned |-> Absent]
    BY <2>1, <2>3, <2>4 DEF TypeOK
  <2> QED
    BY <2>3, <2>4, <2>5
<1>2. InstallerInv /\ RemovalInv /\ [Next]_vars => RemovalInv'
  BY RemovalNext, ObedientIsDocile
<1> QED
  BY <1>1, <1>2, RemovalInit, InvariantHolds, PTL DEF Spec, RemovedWhole

-----------------------------------------------------------------------------
(* For module Service: what a step makes of the command that takes it, and *)
(* the steps of others that end the call "reconcile" or only count.        *)

Writing == {"write", "reload", "enableApply", "enableTimer"}

Proceeds(p) ==
  /\ result'[p] = result[p]
  /\ \/ /\ pc[p] = "preflight" /\ pc'[p] = "reconcile"
        /\ mem'[p] = mem[p] /\ UNCHANGED file
     \/ /\ pc[p] = "acquireInstall" /\ pc'[p] = "capture"
        /\ mem'[p] = mem[p] /\ UNCHANGED file
     \/ /\ pc[p] = "capture" /\ pc'[p] = "write" /\ UNCHANGED file
        /\ mem'[p].profile = mem[p].profile /\ mem'[p].backups = file
     \/ /\ pc[p] \in Writing \cup Undoing /\ pc'[p] \in Writing \cup Undoing
        /\ pc'[p] \in Writing => pc[p] \in Writing
        /\ mem'[p].profile = mem[p].profile /\ mem'[p].backups = mem[p].backups
     \/ pc[p] \in {"acquireUninstall"} \cup Removing /\ pc'[p] \in Removing

Finishes(p) ==
  /\ pc'[p] = "idle"
  /\ \/ /\ pc[p] \in {"preflight", "acquireInstall", "capture", "acquireUninstall"}
        /\ result'[p] = "refused" /\ UNCHANGED file
     \/ /\ pc[p] = "enableTimer"
        /\ result'[p] = "installed"
        /\ others = {} => file' = Install(mem[p].profile)
     \/ /\ pc[p] = "reloadRestored"
        /\ others = {} /\ result'[p] = "undone" => file' = mem[p].backups
        /\ result'[p] \in {"undone", "dirty"}
     \/ pc[p] = "reloadRemoved" /\ result'[p] \in {"removed", "incomplete"}

LEMMA OwnStepMoves ==
  ASSUME InstallerInv, NEW p \in Proc, OwnStep(p)
  PROVE  Proceeds(p) \/ Finishes(p)
<1>t. TypeOK /\ Progress(p) /\ Restored(p)
  BY DEF InstallerInv, Phase
<1>m. mem[p] \in Mem
  BY <1>t DEF TypeOK
<1>g. \A c, m : Goto(p, c, m) => pc'[p] = c /\ mem'[p] = m /\ result'[p] = result[p]
  BY <1>t DEF Goto, TypeOK
<1>r. \A r : Return(p, r) => pc'[p] = "idle" /\ result'[p] = r
  BY <1>t DEF Return, TypeOK
<1>k. ASSUME NEW m, \/ m = mem[p] \/ m = Loop(p)
                    \/ \E f : m = Did(p, f) \/ m = Erred(Did(p, f))
      PROVE  m.profile = mem[p].profile /\ m.backups = mem[p].backups
  BY <1>m, <1>k DEF Mem, Loop, Did, Erred
<1>1. CASE Preflight(p)
  BY <1>1, <1>g, <1>r DEF Preflight, Proceeds, Finishes
<1>2. CASE Acquire(p, "acquireInstall", "capture")
  BY <1>2, <1>r, <1>t DEF Acquire, Proceeds, Finishes, TypeOK
<1>3. CASE Acquire(p, "acquireUninstall", "disableTimer")
  BY <1>3, <1>r, <1>t DEF Acquire, Proceeds, Finishes, TypeOK, Removing
<1>4. CASE Capture(p)
  <2>1. CASE Return(p, "refused")
    BY <1>4, <1>r, <2>1 DEF Capture, Finishes
  <2>2. CASE Goto(p, "write", [Loop(p) EXCEPT !.backups = file])
    <3>1. /\ [Loop(p) EXCEPT !.backups = file].profile = mem[p].profile
          /\ [Loop(p) EXCEPT !.backups = file].backups = file
      BY <1>m DEF Mem, Loop
    <3> QED
      BY <1>4, <1>g, <2>2, <3>1 DEF Capture, Proceeds
  <2> QED
    BY <1>4, <2>1, <2>2 DEF Capture
<1>5. CASE Write(p) \/ Reload(p) \/ EnableApply(p)
  <2>1. PICK c, m :
          /\ c \in Writing \cup Undoing /\ Goto(p, c, m)
          /\ m = mem[p] \/ \E f : m = Did(p, f)
    BY <1>5 DEF Write, Reload, EnableApply, Undo, Writing, Undoing
  <2>2. pc[p] \in Writing
    BY <1>5 DEF Write, Reload, EnableApply, Writing
  <2> QED
    BY <1>g, <1>k, <2>1, <2>2 DEF Proceeds
<1>6. CASE EnableTimer(p)
  <2>1. CASE Return(p, "installed")
    <3>1. file' = file /\ pc[p] = "enableTimer"
      BY <1>6 DEF EnableTimer
    <3>2. others = {} => file' = Install(mem[p].profile)
      <4> SUFFICES ASSUME others = {} PROVE file' = Install(mem[p].profile)
        OBVIOUS
      <4>1. \A f \in Owned : file'[f] = Install(mem[p].profile)[f]
        BY <1>t, <3>1 DEF Progress
      <4>2. file' \in [Owned -> Contents] /\ Install(mem[p].profile) \in [Owned -> Contents]
        BY <1>m, <1>t, <3>1, InstallType DEF Mem, TypeOK
      <4> QED
        BY <4>1, <4>2
    <3> QED
      BY <1>r, <2>1, <3>1, <3>2 DEF Finishes
  <2>2. CASE Undo(p)
    BY <1>6, <1>g, <2>2 DEF EnableTimer, Undo, Proceeds, Writing, Undoing
  <2> QED
    BY <1>6, <2>1, <2>2 DEF EnableTimer
<1>7. CASE UndoTimer(p) \/ UndoApply(p) \/ RestoreOwned(p)
  <2>1. PICK c, m :
          /\ c \in Undoing /\ Goto(p, c, m)
          /\ m = mem[p] \/ m = Loop(p) \/ \E f : m = Did(p, f) \/ m = Erred(Did(p, f))
    BY <1>7 DEF UndoTimer, UndoApply, RestoreOwned, Undoing
  <2>2. pc[p] \in Undoing
    BY <1>7 DEF UndoTimer, UndoApply, RestoreOwned, Undoing
  <2> QED
    BY <1>g, <1>k, <2>1, <2>2 DEF Proceeds, Writing, Undoing
<1>8. CASE ReloadRestored(p)
  <2>1. pc[p] = "reloadRestored" /\ file' = file
    BY <1>8 DEF ReloadRestored
  <2>2. Return(p, "dirty") \/ (Return(p, "undone") /\ ~mem[p].failed)
    BY <1>8 DEF ReloadRestored
  <2>3. others = {} /\ ~mem[p].failed => file' = mem[p].backups
    <3> SUFFICES ASSUME others = {}, ~mem[p].failed PROVE file' = mem[p].backups
      OBVIOUS
    <3>1. \A f \in Owned : file'[f] = mem[p].backups[f]
      BY <1>t, <2>1 DEF Restored
    <3>2. file' \in [Owned -> Contents] /\ mem[p].backups \in [Owned -> Contents]
      BY <1>m, <1>t, <2>1 DEF Mem, TypeOK
    <3> QED
      BY <3>1, <3>2
  <2> QED
    BY <1>r, <2>1, <2>2, <2>3 DEF Finishes
<1>9. CASE DisableTimer(p) \/ DisableApply(p) \/ Remove(p) \/ Unlink(p)
  <2>1. \E c \in Removing : \E m : Goto(p, c, m)
    BY <1>9 DEF DisableTimer, DisableApply, Remove, Unlink, Removed, Removing
  <2>2. pc[p] \in Removing
    BY <1>9 DEF DisableTimer, DisableApply, Remove, Unlink, Removed, Removing
  <2> QED
    BY <1>g, <2>1, <2>2 DEF Proceeds
<1>10. CASE ReloadRemoved(p)
  BY <1>10, <1>r DEF ReloadRemoved, Finishes
<1> QED
  BY <1>1, <1>2, <1>3, <1>4, <1>5, <1>6, <1>7, <1>8, <1>9, <1>10 DEF OwnStep

(* The steps of one process leave the others where they are.               *)
LEMMA OthersStay ==
  ASSUME TypeOK, NEW p \in Proc, NEW q \in Proc \ {p},
         Begin(p) \/ Step(p) \/ Cancel(p) \/ Kill(p)
  PROVE  pc'[q] = pc[q] /\ mem'[q] = mem[q] /\ result'[q] = result[q]
<1>g. \A c, m : Goto(p, c, m) => pc'[q] = pc[q] /\ mem'[q] = mem[q] /\ result'[q] = result[q]
  BY DEF Goto, TypeOK
<1>r. \A r : Return(p, r) => pc'[q] = pc[q] /\ mem'[q] = mem[q] /\ result'[q] = result[q]
  BY DEF Return, TypeOK
<1>1. CASE Begin(p) \/ Cancel(p) \/ Kill(p)
  BY <1>1, <1>r DEF Begin, Cancel, Kill, TypeOK
<1>2. CASE \/ Preflight(p) \/ Reconcile(p) \/ Capture(p) \/ Write(p) \/ Reload(p)
           \/ EnableApply(p) \/ EnableTimer(p)
  BY <1>2, <1>g, <1>r
  DEF Preflight, Reconcile, Capture, Write, Reload, EnableApply, EnableTimer, Undo
<1>3. CASE \/ Acquire(p, "acquireInstall", "capture")
           \/ Acquire(p, "acquireUninstall", "disableTimer")
  BY <1>3, <1>r DEF Acquire, TypeOK
<1>4. CASE UndoTimer(p) \/ UndoApply(p) \/ RestoreOwned(p) \/ ReloadRestored(p)
  BY <1>4, <1>g, <1>r DEF UndoTimer, UndoApply, RestoreOwned, ReloadRestored
<1>5. CASE DisableTimer(p) \/ DisableApply(p) \/ Remove(p) \/ Unlink(p) \/ ReloadRemoved(p)
  BY <1>5, <1>g, <1>r DEF DisableTimer, DisableApply, Remove, Unlink, ReloadRemoved
<1> QED
  BY <1>1, <1>2, <1>3, <1>4, <1>5 DEF Step, OwnStep

LEMMA ReconcileEnds ==
  ASSUME InstallerInv, NEW p \in Proc, pc[p] = "reconcile", UNCHANGED <<file, systemd, others>>,
         \/ /\ pc' = [pc EXCEPT ![p] = "acquireInstall"]
            /\ UNCHANGED <<lock, mem, result, cancelled>>
         \/ Return(p, "refused"),
         faults' \in 0..MaxFaults, ops' \in 0..MaxOps
  PROVE  InstallerInv'
<1>t. TypeOK /\ Mutex /\ \A q \in Proc : Phase(q)
  BY DEF InstallerInv
<1>d. Disk'
  BY <1>t DEF TypeOK, Disk, systemd
<1>1. CASE Return(p, "refused")
  <2>1. Control'
    BY <1>1, <1>t, TypeParts, ReturnType DEF Results
  <2>2. Mutex'
    BY <1>1, <1>t, ReturnMutex
  <2>3. \A q \in Proc : Phase(q)'
    <3> TAKE q \in Proc
    <3>1. CASE q = p
      BY <1>1, <1>t, <3>1, Lands, PhaseCarefree
    <3>2. CASE q # p
      BY <1>1, <1>t, <3>2, PhaseFrame DEF Return, TypeOK
    <3> QED
      BY <3>1, <3>2
  <2> QED
    BY <1>d, <2>1, <2>2, <2>3, TypeParts DEF InstallerInv
<1>2. CASE ~Return(p, "refused")
  <2>1. Goto(p, "acquireInstall", mem[p])
    BY <1>2, <1>t DEF Goto, TypeOK
  <2>2. Control'
    <3>1. "acquireInstall" \in Calls /\ mem[p] \in Mem
      BY <1>t DEF Calls, TypeOK
    <3> QED
      BY <1>t, <2>1, <3>1, TypeParts, GotoType
  <2>3. Mutex'
    BY <1>t, <2>1, GotoMutex DEF Locked, Installing, Undoing, Removing
  <2>4. \A q \in Proc : Phase(q)'
    <3> TAKE q \in Proc
    <3>1. CASE q = p
      <4>1. pc'[p] = "acquireInstall" /\ "acquireInstall" \in Carefree
        BY <1>t, <2>1, Lands DEF Carefree, Calls, Installing, Undoing
      <4> QED
        BY <3>1, <4>1, PhaseCarefree
    <3>2. CASE q # p
      BY <1>t, <2>1, <3>2, PhaseFrame DEF Goto, TypeOK
    <3> QED
      BY <3>1, <3>2
  <2> QED
    BY <1>d, <2>2, <2>3, <2>4, TypeParts DEF InstallerInv
<1> QED
  BY <1>1, <1>2

LEMMA OnlyCounts ==
  ASSUME InstallerInv, UNCHANGED <<file, systemd, lock, pc, mem, result, cancelled, others>>,
         faults' \in 0..MaxFaults, ops' \in 0..MaxOps
  PROVE  InstallerInv'
<1>1. TypeOK' /\ Mutex'
  BY DEF InstallerInv, TypeOK, Mutex, systemd
<1>2. \A q \in Proc : Phase(q)'
  BY PhaseFrame DEF InstallerInv
<1> QED
  BY <1>1, <1>2 DEF InstallerInv
=============================================================================
