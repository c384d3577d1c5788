-------------------------- MODULE TransactionProof --------------------------
(***************************************************************************)
(* What a failed installation of module Installer leaves when only one     *)
(* thing went wrong, for any number of invocations and profiles: the files *)
(* as they were, but for one that someone else replaced meanwhile, and,    *)
(* after a first installation, nothing enabled.                            *)
(***************************************************************************)
EXTENDS InstallerProof

OneFault == MaxFaults <= 1

(* A cancelled context took the fault, and so did a change by someone      *)
(* else, of which there is one.                                            *)
Spent ==
  /\ cancelled # {} \/ others # {} => faults = MaxFaults
  /\ \A f, g \in others : f = g

(* What was not installed before is not enabled before its turn.           *)
Fresh(p) ==
  pc[p] \in Writing =>
    /\ mem[p].backups["timer"] = Absent => "timer" \notin linked /\ ~active
    /\ mem[p].backups["apply"] = Absent /\ pc[p] # "enableTimer" => "apply" \notin linked

(* restoreInstall runs because of the fault, so that no command fails in   *)
(* it.  A unit that it disables is there or was not enabled, and stays     *)
(* disabled while it goes on.                                              *)
Disables(p) ==
  /\ pc[p] = "undoTimer" /\ mem[p].backups["timer"] = Absent
       => file["timer"] # Absent \/ ("timer" \notin linked /\ ~active)
  /\ pc[p] \in {"undoTimer", "undoApply"} /\ mem[p].backups["apply"] = Absent
       => file["apply"] # Absent \/ "apply" \notin linked
  /\ pc[p] \in Undoing \ {"undoTimer"} /\ mem[p].backups["timer"] = Absent
       => "timer" \notin linked /\ ~active
  /\ pc[p] \in {"restore", "reloadRestored"} /\ mem[p].backups["apply"] = Absent
       => "apply" \notin linked

(* A file that cannot be put back is the one someone else replaced.        *)
PutsBack(p) ==
  /\ pc[p] = "restore" =>
       \A f \in Owned \ (mem[p].todo \cup others) : file[f] = mem[p].backups[f]
  /\ pc[p] = "reloadRestored" =>
       \A f \in Owned \ others : file[f] = mem[p].backups[f]

UndoInv(p) ==
  /\ pc[p] \in Undoing => faults = MaxFaults
  /\ faults = 0 \/ others # {} => Fresh(p)
  /\ p \notin cancelled => Disables(p)
  /\ PutsBack(p)

(* Up to the fault the host is as module InstallerProof shows it to be as  *)
(* long as systemctl does what it is told.                                 *)
TransactionInv ==
  /\ Spent
  /\ faults = 0 => RemovalInv
  /\ \A p \in Proc : UndoInv(p)

-----------------------------------------------------------------------------
(* The fault.                                                              *)

LEMMA FaultsCount ==
  ASSUME TypeOK, NEW kind
  PROVE  /\ faults \in Nat /\ MaxFaults \in Nat /\ faults <= MaxFaults
         /\ NoFault => faults' = faults
         /\ Fault(kind) => faults' = faults + 1 /\ faults < MaxFaults
BY InstallerFaults DEF TypeOK, NoFault, Fault

(* What makes an installation turn back is the fault or what someone else  *)
(* has changed, and after that no command fails but under a cancelled      *)
(* context.                                                                *)
LEMMA Spends ==
  ASSUME OneFault, TypeOK, Spent, NEW p \in Proc
  PROVE  /\ \A kind : Fault(kind) => faults' = MaxFaults /\ faults = 0 /\ others = {}
         /\ CmdFails(p) => faults' = MaxFaults
         /\ CmdFails(p) /\ p \notin cancelled => faults = 0 /\ others = {}
         /\ faults = MaxFaults => \A kind : ~Fault(kind)
         /\ faults = MaxFaults /\ p \notin cancelled => ~CmdFails(p)
         /\ NoFault /\ others # {} => faults' = MaxFaults
<1>1. ASSUME NEW kind, Fault(kind)
      PROVE  faults' = MaxFaults /\ faults = 0 /\ faults # MaxFaults /\ others = {}
  BY <1>1, FaultsCount DEF OneFault, Spent
<1>2. ASSUME p \in cancelled \/ others # {}, NoFault PROVE faults' = MaxFaults
  BY <1>2, FaultsCount DEF Spent
<1> QED
  BY <1>1, <1>2 DEF CmdFails

LEMMA StepCounts ==
  ASSUME NEW p \in Proc, Step(p)
  PROVE  NoFault \/ \E kind : Fault(kind)
BY DEF Step, OwnStep, Preflight, Reconcile, Acquire, Capture, Write, Reload, EnableApply,
       EnableTimer, UndoTimer, UndoApply, RestoreOwned, ReloadRestored, DisableTimer,
       DisableApply, Remove, Unlink, ReloadRemoved, CmdOk, CmdFails, FileFails, NoUnitOfOurs

LEMMA FaultsGrow ==
  ASSUME TypeOK, TypeOK', [Next]_vars
  PROVE  /\ faults = MaxFaults => faults' = MaxFaults
         /\ faults' = 0 => faults = 0 /\ Docile
<1>1. (\E kind : Fault(kind)) \/ faults' = faults
  BY StepCounts DEF Next, NoFault, Begin, Cancel, Kill, Reboot, AdminChanges, vars
<1> QED
  BY <1>1, FaultsCount DEF Docile

-----------------------------------------------------------------------------
(* The steps of the installation itself.                                   *)

(* Nothing is known of a process that is somewhere else.                   *)
LEMMA UndoOver ==
  ASSUME NEW p \in Proc, pc'[p] \notin Writing \cup Undoing
  PROVE  UndoInv(p)'
BY DEF UndoInv, Fresh, Disables, PutsBack, Undoing

LEMMA ReturnUndo ==
  ASSUME TypeOK, NEW p \in Proc, NEW r, Return(p, r)
  PROVE  UndoInv(p)'
<1>1. pc'[p] = "idle"
  BY DEF Return, TypeOK
<1> QED
  BY <1>1, UndoOver DEF Writing, Undoing

(* Going on.                                                               *)
LEMMA GoesOn ==
  ASSUME TypeOK, NEW p \in Proc, NEW call \in Writing, NEW m, Goto(p, call, m),
         faults' = 0 \/ others' # {} => Fresh(p)'
  PROVE  UndoInv(p)'
<1>1. pc'[p] = call
  BY Lands
<1> QED
  BY <1>1 DEF UndoInv, Disables, PutsBack, Writing, Undoing

(* Turning back.                                                           *)
LEMMA TurnsBack ==
  ASSUME TypeOK, NEW p \in Proc, Undo(p), UNCHANGED file, faults' = MaxFaults,
         p \notin cancelled =>
           /\ mem[p].backups["timer"] = Absent
                => file["timer"] # Absent \/ ("timer" \notin linked' /\ ~active')
           /\ mem[p].backups["apply"] = Absent
                => file["apply"] # Absent \/ "apply" \notin linked'
  PROVE  UndoInv(p)'
<1>1. pc'[p] = "undoTimer" /\ mem'[p] = mem[p] /\ cancelled' = cancelled
  BY Lands DEF Undo, Goto
<1> QED
  BY <1>1 DEF UndoInv, Fresh, Disables, PutsBack, Writing, Undoing

LEMMA WritingStep ==
  ASSUME OneFault, TypeOK, Spent, faults = 0 => RemovalInv, NEW p \in Proc,
         Phase(p), UndoInv(p),
         Capture(p) \/ Write(p) \/ Reload(p) \/ EnableApply(p) \/ EnableTimer(p)
  PROVE  UndoInv(p)'
<1>m. mem[p] \in Mem /\ mem[p].todo \subseteq Owned /\ mem[p].profile \in Profiles
  BY DEF TypeOK, Mem
<1>f. faults = 0 \/ others # {} => Fresh(p)
  BY DEF UndoInv
<1>n. faults' = 0 => faults = 0
  <2>1. NoFault \/ \E kind : Fault(kind)
    BY StepCounts DEF Step, OwnStep
  <2> QED
    BY <2>1, FaultsCount
<1>1. CASE Capture(p)
  <2>1. CASE Return(p, "refused")
    BY <2>1, ReturnUndo
  <2>2. CASE ~Return(p, "refused")
    <3>1. /\ Goto(p, "write", [Loop(p) EXCEPT !.backups = file])
          /\ others' = {} /\ UNCHANGED systemd
      BY <1>1, <2>2 DEF Capture
    <3>2. pc'[p] = "write" /\ mem'[p].backups = file
      BY <1>m, <3>1, Lands DEF Loop, Mem
    <3>3. ASSUME faults' = 0 PROVE Fresh(p)'
      <4>1. Backed
        BY <1>n, <3>3 DEF RemovalInv
      <4> QED
        BY <3>1, <3>2, <4>1 DEF Backed, Fresh, systemd
    <3> QED
      BY <3>1, <3>3, GoesOn DEF Writing
  <2> QED
    BY <2>1, <2>2
<1>2. CASE Write(p)
  <2>1. pc[p] = "write" /\ UNCHANGED <<systemd, others>>
    BY <1>2 DEF Write
  <2>2. ASSUME NEW f, Goto(p, IF mem[p].todo = {f} THEN "reload" ELSE "write", Did(p, f))
        PROVE  UndoInv(p)'
    <3>1. pc'[p] \in {"reload", "write"} /\ mem'[p] = Did(p, f)
      BY <2>2, Lands
    <3>2. mem'[p].backups = mem[p].backups
      BY <1>m, <3>1 DEF Did, Mem
    <3>3. faults' = 0 \/ others' # {} => Fresh(p)'
      BY <1>f, <1>n, <2>1, <3>1, <3>2 DEF Fresh, Writing, systemd
    <3> QED
      BY <2>2, <3>3, GoesOn DEF Writing
  <2>3. ASSUME NEW f \in mem[p].todo, FileFails(f), Undo(p), UNCHANGED file
        PROVE  UndoInv(p)'
    <3>1. file[f] = Irregular => others # {}
      BY <1>m, <2>1, Distinct, InstallerValues DEF Phase, OwnFiles, OursOrAbsent, IsOurs
    <3>2. faults' = MaxFaults /\ Fresh(p)
      BY <1>f, <2>3, <3>1, Spends DEF FileFails
    <3> QED
      BY <2>1, <2>3, <3>2, TurnsBack DEF Fresh, Writing, systemd
  <2> QED
    BY <1>2, <2>2, <2>3 DEF Write
<1>3. CASE Reload(p)
  <2>1. pc[p] = "reload" /\ UNCHANGED <<file, linked, active, others>>
    BY <1>3 DEF Reload
  <2>2. CASE Goto(p, "enableApply", mem[p])
    <3>1. pc'[p] = "enableApply" /\ mem'[p] = mem[p]
      BY <2>2, Lands
    <3>2. faults' = 0 \/ others' # {} => Fresh(p)'
      BY <1>f, <1>n, <2>1, <3>1 DEF Fresh, Writing
    <3> QED
      BY <2>2, <3>2, GoesOn DEF Writing
  <2>3. CASE CmdFails(p) /\ Undo(p)
    <3>1. faults' = MaxFaults /\ (p \notin cancelled => Fresh(p))
      BY <1>f, <2>3, Spends
    <3> QED
      BY <2>1, <2>3, <3>1, TurnsBack DEF Fresh, Writing
  <2> QED
    BY <1>3, <2>2, <2>3 DEF Reload
<1>i. ASSUME pc[p] \in {"enableApply", "enableTimer"}, NEW f \in Enabled, f \notin others
      PROVE  file[f] # Absent /\ IsOurs(f, file[f])
  <2>1. f \in Units /\ f \in Owned /\ f # "profile"
    BY DEF Enabled, Units, Owned
  <2>2. file[f] = UnitText
    BY <1>i, <2>1 DEF Phase, Progress, Install
  <2> QED
    BY <2>1, <2>2, Distinct DEF IsOurs
<1>4. CASE EnableApply(p)
  <2>1. pc[p] = "enableApply" /\ UNCHANGED <<file, active, others>>
    BY <1>4 DEF EnableApply
  <2>2. CASE linked' = linked \cup {"apply"} /\ Goto(p, "enableTimer", mem[p])
    <3>1. pc'[p] = "enableTimer" /\ mem'[p] = mem[p]
      BY <2>2, Lands
    <3>2. faults' = 0 \/ others' # {} => Fresh(p)'
      BY <1>f, <1>n, <2>1, <2>2, <3>1 DEF Fresh, Writing
    <3> QED
      BY <2>2, <3>2, GoesOn DEF Writing
  <2>3. CASE CmdFails(p) /\ Undo(p) /\ linked' \in {linked, linked \cup {"apply"}}
    <3>1. faults' = MaxFaults /\ (p \notin cancelled => Fresh(p) /\ others = {})
      BY <1>f, <2>3, Spends
    <3>2. p \notin cancelled => file["apply"] # Absent
      BY <1>i, <2>1, <3>1 DEF Enabled
    <3> QED
      BY <2>1, <2>3, <3>1, <3>2, TurnsBack DEF Fresh, Writing
  <2>4. CASE NoUnitOfOurs("apply") /\ Undo(p) /\ UNCHANGED linked
    <3>1. others # {}
      BY <1>i, <2>1, <2>4 DEF NoUnitOfOurs, Enabled
    <3>2. faults' = MaxFaults /\ Fresh(p)
      BY <1>f, <2>4, <3>1, Spends DEF NoUnitOfOurs
    <3> QED
      BY <2>1, <2>4, <3>2, TurnsBack DEF Fresh, Writing
  <2> QED
    BY <1>4, <2>2, <2>3, <2>4 DEF EnableApply
<1>5. CASE EnableTimer(p)
  <2>1. pc[p] = "enableTimer" /\ UNCHANGED <<file, others>>
    BY <1>5 DEF EnableTimer
  <2>2. CASE Return(p, "installed")
    BY <2>2, ReturnUndo
  <2>3. CASE CmdFails(p) /\ Undo(p)
    <3>1. faults' = MaxFaults /\ (p \notin cancelled => others = {})
      BY <2>3, Spends
    <3>2. p \notin cancelled => file["apply"] # Absent /\ file["timer"] # Absent
      BY <1>i, <2>1, <3>1 DEF Enabled
    <3> QED
      BY <2>1, <2>3, <3>1, <3>2, TurnsBack
  <2>4. CASE NoUnitOfOurs("timer") /\ Undo(p) /\ UNCHANGED <<linked, active>>
    <3>1. "timer" \in others
      BY <1>i, <2>1, <2>4 DEF NoUnitOfOurs, Enabled
    <3>2. "apply" \notin others
      BY <3>1 DEF Spent
    <3>3. file["apply"] # Absent
      BY <1>i, <2>1, <3>2 DEF Enabled
    <3>4. faults' = MaxFaults /\ Fresh(p)
      BY <1>f, <2>4, <3>1, Spends DEF NoUnitOfOurs
    <3> QED
      BY <2>1, <2>4, <3>3, <3>4, TurnsBack DEF Fresh, Writing
  <2> QED
    BY <1>5, <2>2, <2>3, <2>4 DEF EnableTimer
<1> QED
  BY <1>1, <1>2, <1>3, <1>4, <1>5

LEMMA UndoingStep ==
  ASSUME OneFault, TypeOK, Spent, NEW p \in Proc, Phase(p), UndoInv(p),
         UndoTimer(p) \/ UndoApply(p) \/ RestoreOwned(p) \/ ReloadRestored(p)
  PROVE  UndoInv(p)'
<1>m. mem[p] \in Mem /\ mem[p].todo \subseteq Owned /\ file \in [Owned -> Contents]
  BY DEF TypeOK, Mem
<1>u. pc[p] \in Undoing /\ faults = MaxFaults /\ others' = others
  BY DEF UndoInv, UndoTimer, UndoApply, RestoreOwned, ReloadRestored, Undoing
<1>n. (\A kind : ~Fault(kind)) /\ (p \notin cancelled => ~CmdFails(p) /\ Disables(p))
  BY <1>u, Spends DEF UndoInv
<1>f. faults' = faults
  BY <1>n, StepCounts DEF Step, OwnStep, NoFault
<1>g. ASSUME pc'[p] \in Undoing, PutsBack(p)', p \notin cancelled' => Disables(p)'
      PROVE  UndoInv(p)'
  BY <1>f, <1>g, <1>u DEF UndoInv, Fresh, Writing, Undoing
<1>1. CASE UndoTimer(p)
  <2>1. /\ pc[p] = "undoTimer" /\ pc'[p] = "undoApply" /\ mem'[p] = mem[p]
        /\ cancelled' = cancelled /\ file' = file
    BY <1>1, Lands DEF UndoTimer, Goto
  <2>2. ASSUME p \notin cancelled, mem[p].backups["timer"] = Absent
        PROVE  "timer" \notin linked' /\ ~active'
    BY <1>1, <1>n, <2>1, <2>2 DEF UndoTimer, WasAbsent, Disables
  <2>3. linked' \subseteq linked
    BY <1>1 DEF UndoTimer
  <2>4. p \notin cancelled' => Disables(p)'
    BY <1>n, <2>1, <2>2, <2>3 DEF Disables, Undoing
  <2> QED
    BY <1>g, <2>1, <2>4 DEF Undoing, PutsBack
<1>2. CASE UndoApply(p)
  <2>1. /\ pc[p] = "undoApply" /\ pc'[p] = "restore" /\ mem'[p] = Loop(p)
        /\ cancelled' = cancelled /\ active' = active /\ file' = file
    BY <1>2, Lands DEF UndoApply, Goto
  <2>2. Loop(p).todo = Owned /\ Loop(p).backups = mem[p].backups
    BY <1>m DEF Loop, Mem
  <2>3. linked' \subseteq linked
    BY <1>2 DEF UndoApply
  <2>4. ASSUME p \notin cancelled, mem[p].backups["apply"] = Absent
        PROVE  "apply" \notin linked'
    BY <1>2, <1>n, <2>1, <2>4 DEF UndoApply, WasAbsent, Disables
  <2>5. p \notin cancelled' => Disables(p)'
    BY <1>n, <2>1, <2>2, <2>3, <2>4 DEF Disables, Undoing
  <2>6. PutsBack(p)'
    BY <2>1, <2>2 DEF PutsBack
  <2> QED
    BY <1>g, <2>1, <2>5, <2>6 DEF Undoing
<1>3. CASE RestoreOwned(p)
  <2>1. PICK f \in Owned : \E m :
          /\ Goto(p, IF mem[p].todo = {f} THEN "reloadRestored" ELSE "restore", m)
          /\ \/ m = Did(p, f) /\ file' = [file EXCEPT ![f] = Backup(p, f)]
             \/ m = Erred(Did(p, f)) /\ file' = file /\ FileFails(f)
    BY <1>3 DEF RestoreOwned
  <2>m. PICK m :
          /\ Goto(p, IF mem[p].todo = {f} THEN "reloadRestored" ELSE "restore", m)
          /\ \/ m = Did(p, f) /\ file' = [file EXCEPT ![f] = Backup(p, f)]
             \/ m = Erred(Did(p, f)) /\ file' = file /\ FileFails(f)
    BY <2>1
  <2>2. pc[p] = "restore" /\ UNCHANGED <<linked, active, cancelled>>
    BY <1>3, <2>m DEF RestoreOwned, Goto, systemd
  <2>3. /\ pc'[p] = IF mem[p].todo = {f} THEN "reloadRestored" ELSE "restore"
        /\ mem'[p] = m
    BY <2>m, Lands
  <2>4. m.todo = mem[p].todo \ {f} /\ m.backups = mem[p].backups
    BY <1>m, <2>m DEF Did, Erred, Mem
  <2>5. p \notin cancelled' => Disables(p)'
    BY <1>n, <2>2, <2>3, <2>4 DEF Disables, Undoing
  <2>6. file' = file => f \in others \/ file[f] = mem[p].backups[f]
    <3>1. CASE file' = [file EXCEPT ![f] = Backup(p, f)]
      BY <1>m, <3>1 DEF Backup
    <3>2. CASE FileFails(f)
      <4>1. file[f] = Irregular
        BY <1>n, <3>2 DEF FileFails
      <4> QED
        BY <2>2, <4>1, Distinct, InstallerValues
        DEF Phase, OwnFiles, OursOrAbsent, IsOurs, Undoing
    <3> QED
      BY <2>m, <3>1, <3>2
  <2>7. \A g \in Owned \ ((mem[p].todo \ {f}) \cup others) : file'[g] = mem[p].backups[g]
    <3>1. \A g \in Owned \ (mem[p].todo \cup others) : file[g] = mem[p].backups[g]
      BY <2>2 DEF UndoInv, PutsBack
    <3>2. \/ file' = file
          \/ file'[f] = mem[p].backups[f] /\ \A g \in Owned \ {f} : file'[g] = file[g]
      BY <1>m, <2>m DEF Backup
    <3> QED
      BY <2>6, <3>1, <3>2
  <2>8. PutsBack(p)'
    BY <1>u, <2>3, <2>4, <2>7 DEF PutsBack
  <2> QED
    BY <1>g, <2>3, <2>5, <2>8 DEF Undoing
<1>4. CASE ReloadRestored(p)
  <2>1. \E r : Return(p, r)
    BY <1>4 DEF ReloadRestored
  <2> QED
    BY <2>1, ReturnUndo
<1> QED
  BY <1>1, <1>2, <1>3, <1>4

(* Before the capture, and Uninstall.                                      *)
LEMMA OtherStep ==
  ASSUME TypeOK, NEW p \in Proc,
         \/ Begin(p) \/ Preflight(p) \/ Reconcile(p)
         \/ Acquire(p, "acquireInstall", "capture")
         \/ Acquire(p, "acquireUninstall", "disableTimer")
         \/ DisableTimer(p) \/ DisableApply(p) \/ Remove(p) \/ Unlink(p) \/ ReloadRemoved(p)
  PROVE  UndoInv(p)'
<1>1. \A r : Return(p, r) => pc'[p] = "idle"
  BY DEF Return, TypeOK
<1>2. CASE \/ Begin(p) \/ Preflight(p) \/ Reconcile(p)
           \/ Acquire(p, "acquireInstall", "capture")
           \/ Acquire(p, "acquireUninstall", "disableTimer")
  <2>1. pc'[p] \in {"preflight", "acquireUninstall", "reconcile", "acquireInstall",
                   "capture", "disableTimer", "idle"}
    BY <1>1, <1>2, Lands DEF TypeOK, Begin, Preflight, Reconcile, Acquire
  <2> QED
    BY <2>1, UndoOver DEF Writing, Undoing
<1>3. CASE DisableTimer(p) \/ DisableApply(p) \/ Remove(p) \/ Unlink(p) \/ ReloadRemoved(p)
  <2>1. pc'[p] \in {"disableApply", "remove", "unlink", "reloadRemoved", "idle"}
    <3>1. CASE DisableTimer(p) \/ DisableApply(p) \/ ReloadRemoved(p)
      BY <1>1, <3>1, Lands DEF DisableTimer, DisableApply, ReloadRemoved
    <3>2. CASE Remove(p) \/ Unlink(p)
      BY <3>2, Lands DEF Remove, Unlink, Removed
    <3> QED
      BY <1>3, <3>1, <3>2
  <2> QED
    BY <2>1, UndoOver DEF Writing, Undoing
<1> QED
  BY <1>2, <1>3

-----------------------------------------------------------------------------
(* The invariant.                                                          *)

LEMMA OthersKeep ==
  ASSUME TypeOK, NEW p \in Proc, NEW q \in Proc, p # q,
         Begin(p) \/ Step(p) \/ Cancel(p) \/ Kill(p)
  PROVE  pc'[q] = pc[q] /\ mem'[q] = mem[q] /\ (q \in cancelled => q \in cancelled')
<1>1. /\ \A c, m : Goto(p, c, m) =>
           pc'[q] = pc[q] /\ mem'[q] = mem[q] /\ cancelled' = cancelled
      /\ \A r : Return(p, r) =>
           pc'[q] = pc[q] /\ mem'[q] = mem[q] /\ cancelled' = cancelled \ {p}
  BY DEF TypeOK, Goto, Return
<1>2. CASE Begin(p) \/ Preflight(p) \/ Reconcile(p) \/ Cancel(p) \/ Kill(p)
             \/ Acquire(p, "acquireInstall", "capture")
             \/ Acquire(p, "acquireUninstall", "disableTimer")
  BY <1>1, <1>2 DEF TypeOK, Begin, Preflight, Reconcile, Cancel, Kill, Acquire
<1>3. CASE \/ Capture(p) \/ Write(p) \/ Reload(p) \/ EnableApply(p) \/ EnableTimer(p)
           \/ UndoTimer(p) \/ UndoApply(p) \/ RestoreOwned(p) \/ ReloadRestored(p)
  BY <1>1, <1>3 DEF Capture, Write, Reload, EnableApply, EnableTimer, UndoTimer, UndoApply,
     RestoreOwned, ReloadRestored, Undo
<1>4. CASE DisableTimer(p) \/ DisableApply(p) \/ Remove(p) \/ Unlink(p) \/ ReloadRemoved(p)
  BY <1>1, <1>4 DEF DisableTimer, DisableApply, Remove, Unlink, ReloadRemoved
<1> QED
  BY <1>2, <1>3, <1>4 DEF Step, OwnStep

LEMMA UndoFrame ==
  ASSUME NEW q \in Proc, UndoInv(q), pc'[q] = pc[q], mem'[q] = mem[q],
         q \in cancelled => q \in cancelled',
         faults = MaxFaults => faults' = MaxFaults, faults' = 0 => faults = 0,
         pc[q] \in Locked => UNCHANGED <<file, systemd, others>>
  PROVE  UndoInv(q)'
<1>1. CASE pc[q] \in Locked
  BY <1>1 DEF UndoInv, Fresh, Disables, PutsBack, systemd
<1>2. CASE pc[q] \notin Locked
  BY <1>2, UndoOver DEF Locked, Installing, Writing
<1> QED
  BY <1>1, <1>2

LEMMA UndoNext ==
  ASSUME OneFault, TypeOK, TypeOK', Mutex, Spent, faults = 0 => RemovalInv,
         NEW q \in Proc, Phase(q), UndoInv(q), [Next]_vars
  PROVE  UndoInv(q)'
<1>0. (faults = MaxFaults => faults' = MaxFaults) /\ (faults' = 0 => faults = 0)
  BY FaultsGrow
<1>1. ASSUME NEW p \in Proc, p # q, Begin(p) \/ Step(p) \/ Cancel(p) \/ Kill(p)
      PROVE  UndoInv(q)'
  <2>1. pc'[q] = pc[q] /\ mem'[q] = mem[q] /\ (q \in cancelled => q \in cancelled')
    BY <1>1, OthersKeep
  <2>2. pc[q] \in Locked => UNCHANGED <<file, systemd, others>>
    BY <1>1, LockIsolates
  <2> QED
    BY <1>0, <2>1, <2>2, UndoFrame
<1>2. CASE \/ Begin(q) \/ Preflight(q) \/ Reconcile(q)
           \/ Acquire(q, "acquireInstall", "capture")
           \/ Acquire(q, "acquireUninstall", "disableTimer")
           \/ DisableTimer(q) \/ DisableApply(q) \/ Remove(q) \/ Unlink(q) \/ ReloadRemoved(q)
  BY <1>2, OtherStep
<1>3. CASE Capture(q) \/ Write(q) \/ Reload(q) \/ EnableApply(q) \/ EnableTimer(q)
  BY <1>3, WritingStep
<1>4. CASE UndoTimer(q) \/ UndoApply(q) \/ RestoreOwned(q) \/ ReloadRestored(q)
  BY <1>4, UndoingStep
<1>5. CASE Cancel(q)
  BY <1>0, <1>5, UndoFrame DEF Cancel
<1>6. CASE Kill(q)
  BY <1>6, ReturnUndo DEF Kill
<1>7. CASE Reboot
  <2>1. pc'[q] = "idle"
    BY <1>7 DEF Reboot
  <2> QED
    BY <2>1, UndoOver DEF Writing, Undoing
<1>8. CASE AdminChanges
  <2>1. faults = 0 /\ faults # MaxFaults
    BY <1>8, Spends, FaultsCount DEF AdminChanges
  <2>2. pc[q] \notin Undoing /\ Fresh(q)
    BY <2>1 DEF UndoInv
  <2>3. pc'[q] = pc[q] /\ mem'[q] = mem[q] /\ linked' \subseteq linked
    BY <1>8 DEF AdminChanges
  <2>4. active' => active
    BY <1>8, Zenon DEF AdminChanges
  <2> QED
    BY <2>2, <2>3, <2>4 DEF UndoInv, Fresh, Disables, PutsBack, Undoing
<1>9. CASE UNCHANGED vars
  BY <1>0, <1>9, UndoFrame DEF vars
<1> QED
  BY <1>1, <1>2, <1>3, <1>4, <1>5, <1>6, <1>7, <1>8, <1>9 DEF Next, Step, OwnStep

(* Only Cancel makes the set of cancelled processes larger, and only       *)
(* AdminChanges others, and each is the fault.                             *)
LEMMA SpentNext ==
  ASSUME OneFault, TypeOK, TypeOK', Spent, [Next]_vars
  PROVE  Spent'
<1>0. faults = MaxFaults => faults' = MaxFaults
  BY FaultsGrow
<1>1. ASSUME NEW p \in Proc, Cancel(p) PROVE Spent'
  <2>1. faults' = MaxFaults /\ others' = {}
    BY <1>1, Spends DEF Cancel
  <2> QED
    BY <2>1 DEF Spent
<1>2. CASE AdminChanges
  <2>1. PICK f \in Owned : others' = others \cup {f}
    BY <1>2 DEF AdminChanges
  <2>2. CASE Proc # {}
    BY <1>2, <2>1, <2>2, Spends DEF AdminChanges, Spent
  <2>3. CASE Proc = {}
    <3>1. Fault("interfere") /\ cancelled' = {}
      BY <1>2, <2>3 DEF AdminChanges, TypeOK
    <3>2. faults' = MaxFaults /\ others = {}
      BY <3>1, FaultsCount DEF OneFault, Spent
    <3> QED
      BY <2>1, <3>2 DEF Spent
  <2> QED
    BY <2>2, <2>3
<1>3. ASSUME NEW p \in Proc, Begin(p) \/ Step(p) \/ Kill(p)
      PROVE  cancelled' \subseteq cancelled /\ others' \subseteq others
  <2>1. \A r : Return(p, r) => cancelled' \subseteq cancelled
    BY DEF Return
  <2>2. \A c, m : Goto(p, c, m) => cancelled' \subseteq cancelled
    BY DEF Goto
  <2>3. CASE Begin(p) \/ Preflight(p) \/ Reconcile(p) \/ Kill(p)
               \/ Acquire(p, "acquireInstall", "capture")
               \/ Acquire(p, "acquireUninstall", "disableTimer")
    BY <2>1, <2>2, <2>3 DEF Begin, Preflight, Reconcile, Kill, Acquire
  <2>4. CASE \/ Capture(p) \/ Write(p) \/ Reload(p) \/ EnableApply(p) \/ EnableTimer(p)
             \/ UndoTimer(p) \/ UndoApply(p) \/ RestoreOwned(p) \/ ReloadRestored(p)
    BY <2>1, <2>2, <2>4 DEF Capture, Write, Reload, EnableApply, EnableTimer, UndoTimer,
       UndoApply, RestoreOwned, ReloadRestored, Undo
  <2>5. CASE DisableTimer(p) \/ DisableApply(p) \/ Remove(p) \/ Unlink(p) \/ ReloadRemoved(p)
    BY <2>1, <2>2, <2>5 DEF DisableTimer, DisableApply, Remove, Unlink, ReloadRemoved
  <2> QED
    BY <1>3, <2>3, <2>4, <2>5 DEF Step, OwnStep
<1>4. Reboot \/ UNCHANGED vars => cancelled' \subseteq cancelled /\ others' \subseteq others
  BY DEF Reboot, vars
<1>5. cancelled' \subseteq cancelled /\ others' \subseteq others => Spent'
  BY <1>0 DEF Spent
<1> QED
  BY <1>1, <1>2, <1>3, <1>4, <1>5 DEF Next

LEMMA BeforeTheFault ==
  ASSUME TypeOK', InstallerInv, faults = 0 => RemovalInv, [Next]_vars, faults' = 0
  PROVE  RemovalInv'
<1>1. faults = 0 /\ Docile
  BY FaultsGrow DEF InstallerInv
<1> QED
  BY <1>1, RemovalNext

LEMMA TransactionHolds ==
  ASSUME OneFault
  PROVE  Spec => []TransactionInv
<1>1. Init => TransactionInv
  <2> SUFFICES ASSUME Init PROVE TransactionInv
    OBVIOUS
  <2>1. Spent
    BY DEF Init, Spent
  <2>2. \A p \in Proc : UndoInv(p)
    BY DEF Init, UndoInv, Fresh, Disables, PutsBack, Writing, Undoing
  <2> QED
    BY <2>1, <2>2, RemovalInit DEF TransactionInv
<1>2. InstallerInv /\ InstallerInv' /\ TransactionInv /\ [Next]_vars => TransactionInv'
  <2> SUFFICES ASSUME InstallerInv, InstallerInv', TransactionInv, [Next]_vars
               PROVE  TransactionInv'
    OBVIOUS
  <2>1. TypeOK /\ TypeOK' /\ Mutex /\ Spent /\ (faults = 0 => RemovalInv)
    BY DEF InstallerInv, TransactionInv
  <2>2. Spent'
    BY <2>1, SpentNext
  <2>3. (faults = 0 => RemovalInv)'
    BY <2>1, BeforeTheFault
  <2>4. \A q \in Proc : UndoInv(q)'
    BY <2>1, UndoNext DEF InstallerInv, TransactionInv
  <2> QED
    BY <2>2, <2>3, <2>4 DEF TransactionInv
<1> QED
  BY <1>1, <1>2, InvariantHolds, PTL DEF Spec

-----------------------------------------------------------------------------
(* The properties.                                                         *)

(* A failed installation ends in restoreInstall.                           *)
LEMMA FailsWhere ==
  ASSUME TypeOK, NEW p \in Proc, Next, Ends(p, "undone") \/ Ends(p, "dirty")
  PROVE  ReloadRestored(p)
<1>0. result[p] = "running" /\ result'[p] \in {"undone", "dirty"} /\ result \in [Proc -> Results]
  BY DEF Ends, TypeOK
<1>1. \A q \in Proc : \A s : Return(q, s) => s \in {"undone", "dirty"} /\ q = p
  BY <1>0 DEF Return
<1>2. \A q \in Proc : \A c, m : ~Goto(q, c, m)
  BY <1>0 DEF Goto
<1>3. ~Reboot /\ ~AdminChanges
  BY <1>0 DEF Reboot, AdminChanges
<1>4. ASSUME NEW q \in Proc,
             Begin(q) \/ Preflight(q) \/ Reconcile(q) \/ Cancel(q) \/ Kill(q)
               \/ Acquire(q, "acquireInstall", "capture")
               \/ Acquire(q, "acquireUninstall", "disableTimer")
      PROVE  FALSE
  BY <1>0, <1>1, <1>2, <1>4 DEF Begin, Preflight, Reconcile, Cancel, Kill, Acquire
<1>5. ASSUME NEW q \in Proc,
             Capture(q) \/ Write(q) \/ Reload(q) \/ EnableApply(q) \/ EnableTimer(q)
               \/ UndoTimer(q) \/ UndoApply(q) \/ RestoreOwned(q)
      PROVE  FALSE
  <2>1. \A s \in {"refused", "installed"} : ~Return(q, s)
    BY <1>1
  <2>2. CASE Capture(q) \/ Write(q) \/ Reload(q) \/ EnableApply(q)
    BY <1>2, <2>1, <2>2 DEF Capture, Write, Reload, EnableApply, Undo
  <2>3. CASE EnableTimer(q)
    BY <1>2, <2>1, <2>3 DEF EnableTimer, Undo
  <2>4. CASE UndoTimer(q) \/ UndoApply(q) \/ RestoreOwned(q)
    BY <1>2, <2>4 DEF UndoTimer, UndoApply, RestoreOwned
  <2> QED
    BY <1>5, <2>2, <2>3, <2>4
<1>6. ASSUME NEW q \in Proc, DisableTimer(q) \/ DisableApply(q) \/ Remove(q) \/ Unlink(q)
      PROVE  FALSE
  BY <1>2, <1>6 DEF DisableTimer, DisableApply, Remove, Unlink
<1>7. ASSUME NEW q \in Proc, ReloadRemoved(q)
      PROVE  FALSE
  <2>1. \E s \in {"removed", "incomplete"} : Return(q, s)
    BY <1>7 DEF ReloadRemoved
  <2> QED
    BY <1>1, <2>1
<1>8. ASSUME NEW q \in Proc, ReloadRestored(q)
      PROVE  q = p
  BY <1>1, <1>8 DEF ReloadRestored
<1> QED
  BY <1>3, <1>4, <1>5, <1>6, <1>7, <1>8 DEF Next, Step, OwnStep

(* An installation in which one thing goes wrong, whatever it is, puts the *)
(* files back as capture read them, also when it was interrupted and       *)
(* reports that the undo is incomplete: the error it then reports is that  *)
(* of the last daemon-reload.  When what goes wrong is that someone else   *)
(* changes a file, the other three are put back.                           *)
THEOREM FailedInstallRestores ==
  ASSUME OneFault
  PROVE  Spec => InstallIsTransaction
<1>1. InstallerInv /\ TransactionInv /\ [Next]_vars =>
        [\A p \in Proc : Ends(p, "undone") \/ Ends(p, "dirty") => PutBack(p)]_vars
  <2> SUFFICES ASSUME InstallerInv, TransactionInv, Next, NEW p \in Proc,
                      Ends(p, "undone") \/ Ends(p, "dirty")
               PROVE  PutBack(p)
    OBVIOUS
  <2>1. TypeOK /\ UndoInv(p)
    BY DEF InstallerInv, TransactionInv
  <2>2. ReloadRestored(p)
    BY <2>1, FailsWhere
  <2>3. pc[p] = "reloadRestored" /\ file' = file
    BY <2>2 DEF ReloadRestored
  <2> QED
    BY <2>1, <2>3 DEF UndoInv, PutsBack, PutBack
<1> QED
  BY <1>1, InvariantHolds, TransactionHolds, PTL DEF Spec, InstallIsTransaction

(* After a first installation that failed nothing is enabled and no timer  *)
(* runs: restoreInstall drops the errors of systemctl disable, and when    *)
(* the context is not cancelled there is none.                             *)
THEOREM FailedInstallDisables ==
  ASSUME OneFault
  PROVE  Spec => FirstInstallLeavesNoUnit
<1>1. InstallerInv /\ TransactionInv /\ [Next]_vars =>
        [\A p \in Proc :
           (/\ Ends(p, "undone") \/ Ends(p, "dirty")
            /\ p \notin cancelled
            /\ \A f \in Owned : mem[p].backups[f] = Absent)
           => linked' = {} /\ ~active']_vars
  <2> SUFFICES ASSUME InstallerInv, TransactionInv, Next, NEW p \in Proc,
                      Ends(p, "undone") \/ Ends(p, "dirty"),
                      p \notin cancelled, \A f \in Owned : mem[p].backups[f] = Absent
               PROVE  linked' = {} /\ ~active'
    OBVIOUS
  <2>1. TypeOK /\ UndoInv(p)
    BY DEF InstallerInv, TransactionInv
  <2>2. ReloadRestored(p)
    BY <2>1, FailsWhere
  <2>3. pc[p] = "reloadRestored" /\ linked' = linked /\ active' = active
    BY <2>2 DEF ReloadRestored
  <2>4. "timer" \notin linked /\ ~active /\ "apply" \notin linked
    BY <2>1, <2>3 DEF UndoInv, Disables, Undoing, Owned, Units
  <2> QED
    BY <2>1, <2>3, <2>4 DEF TypeOK, Enabled
<1> QED
  BY <1>1, InvariantHolds, TransactionHolds, PTL DEF Spec, FirstInstallLeavesNoUnit
=============================================================================
