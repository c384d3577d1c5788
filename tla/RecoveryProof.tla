---------------------------- MODULE RecoveryProof ----------------------------
(***************************************************************************)
(* What Manager promises about snapshots, recovery and exit statuses, for  *)
(* any number of invocations, keys, inputs and faults.                     *)
(*                                                                         *)
(* The argument is the one the code relies on: the holder of the flock is  *)
(* alone with the host (lemma Isolation), so that each invariant about a   *)
(* process inside the lock has only the process's own steps to survive.    *)
(***************************************************************************)
EXTENDS ManagerProof

-----------------------------------------------------------------------------
(* Isolation.                                                              *)

(* The steps of a process outside the lock change nothing that is shared.  *)
LEMMA UnlockedStep ==
  ASSUME NEW p \in Proc, Step(p), pc[p] \notin Locked
  PROVE  UNCHANGED <<live, file, snaps, latest, torn>>
<1>1. \/ DetectKey(p) \/ MakePlan(p) \/ NeedsApply(p) \/ VerifyHost(p)
      \/ AcquireLock(p)
  BY DEF Step, Locked, Prepare, Modify, Restore, LoadModule, Capture, WriteSnapshot,
         WriteLatest, WriteSysctlFile, WriteModulesFile, LoadKey, LoadEnds, Verify,
         ReadSnapshot, RestoreFile, RestoreKey, VerifyRestored
<1> QED
  BY <1>1 DEF DetectKey, MakePlan, NeedsApply, VerifyHost, AcquireLock

(* A step of p leaves the control state of the other processes alone.      *)
LEMMA OthersStay ==
  ASSUME ControlInv, NEW p \in Proc, Step(p), NEW q \in Proc \ {p}
  PROVE  pc'[q] = pc[q] /\ mem'[q] = mem[q] /\ result'[q] = result[q]
<1>1. ASSUME NEW call, NEW m, Goto(p, call, m)
      PROVE  pc'[q] = pc[q] /\ mem'[q] = mem[q] /\ result'[q] = result[q]
  BY <1>1 DEF Goto, ControlInv
<1>2. ASSUME NEW r, Return(p, r)
      PROVE  pc'[q] = pc[q] /\ mem'[q] = mem[q] /\ result'[q] = result[q]
  BY <1>2 DEF Return, ControlInv
<1>3. CASE AcquireLock(p)
  BY <1>2, <1>3 DEF AcquireLock, ControlInv
<1>4. CASE DetectKey(p) \/ MakePlan(p) \/ NeedsApply(p) \/ VerifyHost(p)
  BY <1>1, <1>2, <1>4 DEF DetectKey, MakePlan, NeedsApply, VerifyHost
<1>5. CASE LoadModule(p) \/ Capture(p) \/ WriteSnapshot(p) \/ WriteLatest(p)
  BY <1>1, <1>2, <1>5 DEF LoadModule, Capture, WriteSnapshot, WriteLatest
<1>6. CASE \/ WriteSysctlFile(p) \/ WriteModulesFile(p)
           \/ LoadKey(p) \/ LoadEnds(p) \/ Verify(p)
  BY <1>1, <1>2, <1>6
  DEF WriteSysctlFile, WriteModulesFile, LoadKey, LoadEnds, Verify, StartRestore
<1>7. CASE \/ ReadSnapshot(p)
           \/ RestoreFile(p, "restoreModules", "modules", "restoreSysctl")
           \/ RestoreFile(p, "restoreSysctl", "sysctl", "restoreKeys")
           \/ RestoreKey(p) \/ VerifyRestored(p)
  BY <1>1, <1>2, <1>7
  DEF ReadSnapshot, RestoreFile, RestoreKey, VerifyRestored, StartRestore
<1> QED
  BY <1>3, <1>4, <1>5, <1>6, <1>7 DEF Step

(* While a process is inside the lock, the snapshots, the pointer and its  *)
(* own locals change by its steps alone; so do the sysctls and the files   *)
(* unless someone else interferes.                                         *)
Undisturbed(q) ==
  /\ pc[q] \in Locked
  /\ pc'[q] = pc[q]
  /\ mem'[q] = mem[q]
  /\ UNCHANGED <<snaps, latest, torn>>
  /\ "interfere" \notin Faults => UNCHANGED <<live, file>>

LEMMA CommandIsolation ==
  ASSUME ControlInv, MutualExclusion, NEW p \in Proc,
         Begin(p) \/ Step(p) \/ Cancel(p) \/ Kill(p), NEW q \in Proc, pc'[q] \in Locked
  PROVE  Step(q) \/ (Undisturbed(q) /\ UNCHANGED <<live, file>>)
<1>i. {"idle", "detect", "acquire", "observe"} \cap Locked = {}
  BY DEF Locked, Prepare, Modify, Restore
<1>1. CASE Begin(p)
  <2>1. p # q
    BY <1>1, <1>i DEF Begin, Start, ControlInv
  <2> QED
    BY <1>1, <2>1 DEF Begin, Start, ControlInv, Undisturbed
<1>2. CASE Step(p) /\ p # q
  <2>1. pc'[q] = pc[q] /\ mem'[q] = mem[q]
    BY <1>2, OthersStay
  <2>2. pc[p] \notin Locked
    BY <1>2, <2>1 DEF MutualExclusion
  <2> QED
    BY <1>2, <2>1, <2>2, UnlockedStep DEF Undisturbed
<1>3. CASE Cancel(p)
  BY <1>3 DEF Cancel, Undisturbed
<1>4. CASE Kill(p)
  <2>1. p # q
    BY <1>4, <1>i DEF Kill, Return, ControlInv
  <2> QED
    BY <1>4, <2>1 DEF Kill, Return, ControlInv, Undisturbed
<1> QED
  BY <1>1, <1>2, <1>3, <1>4

LEMMA Isolation ==
  ASSUME ControlInv, MutualExclusion, [Next]_vars, NEW q \in Proc,
         pc'[q] \in Locked
  PROVE  Step(q) \/ Undisturbed(q)
<1>1. CASE UNCHANGED vars
  BY <1>1 DEF vars, Undisturbed
<1>2. CASE \E p \in Proc : Begin(p) \/ Step(p) \/ Cancel(p) \/ Kill(p)
  BY <1>2, CommandIsolation
<1>3. ~Reboot
  BY DEF Reboot, Locked, Prepare, Modify, Restore
<1>4. CASE OthersChangeHost
  <2>1. lock # Free
    BY <1>4, ProcAssumption DEF OthersChangeHost, MutualExclusion
  <2>2. "interfere" \in Faults
    BY <1>4, <2>1 DEF OthersChangeHost, Fault
  <2> QED
    BY <1>4, <2>2 DEF OthersChangeHost, Undisturbed
<1> QED
  BY <1>1, <1>2, <1>3, <1>4 DEF Next

-----------------------------------------------------------------------------
(* Snapshots.                                                              *)

(* The calls between captureSnapshot and the first change of the host.     *)
Saving == {"writeSnapshot", "writeLatest", "writeSysctl"}

(* A process about to write its snapshot has an ID of its own; one that    *)
(* has written it finds it on disk.                                        *)
SnapshotInv ==
  /\ LatestExists
  /\ \A p \in Proc :
       /\ pc[p] = "writeSnapshot" => snaps[mem[p].snap.id] = None
       /\ pc[p] \in {"writeLatest", "writeSysctl"} => snaps[mem[p].snap.id] = mem[p].snap

(* How a process comes to one of the Saving calls.                         *)
Captures(p) ==
  /\ pc'[p] = "writeSnapshot"
  /\ \E i \in Ids :
       /\ snaps[i] = None
       /\ mem'[p].snap = [id |-> i, sysctls |-> live, files |-> file]
  /\ UNCHANGED <<live, file, snaps, latest, torn>>

SavesSnapshot(p) ==
  /\ pc[p] = "writeSnapshot" /\ pc'[p] = "writeLatest"
  /\ mem'[p] = mem[p]
  /\ snaps' = [snaps EXCEPT ![mem[p].snap.id] = mem[p].snap]
  /\ UNCHANGED <<live, file, latest, torn>>

SavesLatest(p) ==
  /\ pc[p] = "writeLatest" /\ pc'[p] = "writeSysctl"
  /\ mem'[p] = mem[p]
  /\ latest' = mem[p].snap.id
  /\ torn' = None
  /\ UNCHANGED <<live, file, snaps>>

(* The calls Goto and Return lead to.                                      *)
LEMMA Arrives ==
  ASSUME ControlInv, NEW p \in Proc
  PROVE  /\ \A call, m : Goto(p, call, m) => pc'[p] = call /\ mem'[p] = m
         /\ \A r : Return(p, r) => pc'[p] = "idle"
         /\ \A m : StartRestore(p, m) => pc'[p] = "restoreModules"
BY DEF ControlInv, Goto, Return, StartRestore

(* restoreSnapshot is entered with the snapshot and the command as they    *)
(* are.                                                                    *)
LEMMA ArrivesRestore ==
  ASSUME ControlInv, NEW p \in Proc, NEW m \in Mem, StartRestore(p, m)
  PROVE  /\ mem'[p].snap = m.snap
         /\ mem'[p].op = m.op
         /\ mem'[p].id = m.id
<1>1. mem'[p] = [m EXCEPT !.todo = {}, !.failed = FALSE]
  BY DEF ControlInv, Goto, StartRestore
<1> QED
  BY <1>1 DEF Mem

LEMMA SavingSteps ==
  ASSUME TypeInv, NEW p \in Proc, Step(p), pc'[p] \in Saving
  PROVE  Captures(p) \/ SavesSnapshot(p) \/ SavesLatest(p)
<1> USE Arrives DEF TypeInv, Saving
<1>1. CASE DetectKey(p) \/ MakePlan(p) \/ NeedsApply(p) \/ VerifyHost(p)
  <2>1. \/ \E r : Return(p, r)
        \/ \E call \in Unlocked : \E m : Goto(p, call, m)
    BY <1>1 DEF DetectKey, MakePlan, NeedsApply, VerifyHost, Unlocked
  <2> QED
    BY <2>1 DEF Unlocked
<1>2. CASE AcquireLock(p)
  BY <1>2 DEF AcquireLock, ControlInv
<1>3. CASE LoadModule(p)
  BY <1>3 DEF LoadModule
<1>4. CASE Capture(p)
  <2>1. PICK i \in Ids :
          /\ snaps[i] = None
          /\ Goto(p, "writeSnapshot",
                  [mem[p] EXCEPT !.snap = [id |-> i, sysctls |-> live, files |-> file]])
    BY <1>4 DEF Capture, FreshId
  <2>2. mem'[p].snap = [id |-> i, sysctls |-> live, files |-> file]
    BY <2>1 DEF ControlInv, Mem
  <2> QED
    BY <1>4, <2>1, <2>2 DEF Capture, Captures
<1>5. CASE WriteSnapshot(p)
  BY <1>5 DEF WriteSnapshot, SavesSnapshot
<1>6. CASE WriteLatest(p)
  BY <1>6 DEF WriteLatest, SavesLatest, NewLatest
<1>7. CASE \/ WriteSysctlFile(p) \/ WriteModulesFile(p)
           \/ LoadKey(p) \/ LoadEnds(p) \/ Verify(p)
  BY <1>7 DEF WriteSysctlFile, WriteModulesFile, LoadKey, LoadEnds, Verify
<1>8. CASE \/ ReadSnapshot(p)
           \/ RestoreFile(p, "restoreModules", "modules", "restoreSysctl")
           \/ RestoreFile(p, "restoreSysctl", "sysctl", "restoreKeys")
           \/ RestoreKey(p) \/ VerifyRestored(p)
  BY <1>8 DEF ReadSnapshot, RestoreFile, RestoreKey, VerifyRestored
<1> QED
  BY <1>1, <1>2, <1>3, <1>4, <1>5, <1>6, <1>7, <1>8 DEF Step

(* What a step may do to the snapshot directory.                           *)
LEMMA DiskSteps ==
  ASSUME TypeInv, [Next]_vars
  PROVE  \/ UNCHANGED <<snaps, latest>>
         \/ \E p \in Proc : SavesSnapshot(p) \/ SavesLatest(p)
<1> USE Arrives DEF TypeInv
<1>1. ASSUME NEW p \in Proc, Step(p)
      PROVE  \/ UNCHANGED <<snaps, latest>>
             \/ SavesSnapshot(p) \/ SavesLatest(p)
  <2>1. CASE WriteSnapshot(p)
    BY <2>1 DEF WriteSnapshot, SavesSnapshot
  <2>2. CASE WriteLatest(p)
    BY <2>2 DEF WriteLatest, SavesLatest, NewLatest
  <2>3. CASE ~WriteSnapshot(p) /\ ~WriteLatest(p)
    BY <1>1, <2>3
    DEF Step, DetectKey, MakePlan, NeedsApply, VerifyHost, AcquireLock, LoadModule, Capture,
        WriteSysctlFile, WriteModulesFile, LoadKey, LoadEnds, Verify,
        ReadSnapshot, RestoreFile, RestoreKey, VerifyRestored
  <2> QED
    BY <2>1, <2>2, <2>3
<1> QED
  BY <1>1 DEF Next, Begin, Cancel, Kill, Reboot, OthersChangeHost, vars

LEMMA SnapshotInit == Init => SnapshotInv
BY DEF Init, SnapshotInv, LatestExists

LEMMA SnapshotNext ==
  TypeInv /\ MutualExclusion /\ SnapshotInv /\ [Next]_vars => SnapshotInv'
<1> SUFFICES ASSUME TypeInv, MutualExclusion, SnapshotInv, [Next]_vars
             PROVE  SnapshotInv'
  OBVIOUS
<1>s. \A p \in Proc : pc[p] \in Saving => mem[p].snap \in Snapshots
  BY DEF TypeInv, ControlInv, LocalsOf, HasSnap, Saving, Modify
<1>1. ASSUME NEW p \in Proc, pc'[p] \in Saving
      PROVE  /\ pc'[p] = "writeSnapshot" => snaps'[mem'[p].snap.id] = None
             /\ pc'[p] \in {"writeLatest", "writeSysctl"}
                  => snaps'[mem'[p].snap.id] = mem'[p].snap
  <2>1. pc'[p] \in Locked
    BY <1>1 DEF Saving, Locked, Prepare, Modify
  <2>2. CASE Undisturbed(p)
    BY <2>2 DEF Undisturbed, SnapshotInv
  <2>3. CASE Captures(p)
    BY <2>3 DEF Captures
  <2>4. CASE SavesSnapshot(p)
    <3>1. mem[p].snap.id \in Ids /\ snaps \in [Ids -> Snapshots \cup {None}]
      BY <1>s, <2>4 DEF SavesSnapshot, Saving, Snapshots, TypeInv, DataType
    <3> QED
      BY <2>4, <3>1 DEF SavesSnapshot
  <2>5. CASE SavesLatest(p)
    BY <2>5 DEF SavesLatest, SnapshotInv
  <2> QED
    BY <1>1, <2>1, <2>2, <2>3, <2>4, <2>5, Isolation, SavingSteps DEF TypeInv
<1>2. LatestExists'
  <2>1. CASE UNCHANGED <<snaps, latest>>
    BY <2>1 DEF SnapshotInv, LatestExists
  <2>2. ASSUME NEW p \in Proc, SavesSnapshot(p) PROVE LatestExists'
    <3>1. mem[p].snap \in Snapshots
      BY <1>s, <2>2 DEF SavesSnapshot, Saving
    <3> QED
      BY <2>2, <3>1, FilesAssumption
      DEF SavesSnapshot, SnapshotInv, LatestExists, TypeInv, DataType
  <2>3. ASSUME NEW p \in Proc, SavesLatest(p) PROVE LatestExists'
    <3>1. mem[p].snap \in Snapshots /\ snaps[mem[p].snap.id] = mem[p].snap
      BY <1>s, <2>3 DEF SavesLatest, Saving, SnapshotInv
    <3> QED
      BY <2>3, <3>1, FilesAssumption DEF SavesLatest, LatestExists
  <2> QED
    BY <2>1, <2>2, <2>3, DiskSteps
<1> QED
  BY <1>1, <1>2 DEF SnapshotInv, Saving

(* The pointer "latest" never names a snapshot that is not on disk,        *)
(* whatever fails or crashes, and also when others edit the host.          *)
THEOREM PointerSafe == Spec => []LatestExists
<1>1. SnapshotInv => LatestExists
  BY DEF SnapshotInv
<1>2. TypeInv => ControlInv
  BY DEF TypeInv
<1> QED
  BY <1>1, <1>2, TypeInit, TypeNext, MutexInit, MutexNext, SnapshotInit, SnapshotNext, PTL
  DEF Spec

LEMMA SnapshotKeptStep ==
  ASSUME TypeInv, SnapshotInv, [Next]_vars, NEW i \in Ids, snaps[i] # None
  PROVE  snaps'[i] = snaps[i]
<1>1. ASSUME NEW p \in Proc, SavesSnapshot(p) PROVE snaps'[i] = snaps[i]
  <2>1. snaps[mem[p].snap.id] = None
    BY <1>1 DEF SavesSnapshot, SnapshotInv
  <2> QED
    BY <1>1, <2>1 DEF SavesSnapshot, TypeInv, DataType
<1>2. ASSUME NEW p \in Proc, SavesLatest(p) PROVE snaps'[i] = snaps[i]
  BY <1>2 DEF SavesLatest
<1> QED
  BY <1>1, <1>2, DiskSteps

(* A snapshot that is on disk stays there unchanged.                       *)
THEOREM SnapshotsNeverLost == Spec => SnapshotsKept
<1>1. TypeInv /\ SnapshotInv /\ [Next]_vars
        => [\A i \in Ids : snaps[i] # None => snaps'[i] = snaps[i]]_vars
  BY SnapshotKeptStep
<1>2. TypeInv => ControlInv
  BY DEF TypeInv
<1> QED
  BY <1>1, <1>2, TypeInit, TypeNext, MutexInit, MutexNext, SnapshotInit, SnapshotNext, PTL
  DEF Spec, SnapshotsKept

-----------------------------------------------------------------------------
(* Recovery, when nobody changes the host behind the lock.                 *)

(* Between captureSnapshot and the first change of the host the snapshot   *)
(* in memory is the host as it is, and `latest` names it before the host   *)
(* is touched.                                                             *)
RecoverInv ==
  /\ \A p \in Proc :
       /\ pc[p] \in Saving => Saved(mem[p].snap) = Host
       /\ pc[p] = "writeSysctl" => latest = mem[p].snap.id
  /\ Recoverable

(* What a step may do to the record of an operation that has not ended     *)
(* well.                                                                   *)
LEMMA TornSteps ==
  ASSUME TypeInv, [Next]_vars
  PROVE  \/ torn' \in {torn, None}
         \/ \E p \in Proc : /\ pc[p] = "writeSysctl"
                            /\ torn' = Host
                            /\ UNCHANGED <<snaps, latest>>
<1>1. ASSUME NEW p \in Proc, Step(p)
      PROVE  \/ torn' \in {torn, None}
             \/ pc[p] = "writeSysctl" /\ torn' = Host /\ UNCHANGED <<snaps, latest>>
  BY <1>1
  DEF Step, DetectKey, MakePlan, NeedsApply, VerifyHost, AcquireLock, LoadModule, Capture,
      WriteSnapshot, WriteLatest, WriteSysctlFile, WriteModulesFile, LoadKey, LoadEnds,
      Verify, ReadSnapshot, RestoreFile, RestoreKey, VerifyRestored
<1> QED
  BY <1>1 DEF Next, Begin, Cancel, Kill, Reboot, OthersChangeHost, vars

LEMMA RecoverInit == Init => RecoverInv
BY DEF Init, RecoverInv, Recoverable, Saving

LEMMA RecoverNext ==
  ASSUME "interfere" \notin Faults
  PROVE  TypeInv /\ MutualExclusion /\ SnapshotInv /\ RecoverInv /\ [Next]_vars
           => RecoverInv'
<1> SUFFICES ASSUME TypeInv, MutualExclusion, SnapshotInv, RecoverInv, [Next]_vars
             PROVE  RecoverInv'
  OBVIOUS
<1>s. \A p \in Proc : pc[p] \in Saving => mem[p].snap \in Snapshots
  BY DEF TypeInv, ControlInv, LocalsOf, HasSnap, Saving, Modify
<1>1. ASSUME NEW p \in Proc, pc'[p] \in Saving
      PROVE  /\ (Saved(mem[p].snap) = Host)'
             /\ pc'[p] = "writeSysctl" => latest' = mem'[p].snap.id
  <2>1. pc'[p] \in Locked
    BY <1>1 DEF Saving, Locked, Prepare, Modify
  <2>2. CASE Undisturbed(p)
    BY <1>1, <2>2 DEF Undisturbed, RecoverInv, Host, Saved
  <2>3. CASE Captures(p)
    BY <2>3 DEF Captures, Saved, Host
  <2>4. CASE SavesSnapshot(p)
    BY <2>4 DEF SavesSnapshot, RecoverInv, Saving, Saved, Host
  <2>5. CASE SavesLatest(p)
    BY <2>5 DEF SavesLatest, RecoverInv, Saving, Saved, Host
  <2> QED
    BY <1>1, <2>1, <2>2, <2>3, <2>4, <2>5, Isolation, SavingSteps DEF TypeInv
<1>2. Recoverable'
  <2>1. ASSUME NEW p \in Proc, pc[p] = "writeSysctl", torn' = Host,
               UNCHANGED <<snaps, latest>>
        PROVE  Recoverable'
    <3>1. /\ mem[p].snap \in Snapshots
          /\ latest = mem[p].snap.id
          /\ snaps[latest] = mem[p].snap
          /\ Saved(mem[p].snap) = Host
      BY <1>s, <2>1 DEF RecoverInv, SnapshotInv, Saving
    <3>2. latest # None /\ snaps[latest] # None
      BY <3>1, NoneAssumption, FilesAssumption DEF Snapshots
    <3> QED
      BY <2>1, <3>1, <3>2 DEF Recoverable, Saved
  <2>2. CASE torn' = None
    BY <2>2 DEF Recoverable
  <2>3. CASE torn' = torn /\ torn # None
    <3>1. latest \in Ids /\ snaps[latest] # None /\ Saved(snaps[latest]) = torn
      BY <2>3 DEF RecoverInv, Recoverable, TypeInv, DataType
    <3>2. snaps'[latest] = snaps[latest]
      BY <3>1, SnapshotKeptStep
    <3>3. latest' = latest
      BY <2>3, DiskSteps DEF SavesSnapshot, SavesLatest
    <3>4. latest' # None /\ snaps'[latest'] = snaps[latest]
      BY <3>1, <3>2, <3>3, NoneAssumption
    <3> QED
      BY <2>3, <3>1, <3>4 DEF Recoverable, Saved
  <2> QED
    BY <2>1, <2>2, <2>3, TornSteps
<1> QED
  BY <1>1, <1>2 DEF RecoverInv, Saving

(* Recovery: from the first change of the host by an Apply until some      *)
(* operation ends well, the snapshot `rollback` takes by default holds the *)
(* host as it was before - through kills, reboots, failed restores and     *)
(* refused invocations, and for any number of them.                        *)
THEOREM Recovery ==
  ASSUME "interfere" \notin Faults
  PROVE  Spec => []Recoverable
<1>1. RecoverInv => Recoverable
  BY DEF RecoverInv
<1>2. TypeInv => ControlInv
  BY DEF TypeInv
<1> QED
  BY <1>1, <1>2, TypeInit, TypeNext, MutexInit, MutexNext, SnapshotInit, SnapshotNext,
     RecoverInit, RecoverNext, PTL
  DEF Spec

-----------------------------------------------------------------------------
(* Exit statuses.                                                          *)

(* What a process that modifies or restores the host has achieved so far.  *)
AppliedInv(p) ==
  /\ pc[p] = "writeModules" => file["sysctl"] = RenderSysctl(mem[p].plan)
  /\ pc[p] \in {"load", "verify"} => file = Target(mem[p].plan).files

RestoredInv(p) ==
  /\ pc[p] = "restoreSysctl" /\ ~mem[p].failed
       => file["modules"] = mem[p].snap.files["modules"]
  /\ pc[p] = "restoreKeys" /\ ~mem[p].failed => file = mem[p].snap.files

(* A rollback without --snapshot restores the snapshot `latest` names.     *)
LatestInv(p) ==
  pc[p] \in Restore /\ mem[p].op = "rollback" /\ mem[p].id = None
    => latest # None /\ mem[p].snap = snaps[latest]

HonestInv == \A p \in Proc : AppliedInv(p) /\ RestoredInv(p) /\ LatestInv(p)

LEMMA HonestInit == Init => HonestInv
BY DEF Init, HonestInv, AppliedInv, RestoredInv, LatestInv, Restore

(* Files has two members.                                                  *)
LEMMA FilesEqual ==
  ASSUME NEW f, NEW g, f \in [Files -> FileVals], g \in [Files -> FileVals],
         f["modules"] = g["modules"], f["sysctl"] = g["sysctl"]
  PROVE  f = g
BY DEF Files

(* A process's own steps.                                                  *)
LEMMA HonestStep ==
  ASSUME TypeInv, HonestInv, NEW p \in Proc, Step(p), pc'[p] \in Modify \cup Restore
  PROVE  AppliedInv(p)' /\ RestoredInv(p)' /\ LatestInv(p)'
<1> USE Arrives DEF TypeInv
<1>h. AppliedInv(p) /\ RestoredInv(p) /\ LatestInv(p)
  BY DEF HonestInv
<1>m. mem[p] \in Mem /\ LocalsOf(pc[p], mem[p])
  BY DEF ControlInv
<1>a. file \in [Files -> FileVals] /\ file' \in [Files -> FileVals]
  BY TypeNext DEF Next, DataType
<1>l. /\ Loop(p).snap = mem[p].snap /\ Loop(p).failed = mem[p].failed
      /\ Loop(p).op = mem[p].op /\ Loop(p).id = mem[p].id /\ Loop(p).plan = mem[p].plan
      /\ Erred(Loop(p)).failed = TRUE /\ Erred(Loop(p)).snap = mem[p].snap
      /\ Erred(Loop(p)).op = mem[p].op /\ Erred(Loop(p)).id = mem[p].id
  BY <1>m DEF Loop, Erred, Mem
<1>d. \A k :
        /\ Did(p, k).snap = mem[p].snap /\ Did(p, k).failed = mem[p].failed
        /\ Did(p, k).op = mem[p].op /\ Did(p, k).id = mem[p].id
        /\ Did(p, k).plan = mem[p].plan
        /\ Erred(Did(p, k)).failed = TRUE /\ Erred(Did(p, k)).snap = mem[p].snap
        /\ Erred(Did(p, k)).op = mem[p].op /\ Erred(Did(p, k)).id = mem[p].id
        /\ Erred(Did(p, k)).plan = mem[p].plan
  BY <1>m DEF Did, Erred, Mem
<1>t. ASSUME StartRestore(p, mem[p]), mem[p].op # "rollback"
      PROVE  AppliedInv(p)' /\ RestoredInv(p)' /\ LatestInv(p)'
  <2>1. pc'[p] = "restoreModules" /\ mem'[p].op = mem[p].op
    BY <1>t, <1>m, ArrivesRestore
  <2> QED
    BY <1>t, <2>1 DEF AppliedInv, RestoredInv, LatestInv
<1>1. CASE WriteSysctlFile(p)
  <2>1. mem[p].op # "rollback"
    BY <1>1, <1>m DEF WriteSysctlFile, LocalsOf, HasPlan, Modify
  <2>2. CASE StartRestore(p, mem[p])
    BY <1>t, <2>1, <2>2
  <2>3. CASE ~StartRestore(p, mem[p])
    <3>1. /\ file' = [file EXCEPT !["sysctl"] = RenderSysctl(mem[p].plan)]
          /\ pc'[p] = "writeModules" /\ mem'[p] = mem[p]
      BY <1>1, <2>3 DEF WriteSysctlFile
    <3> QED
      BY <1>a, <2>1, <3>1 DEF AppliedInv, RestoredInv, LatestInv, Files
  <2> QED
    BY <2>2, <2>3
<1>2. CASE WriteModulesFile(p)
  <2>1. mem[p].op # "rollback"
    BY <1>2, <1>m DEF WriteModulesFile, LocalsOf, HasPlan, Modify
  <2>2. CASE StartRestore(p, mem[p])
    BY <1>t, <2>1, <2>2
  <2>3. CASE ~StartRestore(p, mem[p])
    <3>1. /\ file' = [file EXCEPT !["modules"] = ModulesLine]
          /\ pc'[p] = "load" /\ mem'[p] = Loop(p) /\ pc[p] = "writeModules"
      BY <1>2, <2>3 DEF WriteModulesFile
    <3>2. file["sysctl"] = RenderSysctl(mem[p].plan)
      BY <1>h, <3>1 DEF AppliedInv
    <3>3. file' = Target(mem[p].plan).files
      BY <1>a, <3>1, <3>2 DEF Target, Files
    <3>4. mem'[p].plan = mem[p].plan
      BY <1>l, <3>1
    <3> QED
      BY <3>1, <3>3, <3>4 DEF AppliedInv, RestoredInv, LatestInv, Restore
  <2> QED
    BY <2>2, <2>3
<1>3. CASE LoadKey(p)
  <2>1. /\ pc'[p] = "load" /\ pc[p] = "load" /\ file' = file
        /\ mem'[p].plan = mem[p].plan
    BY <1>3, <1>d DEF LoadKey
  <2> QED
    BY <1>h, <2>1 DEF AppliedInv, RestoredInv, LatestInv, Restore
<1>4. CASE LoadEnds(p)
  <2>1. mem[p].op # "rollback"
    BY <1>4, <1>m DEF LoadEnds, LocalsOf, HasPlan, Modify
  <2>2. CASE StartRestore(p, mem[p])
    BY <1>t, <2>1, <2>2
  <2>3. CASE ~StartRestore(p, mem[p])
    <3>1. pc[p] = "load" /\ pc'[p] = "verify" /\ mem'[p] = mem[p] /\ file' = file
      BY <1>4, <2>3 DEF LoadEnds
    <3> QED
      BY <1>h, <3>1 DEF AppliedInv, RestoredInv, LatestInv, Restore
  <2> QED
    BY <2>2, <2>3
<1>5. CASE Verify(p)
  <2>1. mem[p].op # "rollback"
    BY <1>5, <1>m DEF Verify, LocalsOf, HasPlan, Modify
  <2>2. StartRestore(p, mem[p])
    BY <1>5 DEF Verify, Modify, Restore
  <2> QED
    BY <1>t, <2>1, <2>2
<1>6. CASE ReadSnapshot(p)
  <2> DEFINE i == IF mem[p].id = None THEN latest ELSE mem[p].id
             m == [mem[p] EXCEPT !.snap = snaps[i]]
  <2>1. i # None /\ snaps[i] # None /\ StartRestore(p, m) /\ UNCHANGED <<snaps, latest>>
    BY <1>6 DEF ReadSnapshot, Modify, Restore
  <2>2. i \in Ids
    BY <1>m, <2>1 DEF DataType, Mem
  <2>3. snaps[i] \in Snapshots
    BY <2>1, <2>2 DEF DataType
  <2>4. m \in Mem
    BY <1>m, <2>3, LocalsType
  <2>5. m.snap = snaps[i] /\ m.id = mem[p].id
    BY <1>m DEF Mem
  <2> HIDE DEF m
  <2>6. pc'[p] = "restoreModules" /\ mem'[p].snap = snaps[i] /\ mem'[p].id = mem[p].id
    BY <2>1, <2>4, <2>5, ArrivesRestore
  <2> QED
    BY <2>1, <2>6 DEF AppliedInv, RestoredInv, LatestInv
<1>7. CASE RestoreFile(p, "restoreModules", "modules", "restoreSysctl")
  <2>1. /\ pc[p] = "restoreModules" /\ pc'[p] = "restoreSysctl"
        /\ UNCHANGED <<snaps, latest>>
        /\ mem'[p] \in {Loop(p), Erred(Loop(p))}
        /\ mem'[p] # Erred(Loop(p))
             => file' = [file EXCEPT !["modules"] = mem[p].snap.files["modules"]]
    BY <1>7 DEF RestoreFile, RestoredFile
  <2>2. RestoredInv(p)'
    BY <1>a, <1>l, <2>1 DEF RestoredInv, Files
  <2> QED
    BY <1>h, <1>l, <2>1, <2>2 DEF AppliedInv, LatestInv, Restore
<1>8. CASE RestoreFile(p, "restoreSysctl", "sysctl", "restoreKeys")
  <2>1. /\ pc[p] = "restoreSysctl" /\ pc'[p] = "restoreKeys"
        /\ UNCHANGED <<snaps, latest>>
        /\ mem'[p] \in {Loop(p), Erred(Loop(p))}
        /\ mem'[p] # Erred(Loop(p))
             => file' = [file EXCEPT !["sysctl"] = mem[p].snap.files["sysctl"]]
    BY <1>8 DEF RestoreFile, RestoredFile
  <2>2. mem[p].snap.files \in [Files -> FileVals]
    BY <1>m, <2>1 DEF LocalsOf, HasSnap, Restore, Snapshots
  <2>3. ASSUME ~mem'[p].failed PROVE file' = mem[p].snap.files
    <3>1. /\ file' = [file EXCEPT !["sysctl"] = mem[p].snap.files["sysctl"]]
          /\ file["modules"] = mem[p].snap.files["modules"]
      BY <1>h, <1>l, <2>1, <2>3 DEF RestoredInv
    <3>2. /\ file'["modules"] = mem[p].snap.files["modules"]
          /\ file'["sysctl"] = mem[p].snap.files["sysctl"]
      BY <1>a, <3>1 DEF Files
    <3> QED
      BY <1>a, <2>2, <3>2, FilesEqual
  <2> QED
    BY <1>h, <1>l, <2>1, <2>3 DEF AppliedInv, RestoredInv, LatestInv, Restore
<1>9. CASE RestoreKey(p)
  <2>1. /\ pc[p] = "restoreKeys" /\ pc'[p] = "restoreKeys"
        /\ UNCHANGED <<file, snaps, latest>>
        /\ \E k \in Keys : mem'[p] \in {Did(p, k), Erred(Did(p, k))}
    BY <1>9 DEF RestoreKey
  <2> QED
    BY <1>h, <1>d, <2>1 DEF AppliedInv, RestoredInv, LatestInv, Restore
<1>10. ~VerifyRestored(p)
  BY DEF VerifyRestored, Modify, Restore
<1>11. CASE \/ DetectKey(p) \/ MakePlan(p) \/ NeedsApply(p) \/ VerifyHost(p)
  <2>1. \/ \E r : Return(p, r)
        \/ \E call \in Unlocked : \E m : Goto(p, call, m)
    BY <1>11 DEF DetectKey, MakePlan, NeedsApply, VerifyHost, Unlocked
  <2> QED
    BY <2>1 DEF Unlocked, Modify, Restore
<1>12. ~AcquireLock(p)
  BY DEF AcquireLock, ControlInv, Modify, Restore
<1>13. CASE LoadModule(p) \/ Capture(p) \/ WriteSnapshot(p) \/ WriteLatest(p)
  <2>1. pc'[p] \in Prepare \cup {"idle", "writeSysctl"}
    BY <1>13 DEF LoadModule, Capture, WriteSnapshot, WriteLatest, Prepare
  <2>2. pc'[p] = "writeSysctl"
    BY <2>1 DEF Prepare, Modify, Restore
  <2> QED
    BY <2>2 DEF AppliedInv, RestoredInv, LatestInv, Restore
<1> QED
  BY <1>1, <1>2, <1>3, <1>4, <1>5, <1>6, <1>7, <1>8, <1>9, <1>10, <1>11, <1>12, <1>13
  DEF Step

LEMMA HonestNext ==
  ASSUME "interfere" \notin Faults
  PROVE  TypeInv /\ MutualExclusion /\ HonestInv /\ [Next]_vars => HonestInv'
<1> SUFFICES ASSUME TypeInv, MutualExclusion, HonestInv, [Next]_vars, NEW p \in Proc
             PROVE  AppliedInv(p)' /\ RestoredInv(p)' /\ LatestInv(p)'
  BY DEF HonestInv
<1>1. CASE pc'[p] \notin Modify \cup Restore
  BY <1>1 DEF AppliedInv, RestoredInv, LatestInv, Modify, Restore
<1>2. CASE pc'[p] \in Modify \cup Restore /\ Step(p)
  BY <1>2, HonestStep
<1>3. CASE pc'[p] \in Modify \cup Restore /\ Undisturbed(p)
  BY <1>3 DEF Undisturbed, HonestInv, AppliedInv, RestoredInv, LatestInv
<1> QED
  BY <1>1, <1>2, <1>3, Isolation DEF TypeInv, Locked

(* The commands of this program respect the lock.                          *)
LEMMA HonestCommand ==
  ASSUME TypeInv, MutualExclusion, HonestInv, NEW p \in Proc,
         Begin(p) \/ Step(p) \/ Cancel(p) \/ Kill(p)
  PROVE  HonestInv'
<1> SUFFICES ASSUME NEW q \in Proc
             PROVE  AppliedInv(q)' /\ RestoredInv(q)' /\ LatestInv(q)'
  BY DEF HonestInv
<1>1. CASE pc'[q] \notin Modify \cup Restore
  BY <1>1 DEF AppliedInv, RestoredInv, LatestInv, Modify, Restore
<1>2. CASE pc'[q] \in Modify \cup Restore /\ Step(q)
  BY <1>2, HonestStep
<1>3. CASE pc'[q] \in Modify \cup Restore /\ Undisturbed(q) /\ UNCHANGED <<live, file>>
  BY <1>3 DEF Undisturbed, HonestInv, AppliedInv, RestoredInv, LatestInv
<1> QED
  BY <1>1, <1>2, <1>3, CommandIsolation DEF TypeInv, Locked

(* A command ends with the status r only in the step that returns it.      *)
LEMMA EndsReturning ==
  ASSUME TypeInv, [Next]_vars, NEW p \in Proc, NEW r \in Results \ {"killed"}, Ends(p, r),
         r # "running"
  PROVE  Step(p) /\ (\A s : Return(p, s) => s = r) /\ (\A call, m : ~Goto(p, call, m))
<1> USE DEF TypeInv
<1>1. result'[p] # result[p]
  BY DEF Ends
<1>2. ASSUME NEW q \in Proc, Begin(q) PROVE FALSE
  BY <1>1, <1>2 DEF Begin, Start, ControlInv, Ends
<1>3. ASSUME NEW q \in Proc, Kill(q) PROVE FALSE
  BY <1>1, <1>3 DEF Kill, Return, ControlInv, Ends
<1>4. ASSUME NEW q \in Proc, Step(q), q # p PROVE FALSE
  BY <1>1, <1>4, OthersStay
<1>5. ~Reboot
  BY <1>1 DEF Reboot, Ends
<1>6. Step(p)
  BY <1>1, <1>2, <1>3, <1>4, <1>5 DEF Next, Cancel, OthersChangeHost, vars
<1>7. \A call, m : ~Goto(p, call, m)
  BY <1>1 DEF Goto
<1>8. \A s : Return(p, s) => s = r
  BY DEF Return, ControlInv, Ends
<1> QED
  BY <1>6, <1>7, <1>8

(* A verification without the lock has statuses of its own.                *)
LEMMA VerifyHostEnds ==
  ASSUME NEW p \in Proc, VerifyHost(p)
  PROVE  \E r : Return(p, r) /\ r \notin {"applied", "reverted", "restored"}
<1>1. \A ok : Verdict(p, ok) \notin {"applied", "reverted", "restored"}
  BY DEF Verdict
<1>2. \/ \E ok : Return(p, Verdict(p, ok))
      \/ Return(p, "refused")
  BY DEF VerifyHost
<1> QED
  BY <1>1, <1>2

(* "applied" is the status of a successful Verify under the lock.          *)
LEMMA EndsApplied ==
  ASSUME TypeInv, [Next]_vars, NEW p \in Proc, Ends(p, "applied")
  PROVE  /\ pc[p] = "verify"
         /\ VerifyMaps(live, mem[p].plan.sysctls)
         /\ UNCHANGED <<live, file>>
<1>1. /\ Step(p)
      /\ \A s : Return(p, s) => s = "applied"
      /\ \A call, m : ~Goto(p, call, m)
  BY EndsReturning DEF Results
<1>2. ~AcquireLock(p)
  <2>1. ASSUME AcquireLock(p) PROVE result' = result \/ Return(p, "refused")
    BY <2>1 DEF AcquireLock
  <2> QED
    BY <1>1, <2>1 DEF Ends
<1>3. CASE Verify(p)
  BY <1>1, <1>3 DEF Verify, StartRestore
<1>4. ~VerifyRestored(p)
  BY <1>1 DEF VerifyRestored
<1>5. ~VerifyHost(p)
  BY <1>1, VerifyHostEnds
<1> QED
  BY <1>1, <1>2, <1>3, <1>4, <1>5
  DEF Step, DetectKey, MakePlan, NeedsApply, LoadModule, Capture,
      WriteSnapshot, WriteLatest, WriteSysctlFile, WriteModulesFile, LoadKey, LoadEnds,
      ReadSnapshot, RestoreFile, RestoreKey, StartRestore

(* "reverted" and "restored" are the statuses of a restoreSnapshot that    *)
(* met no error and verified.                                              *)
LEMMA EndsRestored ==
  ASSUME TypeInv, [Next]_vars, NEW p \in Proc, Ends(p, "reverted") \/ Ends(p, "restored")
  PROVE  /\ pc[p] = "restoreKeys"
         /\ ~mem[p].failed
         /\ VerifyMaps(live, mem[p].snap.sysctls)
         /\ UNCHANGED <<live, file>>
         /\ Ends(p, "restored") => mem[p].op = "rollback"
<1>1. /\ Step(p)
      /\ \A s : Return(p, s) => s = "reverted" \/ s = "restored"
      /\ \A s : Return(p, s) /\ Ends(p, "restored") => s = "restored"
      /\ \A call, m : ~Goto(p, call, m)
  BY EndsReturning DEF Results
<1>2. ~AcquireLock(p)
  <2>1. ASSUME AcquireLock(p) PROVE result' = result \/ Return(p, "refused")
    BY <2>1 DEF AcquireLock
  <2> QED
    BY <1>1, <2>1 DEF Ends
<1>3. CASE VerifyRestored(p)
  BY <1>1, <1>3 DEF VerifyRestored
<1>4. ~Verify(p)
  BY <1>1 DEF Verify, StartRestore
<1>5. ~VerifyHost(p)
  BY <1>1, VerifyHostEnds
<1> QED
  BY <1>1, <1>2, <1>3, <1>4, <1>5
  DEF Step, DetectKey, MakePlan, NeedsApply, LoadModule, Capture,
      WriteSnapshot, WriteLatest, WriteSysctlFile, WriteModulesFile, LoadKey, LoadEnds,
      ReadSnapshot, RestoreFile, RestoreKey, StartRestore

(* verifyMaps compares all of a complete map.                              *)
LEMMA VerifiedEqual ==
  ASSUME NEW f \in [Keys -> Vals], NEW g \in [Keys -> Vals], VerifyMaps(f, g)
  PROVE  f = g
BY DEF VerifyMaps

(* Exit statuses are honest: when nobody changes the host behind the lock, *)
(* success of Apply means that every sysctl and both files are as planned, *)
(* and a restore that reports no error has put all of them back, whatever  *)
(* commands or file operations failed on the way.                          *)
THEOREM Honest ==
  ASSUME "interfere" \notin Faults
  PROVE  Spec => HonestOutcome
<1> DEFINE Good(p) ==
      /\ Ends(p, "applied") => Host' = Target(mem[p].plan)
      /\ Ends(p, "reverted") \/ Ends(p, "restored") => Host' = Saved(mem[p].snap)
<1>1. ASSUME TypeInv, HonestInv, [Next]_vars, NEW p \in Proc PROVE Good(p)
  <2>t. LocalsOf(pc[p], mem[p]) /\ live \in [Keys -> Vals]
    BY <1>1 DEF TypeInv, ControlInv, DataType
  <2>1. ASSUME Ends(p, "applied") PROVE Host' = Target(mem[p].plan)
    <3>1. /\ pc[p] = "verify" /\ VerifyMaps(live, mem[p].plan.sysctls)
          /\ UNCHANGED <<live, file>>
      BY <1>1, <2>1, EndsApplied
    <3>2. mem[p].plan.sysctls \in [Keys -> Vals]
      BY <2>t, <3>1 DEF LocalsOf, HasPlan, Modify, Plans
    <3>3. live = mem[p].plan.sysctls
      BY <2>t, <3>1, <3>2, VerifiedEqual
    <3>4. file = Target(mem[p].plan).files
      BY <1>1, <3>1 DEF HonestInv, AppliedInv
    <3> QED
      BY <3>1, <3>3, <3>4 DEF Host, Target
  <2>2. ASSUME Ends(p, "reverted") \/ Ends(p, "restored") PROVE Host' = Saved(mem[p].snap)
    <3>1. /\ pc[p] = "restoreKeys" /\ ~mem[p].failed
          /\ VerifyMaps(live, mem[p].snap.sysctls)
          /\ UNCHANGED <<live, file>>
      BY <1>1, <2>2, EndsRestored
    <3>2. mem[p].snap.sysctls \in [Keys -> Vals]
      BY <2>t, <3>1 DEF LocalsOf, HasSnap, Restore, Snapshots
    <3>3. live = mem[p].snap.sysctls
      BY <2>t, <3>1, <3>2, VerifiedEqual
    <3>4. file = mem[p].snap.files
      BY <1>1, <3>1 DEF HonestInv, RestoredInv
    <3> QED
      BY <3>1, <3>3, <3>4 DEF Host, Saved
  <2> QED
    BY <2>1, <2>2
<1>2. TypeInv /\ HonestInv /\ [Next]_vars => [\A p \in Proc : Good(p)]_vars
  BY <1>1
<1>3. TypeInv => ControlInv
  BY DEF TypeInv
<1> QED
  BY <1>2, <1>3, TypeInit, TypeNext, MutexInit, MutexNext, HonestInit, HonestNext, PTL
  DEF Spec, HonestOutcome

(* A crash, a reboot or a failed restore in the middle of an Apply is      *)
(* undone by the next successful rollback without --snapshot, whichever    *)
(* invocation runs it: the host is what it was before that Apply.          *)
THEOREM CrashUndone ==
  ASSUME "interfere" \notin Faults
  PROVE  Spec => RollbackUndoesCrash
<1> DEFINE Good(p) ==
      Ends(p, "restored") /\ mem[p].id = None /\ torn # None => Host' = torn
<1>1. ASSUME TypeInv, HonestInv, RecoverInv, [Next]_vars, NEW p \in Proc,
             Ends(p, "restored"), mem[p].id = None, torn # None
      PROVE  Host' = torn
  <2>1. /\ pc[p] = "restoreKeys" /\ ~mem[p].failed /\ mem[p].op = "rollback"
        /\ VerifyMaps(live, mem[p].snap.sysctls)
        /\ UNCHANGED <<live, file>>
    BY <1>1, EndsRestored
  <2>2. mem[p].snap.sysctls \in [Keys -> Vals] /\ live \in [Keys -> Vals]
    BY <1>1, <2>1
    DEF TypeInv, ControlInv, DataType, LocalsOf, HasSnap, Restore, Snapshots
  <2>3. live = mem[p].snap.sysctls /\ file = mem[p].snap.files
    BY <1>1, <2>1, <2>2, VerifiedEqual DEF HonestInv, RestoredInv
  <2>4. mem[p].snap = snaps[latest]
    BY <1>1, <2>1 DEF HonestInv, LatestInv, Restore
  <2>5. Saved(snaps[latest]) = torn
    BY <1>1 DEF RecoverInv, Recoverable
  <2> QED
    BY <2>1, <2>3, <2>4, <2>5 DEF Host, Saved
<1>2. TypeInv /\ HonestInv /\ RecoverInv /\ [Next]_vars => [\A p \in Proc : Good(p)]_vars
  BY <1>1
<1>3. TypeInv => ControlInv
  BY DEF TypeInv
<1> QED
  BY <1>2, <1>3, TypeInit, TypeNext, MutexInit, MutexNext, SnapshotInit, SnapshotNext,
     RecoverInit, RecoverNext, HonestInit, HonestNext, PTL
  DEF Spec, RollbackUndoesCrash

-----------------------------------------------------------------------------
(* What a command knows of the host as long as nobody else changes it.      *)

(* What holds of all commands, whatever the others do.                     *)
KnownInv == TypeInv /\ MutualExclusion /\ CommandInv /\ HonestInv

LEMMA KnownInit == Init => KnownInv
BY TypeInit, MutexInit, CommandInit, HonestInit DEF KnownInv

LEMMA KnownNext ==
  ASSUME "interfere" \notin Faults
  PROVE  KnownInv /\ [Next]_vars => KnownInv'
<1>1. TypeInv => ControlInv
  BY DEF TypeInv
<1> QED
  BY <1>1, TypeNext, MutexNext, CommandNext, HonestNext DEF KnownInv

(* The calls from the start of a command to the first sysctl it assigns.   *)
Early == Unlocked \cup Prepare \cup {"writeSysctl", "writeModules"}

(* What Detect saw is still so.                                            *)
Fresh(p) == \A k \in Keys : mem[p].seen[k] \in {None, live[k]}

(* sysctl -p has assigned a key or not come to it yet.                     *)
Loading(p) ==
  \A k \in Keys : mem[p].seen[k] # None => live[k] \in {mem[p].seen[k], mem[p].plan.sysctls[k]}

(* The host is as planned, and would be planned so again.                  *)
Settled(p) ==
  /\ Host = Target(mem[p].plan)
  /\ BuildPlan(mem[p].plan.input, mem[p].plan.sysctls) = mem[p].plan

SeenInv(p) ==
  /\ pc[p] \in Early => Fresh(p)
  /\ pc[p] = "load" => Loading(p)
  /\ pc[p] \in {"acquire"} \cup Prepare /\ mem[p].op = "reconcile" => Drift(p)
  /\ pc[p] = "observe" /\ mem[p].op = "reconcile" => Settled(p)

(* A plan made from the values it recommends is the same plan.             *)
LEMMA PlanAgain ==
  ASSUME NEW i \in Inputs, NEW seen \in [Keys -> Vals \cup {None}]
  PROVE  BuildPlan(i, BuildPlan(i, seen).sysctls) = BuildPlan(i, seen)
<1>1. \A k \in Keys : MaxParsed(MaxParsed(seen[k])) = MaxParsed(seen[k])
  BY ValsAssumption, NoneAssumption DEF MaxParsed
<1>2. \A k \in Backlog : BuildPlan(i, seen).sysctls[k] = MaxParsed(seen[k])
  BY KeysAssumption DEF BuildPlan, Recommended
<1>3. \A k \in Backlog : MaxParsed(BuildPlan(i, seen).sysctls[k]) = MaxParsed(seen[k])
  BY <1>1, <1>2, KeysAssumption
<1>4. Recommended(i, BuildPlan(i, seen).sysctls) = Recommended(i, seen)
  BY <1>3 DEF Recommended
<1> QED
  BY <1>4 DEF BuildPlan

(* A plan never recommends less for a backlog than was seen.               *)
LEMMA PlanRaises ==
  ASSUME NEW i \in Inputs, NEW seen \in [Keys -> Vals \cup {None}], NEW k \in Backlog,
         seen[k] # None
  PROVE  BuildPlan(i, seen).sysctls[k] >= seen[k]
<1>1. k \in Keys /\ seen[k] \in Nat /\ Floor \in Nat
  BY KeysAssumption, ValsAssumption
<1>2. BuildPlan(i, seen).sysctls[k] = MaxParsed(seen[k])
  BY <1>1 DEF BuildPlan, Recommended
<1>3. MaxParsed(seen[k]) >= seen[k]
  BY <1>1 DEF MaxParsed
<1> QED
  BY <1>2, <1>3

(* What the locals of a command that has its plan hold.                    *)
LEMMA PlanInUse ==
  ASSUME KnownInv, NEW p \in Proc, pc[p] \in HasPlan
  PROVE  /\ mem[p] \in Mem /\ mem[p].plan \in Plans
         /\ mem[p].input \in Inputs
         /\ mem[p].seen \in [Keys -> Vals \cup {None}]
         /\ mem[p].plan = BuildPlan(mem[p].input, mem[p].seen)
<1>1. mem[p] \in Mem /\ LocalsOf(pc[p], mem[p]) /\ CommandOf(pc[p], mem[p])
  BY DEF KnownInv, TypeInv, ControlInv, CommandInv
<1>2. mem[p].plan \in Plans /\ mem[p].plan = BuildPlan(mem[p].input, mem[p].seen)
  BY <1>1 DEF LocalsOf, CommandOf, Planned
<1>3. mem[p].plan.input = mem[p].input
  BY <1>2 DEF BuildPlan
<1> QED
  BY <1>1, <1>2, <1>3 DEF Plans, Mem

(* NeedsApply finds nothing to change only when there is nothing.          *)
LEMMA NoDriftSettled ==
  ASSUME KnownInv, NEW p \in Proc, pc[p] = "needsApply", Fresh(p), ~Drift(p)
  PROVE  Settled(p)
<1>1. /\ mem[p].plan \in Plans /\ mem[p].input \in Inputs
      /\ mem[p].seen \in [Keys -> Vals \cup {None}]
      /\ mem[p].plan = BuildPlan(mem[p].input, mem[p].seen)
  BY PlanInUse DEF HasPlan
<1>2. /\ \A k \in Keys : mem[p].seen[k] = mem[p].plan.sysctls[k]
      /\ file = Target(mem[p].plan).files
  BY DEF Drift
<1>3. live \in [Keys -> Vals] /\ mem[p].plan.sysctls \in [Keys -> Vals]
  BY <1>1 DEF KnownInv, TypeInv, DataType, Plans
<1>4. \A k \in Keys : live[k] = mem[p].plan.sysctls[k]
  BY <1>2, <1>3, NoneAssumption DEF Fresh
<1>5. live = mem[p].plan.sysctls
  BY <1>3, <1>4
<1>6. Host = Target(mem[p].plan)
  BY <1>2, <1>5 DEF Host, Target
<1>7. mem[p].plan.input = mem[p].input
  BY <1>1 DEF BuildPlan
<1>8. BuildPlan(mem[p].input, mem[p].plan.sysctls) = mem[p].plan
  BY <1>1, PlanAgain
<1> QED
  BY <1>6, <1>7, <1>8 DEF Settled

(* SeenInv depends on the call, the task and the host.                     *)
LEMMA SeenKept ==
  ASSUME NEW p \in Proc, SeenInv(p), UNCHANGED <<live, file>>, pc'[p] = pc[p],
         mem'[p] = mem[p]
  PROVE  SeenInv(p)'
BY DEF SeenInv, Fresh, Loading, Drift, Settled, Host

(* A process that holds no plan any more, or is through with it.           *)
LEMMA SeenOver ==
  ASSUME NEW p \in Proc, pc'[p] \in {"idle", "readSnapshot", "verify"} \cup Restore
  PROVE  SeenInv(p)'
BY DEF SeenInv, Early, Unlocked, Prepare, Restore

(* The steps of Detect, of the comparison and of Verify.                   *)
LEMMA SeenUnlocked ==
  ASSUME KnownInv, NEW p \in Proc, SeenInv(p),
         DetectKey(p) \/ MakePlan(p) \/ NeedsApply(p) \/ VerifyHost(p) \/ AcquireLock(p)
  PROVE  SeenInv(p)'
<1> USE DEF KnownInv, TypeInv
<1> USE Arrives
<1>m. mem[p] \in Mem /\ CommandOf(pc[p], mem[p]) /\ UNCHANGED <<live, file>>
  BY DEF ControlInv, CommandInv, DetectKey, MakePlan, NeedsApply, VerifyHost, AcquireLock
<1>i. \A r : Return(p, r) => SeenInv(p)'
  BY SeenOver
<1>1. CASE DetectKey(p)
  <2>1. PICK k \in mem[p].todo :
          /\ pc'[p] = pc[p]
          /\ mem'[p] \in {Did(p, k), [Did(p, k) EXCEPT !.seen[k] = live[k]]}
    BY <1>1 DEF DetectKey
  <2>2. /\ mem'[p].op = mem[p].op /\ mem'[p].plan = mem[p].plan
        /\ \A j \in Keys : mem'[p].seen[j] \in {mem[p].seen[j], live[j]}
    <3> DEFINE m == [Did(p, k) EXCEPT !.seen[k] = live[k]]
    <3>1. /\ Did(p, k).op = mem[p].op /\ Did(p, k).plan = mem[p].plan
          /\ Did(p, k).seen = mem[p].seen
      BY <1>m DEF Did, Mem
    <3>2. m.op = mem[p].op /\ m.plan = mem[p].plan /\ m.seen = [mem[p].seen EXCEPT ![k] = live[k]]
      BY <1>m DEF Did, Mem
    <3>3. mem[p].seen \in [Keys -> Vals \cup {None}]
      BY <1>m DEF Mem
    <3>4. \A j \in Keys : m.seen[j] \in {mem[p].seen[j], live[j]}
      BY <3>2, <3>3
    <3>5. mem'[p] = Did(p, k) \/ mem'[p] = m
      BY <2>1
    <3> HIDE DEF m
    <3> QED
      BY <3>1, <3>2, <3>4, <3>5
  <2>3. pc[p] \in {"detect", "observe"} /\ Fresh(p)
    BY <1>1 DEF DetectKey, SeenInv, Early, Unlocked
  <2>4. Fresh(p)'
    BY <1>m, <2>2, <2>3 DEF Fresh
  <2>5. pc[p] = "observe" /\ mem'[p].op = "reconcile" => Settled(p)'
    BY <1>m, <2>2 DEF SeenInv, Settled, Host
  <2> QED
    BY <2>1, <2>3, <2>4, <2>5 DEF SeenInv, Prepare
<1>2. CASE MakePlan(p)
  <2>1. CASE \E r : Return(p, r)
    BY <1>i, <2>1
  <2>2. CASE ~\E r : Return(p, r)
    <3>1. /\ pc'[p] = (IF mem[p].op = "apply" THEN "acquire" ELSE "needsApply")
          /\ mem'[p] = [mem[p] EXCEPT !.plan = BuildPlan(mem[p].input, mem[p].seen)]
      BY <1>2, <2>2 DEF MakePlan
    <3>2. mem'[p].op = mem[p].op /\ mem'[p].seen = mem[p].seen
      BY <1>m, <3>1 DEF Mem
    <3>3. Fresh(p)
      BY <1>2 DEF MakePlan, SeenInv, Early, Unlocked
    <3>4. Fresh(p)'
      BY <1>m, <3>2, <3>3 DEF Fresh
    <3> QED
      BY <3>1, <3>2, <3>4 DEF SeenInv, Prepare
  <2> QED
    BY <2>1, <2>2
<1>3. CASE NeedsApply(p)
  <2>1. pc[p] = "needsApply" /\ Fresh(p)
    BY <1>3 DEF NeedsApply, SeenInv, Early, Unlocked
  <2>2. CASE Drift(p) /\ Goto(p, "acquire", mem[p])
    <3>1. pc'[p] = "acquire" /\ mem'[p] = mem[p]
      BY <2>2
    <3> QED
      BY <1>m, <2>1, <2>2, <3>1 DEF SeenInv, Fresh, Drift
  <2>3. CASE ~Drift(p) /\ Goto(p, "observe", Unseen(p))
    <3>1. pc'[p] = "observe" /\ mem'[p] = Unseen(p)
      BY <2>3
    <3>2. mem'[p].plan = mem[p].plan /\ mem'[p].seen = [k \in Keys |-> None]
      BY <1>m, <3>1 DEF Unseen, Loop, Mem, Blank
    <3>3. Settled(p)
      BY <2>1, <2>3, NoDriftSettled
    <3>4. Fresh(p)'
      BY <3>2 DEF Fresh
    <3> QED
      BY <1>m, <3>1, <3>2, <3>3, <3>4 DEF SeenInv, Settled, Host, Prepare
  <2> QED
    BY <1>3, <1>i, <2>2, <2>3 DEF NeedsApply
<1>4. CASE VerifyHost(p)
  <2>1. \E r : Return(p, r)
    BY <1>4, VerifyHostEnds
  <2> QED
    BY <1>i, <2>1
<1>5. CASE AcquireLock(p)
  <2>1. CASE Return(p, "refused")
    BY <1>i, <2>1
  <2>2. CASE ~Return(p, "refused")
    <3>1. /\ pc[p] = "acquire" /\ mem' = mem
          /\ pc'[p] = (IF mem[p].op = "rollback" THEN "readSnapshot" ELSE "modprobe")
      BY <1>5, <2>2 DEF AcquireLock, ControlInv
    <3> QED
      BY <1>m, <3>1, SeenOver DEF SeenInv, Early, Unlocked, Prepare, Fresh, Drift
  <2> QED
    BY <2>1, <2>2
<1> QED
  BY <1>1, <1>2, <1>3, <1>4, <1>5

(* The steps under the lock.                                               *)
LEMMA SeenLocked ==
  ASSUME KnownInv, NEW p \in Proc, SeenInv(p), Step(p), pc[p] \in Locked
  PROVE  SeenInv(p)'
<1> USE DEF KnownInv, TypeInv
<1> USE Arrives
<1>m. mem[p] \in Mem
  BY DEF ControlInv
<1>i. \A r : Return(p, r) => SeenInv(p)'
  BY SeenOver
<1>s. \A m : StartRestore(p, m) => SeenInv(p)'
  BY SeenOver DEF Restore
<1>l. Loop(p).plan = mem[p].plan /\ Loop(p).seen = mem[p].seen
  BY <1>m DEF Loop, Mem
<1>d. \A k : /\ Did(p, k).plan = mem[p].plan /\ Did(p, k).seen = mem[p].seen
             /\ Erred(Did(p, k)).plan = mem[p].plan /\ Erred(Did(p, k)).seen = mem[p].seen
  BY <1>m DEF Did, Erred, Mem
<1>1. CASE LoadModule(p) \/ Capture(p) \/ WriteSnapshot(p) \/ WriteLatest(p)
  <2>1. CASE \E r : Return(p, r)
    BY <1>i, <2>1
  <2>2. CASE ~\E r : Return(p, r)
    <3>1. /\ pc[p] \in Prepare /\ UNCHANGED <<live, file>>
          /\ pc'[p] \in Prepare \cup {"writeSysctl"}
          /\ mem'[p] = mem[p] \/ \E t : mem'[p] = [mem[p] EXCEPT !.snap = t]
      BY <1>1, <2>2 DEF LoadModule, Capture, WriteSnapshot, WriteLatest, Prepare
    <3>2. /\ mem'[p].op = mem[p].op /\ mem'[p].seen = mem[p].seen
          /\ mem'[p].plan = mem[p].plan
      BY <1>m, <3>1 DEF Mem
    <3>3. Fresh(p) /\ (mem[p].op = "reconcile" => Drift(p))
      BY <3>1 DEF SeenInv, Early
    <3>4. Fresh(p)' /\ (mem'[p].op = "reconcile" => Drift(p)')
      BY <3>1, <3>2, <3>3 DEF Fresh, Drift
    <3> QED
      BY <3>1, <3>4 DEF SeenInv, Prepare
  <2> QED
    BY <2>1, <2>2
<1>2. CASE WriteSysctlFile(p)
  <2>1. CASE StartRestore(p, mem[p])
    BY <1>s, <2>1
  <2>2. CASE ~StartRestore(p, mem[p])
    <3>1. /\ pc[p] = "writeSysctl" /\ pc'[p] = "writeModules"
          /\ mem'[p] = mem[p] /\ live' = live
      BY <1>2, <2>2 DEF WriteSysctlFile
    <3> QED
      BY <3>1 DEF SeenInv, Early, Unlocked, Prepare, Fresh
  <2> QED
    BY <2>1, <2>2
<1>3. CASE WriteModulesFile(p)
  <2>1. CASE StartRestore(p, mem[p])
    BY <1>s, <2>1
  <2>2. CASE ~StartRestore(p, mem[p])
    <3>1. /\ pc[p] = "writeModules" /\ pc'[p] = "load"
          /\ mem'[p] = Loop(p) /\ live' = live
      BY <1>3, <2>2 DEF WriteModulesFile
    <3>2. Fresh(p)
      BY <3>1 DEF SeenInv, Early
    <3>3. Loading(p)'
      BY <1>l, <3>1, <3>2 DEF Fresh, Loading
    <3> QED
      BY <3>1, <3>3 DEF SeenInv, Early, Unlocked, Prepare
  <2> QED
    BY <2>1, <2>2
<1>4. CASE LoadKey(p)
  <2>1. PICK k \in Keys :
          /\ pc[p] = "load" /\ pc'[p] = "load"
          /\ mem'[p] \in {Did(p, k), Erred(Did(p, k))}
          /\ live' \in {live, [live EXCEPT ![k] = file["sysctl"].values[k]]}
    BY <1>4 DEF LoadKey
  <2>2. file["sysctl"].values = mem[p].plan.sysctls
    <3>1. file = Target(mem[p].plan).files
      BY <2>1 DEF HonestInv, AppliedInv
    <3>2. file["sysctl"] = RenderSysctl(mem[p].plan)
      BY <3>1 DEF Target, Files
    <3> QED
      BY <3>2 DEF RenderSysctl
  <2>3. Loading(p) /\ live \in [Keys -> Vals]
    BY <2>1 DEF SeenInv, DataType
  <2>4. mem'[p].plan = mem[p].plan /\ mem'[p].seen = mem[p].seen
    BY <1>d, <2>1
  <2>5. Loading(p)'
    BY <2>1, <2>2, <2>3, <2>4 DEF Loading
  <2> QED
    BY <2>1, <2>5 DEF SeenInv, Early, Unlocked, Prepare
<1>5. CASE LoadEnds(p)
  <2>1. pc'[p] = "verify" \/ StartRestore(p, mem[p])
    BY <1>5 DEF LoadEnds
  <2> QED
    BY <1>s, <2>1, SeenOver
<1>6. CASE Verify(p)
  BY <1>6, <1>i, <1>s DEF Verify
<1>7. CASE ReadSnapshot(p) \/ VerifyRestored(p)
  BY <1>7, <1>i, <1>s DEF ReadSnapshot, VerifyRestored
<1>8. CASE \/ RestoreFile(p, "restoreModules", "modules", "restoreSysctl")
           \/ RestoreFile(p, "restoreSysctl", "sysctl", "restoreKeys")
           \/ RestoreKey(p)
  <2>1. pc'[p] \in Restore
    BY <1>8 DEF RestoreFile, RestoreKey, Restore
  <2> QED
    BY <2>1, SeenOver
<1> QED
  BY <1>1, <1>2, <1>3, <1>4, <1>5, <1>6, <1>7, <1>8
  DEF Step, DetectKey, MakePlan, NeedsApply, VerifyHost, AcquireLock, Locked, Prepare,
      Modify, Restore

(* How a command starts.                                                   *)
Begins(p) ==
  \E call \in {"detect", "acquire", "observe"} : \E m \in Mem :
    /\ Start(p, call, m)
    /\ LocalsOf(call, m) /\ CommandOf(call, m)
    /\ m.seen = [k \in Keys |-> None]
    /\ call = "acquire" => m.op = "rollback"
    /\ call = "observe" => m.op = "verify"

LEMMA BeginsWith ==
  ASSUME NEW p \in Proc
  PROVE  /\ \A o \in {"apply", "reconcile"}, i \in Inputs :
              Start(p, "detect", [Blank EXCEPT !.op = o, !.input = i, !.todo = Keys])
                => Begins(p)
         /\ \A i \in Ids \cup {None} :
              Start(p, "acquire", [Blank EXCEPT !.op = "rollback", !.id = i]) => Begins(p)
         /\ Start(p, "observe", [Blank EXCEPT !.op = "verify", !.todo = Keys]) => Begins(p)
<1>1. ASSUME NEW o \in {"apply", "reconcile"}, NEW i \in Inputs,
             Start(p, "detect", [Blank EXCEPT !.op = o, !.input = i, !.todo = Keys])
      PROVE  Begins(p)
  <2> DEFINE m == [Blank EXCEPT !.op = o, !.input = i, !.todo = Keys]
  <2>1. m \in Mem /\ m.op = o /\ m.input = i /\ m.seen = [k \in Keys |-> None]
    BY BlankType DEF Blank, Mem, Ops
  <2> HIDE DEF m
  <2>2. LocalsOf("detect", m) /\ CommandOf("detect", m)
    BY <2>1 DEF LocalsOf, CommandOf, HasPlan, HasSnap, Prepare, Modify, Restore
  <2>3. Start(p, "detect", m)
    BY <1>1 DEF m
  <2> QED
    BY <2>1, <2>2, <2>3 DEF Begins
<1>2. ASSUME NEW i \in Ids \cup {None},
             Start(p, "acquire", [Blank EXCEPT !.op = "rollback", !.id = i])
      PROVE  Begins(p)
  <2> DEFINE m == [Blank EXCEPT !.op = "rollback", !.id = i]
  <2>1. m \in Mem /\ m.op = "rollback" /\ m.seen = [k \in Keys |-> None]
    BY BlankType DEF Blank, Mem, Ops
  <2> HIDE DEF m
  <2>2. LocalsOf("acquire", m) /\ CommandOf("acquire", m)
    BY <2>1 DEF LocalsOf, CommandOf, HasPlan, HasSnap, Prepare, Modify, Restore
  <2>3. Start(p, "acquire", m)
    BY <1>2 DEF m
  <2> QED
    BY <2>1, <2>2, <2>3 DEF Begins
<1>3. ASSUME Start(p, "observe", [Blank EXCEPT !.op = "verify", !.todo = Keys])
      PROVE  Begins(p)
  <2> DEFINE m == [Blank EXCEPT !.op = "verify", !.todo = Keys]
  <2>1. m \in Mem /\ m.op = "verify" /\ m.seen = [k \in Keys |-> None]
    BY BlankType DEF Blank, Mem, Ops
  <2> HIDE DEF m
  <2>2. LocalsOf("observe", m) /\ CommandOf("observe", m)
    BY <2>1 DEF LocalsOf, CommandOf, HasPlan, HasSnap, Prepare, Modify, Restore
  <2>3. Start(p, "observe", m)
    BY <1>3 DEF m
  <2> QED
    BY <2>1, <2>2, <2>3 DEF Begins
<1> QED
  BY <1>1, <1>2, <1>3

LEMMA SeenBegins ==
  ASSUME ControlInv, NEW p \in Proc, Begins(p)
  PROVE  SeenInv(p)'
<1>1. PICK call \in {"detect", "acquire", "observe"}, m \in Mem :
        /\ pc'[p] = call /\ mem'[p] = m
        /\ m.seen = [k \in Keys |-> None]
        /\ call = "acquire" => m.op = "rollback"
        /\ call = "observe" => m.op = "verify"
  BY DEF Begins, Start, ControlInv
<1>2. Fresh(p)'
  BY <1>1 DEF Fresh
<1> QED
  BY <1>1, <1>2 DEF SeenInv, Prepare

LEMMA SeenStep ==
  ASSUME KnownInv, NEW p \in Proc, SeenInv(p), Step(p)
  PROVE  SeenInv(p)'
<1>1. CASE pc[p] \in Locked
  BY <1>1, SeenLocked
<1>2. CASE pc[p] \notin Locked
  <2>1. DetectKey(p) \/ MakePlan(p) \/ NeedsApply(p) \/ VerifyHost(p) \/ AcquireLock(p)
    BY <1>2 DEF Step, Locked, Prepare, Modify, Restore, LoadModule, Capture,
       WriteSnapshot, WriteLatest, WriteSysctlFile, WriteModulesFile, LoadKey, LoadEnds,
       Verify, ReadSnapshot, RestoreFile, RestoreKey, VerifyRestored
  <2> QED
    BY <2>1, SeenUnlocked
<1> QED
  BY <1>1, <1>2

(* "unchanged" is the status of a reconcile that found no drift.           *)
LEMMA EndsUnchanged ==
  ASSUME TypeInv, [Next]_vars, NEW p \in Proc, Ends(p, "unchanged")
  PROVE  pc[p] = "observe" /\ mem[p].op = "reconcile" /\ UNCHANGED <<live, file>>
<1>1. /\ Step(p)
      /\ \A s : Return(p, s) => s = "unchanged"
      /\ \A call, m : ~Goto(p, call, m)
  BY EndsReturning DEF Results
<1>2. ~AcquireLock(p)
  <2>1. ASSUME AcquireLock(p) PROVE result' = result \/ Return(p, "refused")
    BY <2>1 DEF AcquireLock
  <2> QED
    BY <1>1, <2>1 DEF Ends
<1>3. CASE VerifyHost(p)
  BY <1>1, <1>3 DEF VerifyHost, Verdict
<1>4. ~VerifyRestored(p)
  BY <1>1 DEF VerifyRestored
<1>5. ~Verify(p)
  BY <1>1 DEF Verify, StartRestore
<1> QED
  BY <1>1, <1>2, <1>3, <1>4, <1>5
  DEF Step, DetectKey, MakePlan, NeedsApply, LoadModule, Capture,
      WriteSnapshot, WriteLatest, WriteSysctlFile, WriteModulesFile, LoadKey, LoadEnds,
      ReadSnapshot, RestoreFile, RestoreKey, StartRestore

(* After an Apply that ended well, also one of many invocations and after  *)
(* other changes, the plan it applied is the plan for the host it left.    *)
LEMMA AppliedAgain ==
  ASSUME KnownInv, [Next]_vars, NEW p \in Proc, Ends(p, "applied")
  PROVE  Host' = Target(BuildPlan(mem[p].plan.input, live'))
<1> USE DEF KnownInv, TypeInv
<1>1. /\ pc[p] = "verify" /\ VerifyMaps(live, mem[p].plan.sysctls)
      /\ UNCHANGED <<live, file>>
  BY EndsApplied
<1>2. /\ mem[p].plan \in Plans /\ mem[p].input \in Inputs
      /\ mem[p].seen \in [Keys -> Vals \cup {None}]
      /\ mem[p].plan = BuildPlan(mem[p].input, mem[p].seen)
  BY <1>1, PlanInUse DEF HasPlan, Modify
<1>3. live = mem[p].plan.sysctls
  BY <1>1, <1>2, VerifiedEqual DEF DataType, Plans
<1>4. file = Target(mem[p].plan).files
  BY <1>1 DEF HonestInv, AppliedInv
<1>5. Host' = Target(mem[p].plan)
  BY <1>1, <1>3, <1>4 DEF Host, Target
<1>6. mem[p].plan.input = mem[p].input
  BY <1>2 DEF BuildPlan
<1>7. BuildPlan(mem[p].input, mem[p].plan.sysctls) = mem[p].plan
  BY <1>2, PlanAgain
<1> QED
  BY <1>1, <1>3, <1>5, <1>6, <1>7
=============================================================================
