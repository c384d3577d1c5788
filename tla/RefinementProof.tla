--------------------------- MODULE RefinementProof ---------------------------
(***************************************************************************)
(* Manager implements HostContract, for any number of invocations, keys,   *)
(* inputs and faults, if nobody changes the host behind the lock.          *)
(*                                                                         *)
(* Two invariants are added to those of Manager: base is the host from     *)
(* before the lock was taken (BaseInv), and under the lock each sysctl and *)
(* file is as in base or as the command intends (WorkInv).  Each step of   *)
(* Manager is then a step of the contract, or a stutter of it.             *)
(***************************************************************************)
EXTENDS ManagerRefinement, RecoveryProof

-----------------------------------------------------------------------------
(* The host under the lock.                                                *)

BaseInv == IF lock = Free THEN base = None ELSE base \in HostStates

(* The snapshot a rollback takes.                                          *)
Chosen(p) == IF mem[p].id = None THEN latest ELSE mem[p].id

(* Each sysctl and each file is as in base or as in g.                     *)
Halfway(g) == Contract!Between(Host, g, base)

(* While Apply modifies the host, and while it restores it.                *)
ApplyWork(p) ==
  /\ Saved(mem[p].snap) = base
  /\ latest # None /\ snaps[latest] = mem[p].snap
  /\ Halfway(Target(mem[p].plan))

RollbackWork(p) ==
  /\ Chosen(p) # None /\ snaps[Chosen(p)] = mem[p].snap
  /\ Halfway(Saved(mem[p].snap))

Work(p) ==
  /\ pc[p] \in Prepare \cup {"writeSysctl", "readSnapshot"} => Host = base
  /\ pc[p] \in (Modify \ {"writeSysctl"}) \cup Restore /\ mem[p].op # "rollback"
       => ApplyWork(p)
  /\ pc[p] \in Restore /\ mem[p].op = "rollback" => RollbackWork(p)

WorkInv == \A p \in Proc : Work(p)

LEMMA BaseInit == RInit => BaseInv
BY ProcAssumption DEF RInit, Init, BaseInv

LEMMA BaseNext ==
  DataType /\ BaseInv /\ [RNext]_<<vars, base>> => BaseInv'
BY HostType DEF BaseInv, RNext, vars

(* base is kept while the lock is held, and is the host when it is taken.  *)
LEMMA BaseSteps ==
  ASSUME [RNext]_<<vars, base>>
  PROVE  /\ lock # Free /\ lock' = lock => base' = base
         /\ lock = Free /\ lock' # Free => base' = Host
BY DEF RNext, vars

(* Assigning one sysctl, or writing one file, from either side of a        *)
(* Halfway host leaves it Halfway.                                         *)
LEMMA HalfwayStart ==
  ASSUME NEW g, Host = base
  PROVE  Halfway(g)
BY DEF Halfway, Contract!Between

LEMMA HalfwayKey ==
  ASSUME NEW g, Halfway(g), NEW k \in Keys, DataType, base' = base, UNCHANGED file,
         NEW v \in {g.sysctls[k], base.sysctls[k]}, live' = [live EXCEPT ![k] = v]
  PROVE  Contract!Between(Host', g, base')
BY DEF Halfway, Contract!Between, Host, DataType, Contract!Files

LEMMA HalfwayFile ==
  ASSUME NEW g, Halfway(g), NEW f \in Files, DataType, base' = base, UNCHANGED live,
         NEW c \in {g.files[f], base.files[f]}, file' = [file EXCEPT ![f] = c]
  PROVE  Contract!Between(Host', g, base')
BY DEF Halfway, Contract!Between, Host, DataType, Contract!Files, Files

(* The snapshot, the plan and the command stay the same.                   *)
SameWork(p) == SameTask(mem[p], mem'[p]) /\ mem'[p].snap = mem[p].snap

LEMMA WorkKept ==
  ASSUME ControlInv, NEW p \in Proc, NEW call, NEW m,
         m \in {mem[p], Loop(p), Erred(Loop(p)), [mem[p] EXCEPT !.todo = {}, !.failed = FALSE]}
           \/ \E k : m = Did(p, k) \/ m = Erred(Did(p, k)),
         Goto(p, call, m)
  PROVE  pc'[p] = call /\ SameWork(p)
<1>1. mem'[p] = m /\ pc'[p] = call /\ mem[p] \in Mem
  BY DEF ControlInv, Goto
<1>2. SameTask(mem[p], m)
  <2>1. /\ SameTask(mem[p], mem[p])
        /\ SameTask(mem[p], Loop(p)) /\ SameTask(mem[p], Erred(Loop(p)))
        /\ SameTask(mem[p], [mem[p] EXCEPT !.todo = {}, !.failed = FALSE])
        /\ \A k : SameTask(mem[p], Did(p, k)) /\ SameTask(mem[p], Erred(Did(p, k)))
    BY <1>1, TaskKept, Zenon DEF Loop, Did
  <2> QED
    BY <2>1
<1>3. m.snap = mem[p].snap
  BY <1>1 DEF Mem, Loop, Did, Erred
<1> QED
  BY <1>1, <1>2, <1>3 DEF SameWork

LEMMA ApplyWorkKept ==
  ASSUME NEW p \in Proc, ApplyWork(p), SameWork(p), UNCHANGED <<snaps, latest, base>>,
         UNCHANGED <<live, file>> \/ Halfway(Target(mem[p].plan))'
  PROVE  ApplyWork(p)'
BY DEF ApplyWork, SameWork, SameTask, Halfway, Host

LEMMA RollbackWorkKept ==
  ASSUME NEW p \in Proc, RollbackWork(p), SameWork(p), UNCHANGED <<snaps, latest, base>>,
         UNCHANGED <<live, file>> \/ Halfway(Saved(mem[p].snap))'
  PROVE  RollbackWork(p)'
BY DEF RollbackWork, SameWork, SameTask, SameRequest, Halfway, Host, Chosen

(* Apply's own steps.                                                      *)
LEMMA ApplyWorkStep ==
  ASSUME TypeInv, SnapshotInv, RecoverInv, HonestInv, CommandInv, NEW p \in Proc, Work(p),
         base' = base, pc'[p] # "idle",
         \/ WriteSysctlFile(p) \/ WriteModulesFile(p)
         \/ LoadKey(p) \/ LoadEnds(p) \/ Verify(p)
  PROVE  Work(p)'
<1> DEFINE g == Target(mem[p].plan)
           Restarts == StartRestore(p, mem[p]) /\ UNCHANGED <<live, file>>
<1>t. TypeInv => ControlInv /\ DataType
  BY DEF TypeInv
<1>m. mem[p] \in Mem /\ LocalsOf(pc[p], mem[p]) /\ CommandOf(pc[p], mem[p])
  BY DEF TypeInv, ControlInv, CommandInv
<1>p. pc[p] \in Modify /\ UNCHANGED <<snaps, latest>>
  BY DEF WriteSysctlFile, WriteModulesFile, LoadKey, LoadEnds, Verify, Modify
<1>o. mem[p].op # "rollback" /\ mem[p].plan \in Plans
  BY <1>m, <1>p DEF LocalsOf, HasPlan
<1>d. ASSUME ApplyWork(p)', SameWork(p), pc'[p] \in (Modify \ {"writeSysctl"}) \cup Restore
      PROVE  Work(p)'
  BY <1>d, <1>o DEF Work, SameWork, SameTask, SameRequest, Prepare, Modify, Restore
<1>r. ASSUME StartRestore(p, mem[p])
      PROVE  pc'[p] = "restoreModules" /\ SameWork(p)
  BY <1>t, <1>r, WorkKept DEF StartRestore
<1>w. ASSUME pc[p] = "writeSysctl"
      PROVE  ApplyWork(p)
  <2>1. Host = base /\ Saved(mem[p].snap) = base
    BY <1>w DEF Work, RecoverInv, Saving
  <2>2. latest = mem[p].snap.id /\ snaps[latest] = mem[p].snap
    BY <1>w DEF RecoverInv, SnapshotInv
  <2>3. latest # None
    BY <1>w, <1>m, <2>2, NoneAssumption DEF LocalsOf, HasSnap, Modify, Snapshots
  <2> QED
    BY <2>1, <2>2, <2>3, HalfwayStart DEF ApplyWork
<1>a. ApplyWork(p)
  BY <1>p, <1>w, <1>o DEF Work, Modify
<1>f. g.files["sysctl"] = RenderSysctl(mem[p].plan) /\ g.files["modules"] = ModulesLine
  BY DEF Target, Files
<1>h. Halfway(g)
  BY <1>a DEF ApplyWork
<1>1. CASE Restarts
  BY <1>1, <1>a, <1>d, <1>p, <1>r, ApplyWorkKept DEF Restore
<1>2. CASE WriteSysctlFile(p) /\ ~Restarts
  <2>1. /\ file' = [file EXCEPT !["sysctl"] = RenderSysctl(mem[p].plan)]
        /\ Goto(p, "writeModules", mem[p]) /\ UNCHANGED live
    BY <1>2 DEF WriteSysctlFile
  <2>2. pc'[p] = "writeModules" /\ SameWork(p)
    BY <1>t, <2>1, WorkKept
  <2>3. Contract!Between(Host', g, base')
    BY <1>t, <1>f, <1>h, <2>1, HalfwayFile DEF Files
  <2>4. Halfway(g)'
    BY <2>2, <2>3 DEF Halfway, SameWork, SameTask
  <2> QED
    BY <1>a, <1>d, <1>p, <2>2, <2>4, ApplyWorkKept DEF Modify
<1>3. CASE WriteModulesFile(p) /\ ~Restarts
  <2>1. /\ file' = [file EXCEPT !["modules"] = ModulesLine]
        /\ Goto(p, "load", Loop(p)) /\ UNCHANGED live
    BY <1>3 DEF WriteModulesFile
  <2>2. pc'[p] = "load" /\ SameWork(p)
    BY <1>t, <2>1, WorkKept
  <2>3. Contract!Between(Host', g, base')
    BY <1>t, <1>f, <1>h, <2>1, HalfwayFile DEF Files
  <2>4. Halfway(g)'
    BY <2>2, <2>3 DEF Halfway, SameWork, SameTask
  <2> QED
    BY <1>a, <1>d, <1>p, <2>2, <2>4, ApplyWorkKept DEF Modify
<1>4. CASE LoadKey(p) /\ ~Restarts
  <2>1. PICK k \in Keys :
          /\ Goto(p, "load", Did(p, k)) \/ Goto(p, "load", Erred(Did(p, k)))
          /\ \/ live' = [live EXCEPT ![k] = file["sysctl"].values[k]]
             \/ UNCHANGED live
          /\ UNCHANGED file
    BY <1>4 DEF LoadKey
  <2>2. pc'[p] = "load" /\ SameWork(p)
    BY <1>t, <2>1, WorkKept
  <2>3. CASE live' = [live EXCEPT ![k] = file["sysctl"].values[k]]
    <3>1. file["sysctl"].values[k] = g.sysctls[k]
      BY <1>4, <1>f DEF LoadKey, HonestInv, AppliedInv, RenderSysctl, Target
    <3>2. Contract!Between(Host', g, base')
      BY <1>t, <1>h, <2>1, <2>3, <3>1, HalfwayKey
    <3>3. Halfway(g)'
      BY <2>2, <3>2 DEF Halfway, SameWork, SameTask
    <3> QED
      BY <1>a, <1>d, <1>p, <2>2, <3>3, ApplyWorkKept DEF Modify
  <2> QED
    BY <1>a, <1>d, <1>p, <2>1, <2>2, <2>3, ApplyWorkKept DEF Modify
<1>5. CASE LoadEnds(p) /\ ~Restarts
  <2>1. Goto(p, "verify", mem[p]) /\ UNCHANGED <<live, file>>
    BY <1>5 DEF LoadEnds
  <2>2. pc'[p] = "verify" /\ SameWork(p)
    BY <1>t, <2>1, WorkKept
  <2> QED
    BY <1>a, <1>d, <1>p, <2>1, <2>2, ApplyWorkKept DEF Modify
<1>6. CASE Verify(p) /\ ~Restarts
  BY <1>t, <1>6, Arrives DEF Verify
<1> QED
  BY <1>1, <1>2, <1>3, <1>4, <1>5, <1>6

(* The steps that put a snapshot back.                                     *)
LEMMA RestoreWorkStep ==
  ASSUME TypeInv, CommandInv, NEW p \in Proc, Work(p), base' = base, pc'[p] # "idle",
         \/ RestoreFile(p, "restoreModules", "modules", "restoreSysctl")
         \/ RestoreFile(p, "restoreSysctl", "sysctl", "restoreKeys")
         \/ RestoreKey(p) \/ VerifyRestored(p)
  PROVE  Work(p)'
<1> DEFINE g == IF mem[p].op = "rollback" THEN Saved(mem[p].snap) ELSE Target(mem[p].plan)
<1>t. TypeInv => ControlInv /\ DataType
  BY DEF TypeInv
<1>p. pc[p] \in Restore /\ UNCHANGED <<snaps, latest>>
  BY DEF RestoreFile, RestoreKey, VerifyRestored, Restore
<1>w. IF mem[p].op = "rollback" THEN RollbackWork(p) ELSE ApplyWork(p)
  BY <1>p DEF Work
<1>d. ASSUME pc'[p] \in Restore, SameWork(p), Halfway(g)' \/ UNCHANGED <<live, file>>
      PROVE  Work(p)'
  <2>1. CASE mem[p].op = "rollback"
    <3>1. RollbackWork(p)'
      BY <1>d, <1>p, <1>w, <2>1, RollbackWorkKept DEF SameWork, SameTask, SameRequest
    <3> QED
      BY <1>d, <2>1, <3>1 DEF Work, SameWork, SameTask, SameRequest, Prepare, Modify, Restore
  <2>2. CASE mem[p].op # "rollback"
    <3>1. ApplyWork(p)'
      BY <1>d, <1>p, <1>w, <2>2, ApplyWorkKept DEF SameWork, SameTask, SameRequest
    <3> QED
      BY <1>d, <2>2, <3>1 DEF Work, SameWork, SameTask, SameRequest, Prepare, Modify, Restore
  <2> QED
    BY <2>1, <2>2
<1>h. Halfway(g)
  BY <1>w DEF ApplyWork, RollbackWork
<1>v. /\ \A k : mem[p].snap.sysctls[k] \in {g.sysctls[k], base.sysctls[k]}
      /\ \A f : mem[p].snap.files[f] \in {g.files[f], base.files[f]}
  BY <1>w DEF ApplyWork, Saved
<1>s. ASSUME SameWork(p), Contract!Between(Host', g, base')
      PROVE  Halfway(g)'
  BY <1>s DEF Halfway, SameWork, SameTask, SameRequest
<1>1. ASSUME NEW here, NEW f \in Files, NEW there \in Restore, RestoreFile(p, here, f, there)
      PROVE  Work(p)'
  <2>1. Goto(p, there, Loop(p)) \/ Goto(p, there, Erred(Loop(p)))
    BY <1>1 DEF RestoreFile
  <2>2. pc'[p] = there /\ SameWork(p)
    BY <1>t, <2>1, WorkKept
  <2>3. CASE UNCHANGED file
    BY <1>1, <1>d, <2>2, <2>3 DEF RestoreFile
  <2>4. CASE file' = [file EXCEPT ![f] = mem[p].snap.files[f]]
    <3>1. UNCHANGED live
      BY <1>1 DEF RestoreFile
    <3>2. Contract!Between(Host', g, base')
      BY <1>t, <1>h, <1>v, <2>4, <3>1, HalfwayFile
    <3> QED
      BY <1>d, <1>s, <2>2, <3>2
  <2> QED
    BY <1>1, <2>3, <2>4 DEF RestoreFile, RestoredFile
<1>2. CASE RestoreKey(p)
  <2>1. PICK k \in Keys :
          /\ Goto(p, "restoreKeys", Did(p, k)) \/ Goto(p, "restoreKeys", Erred(Did(p, k)))
          /\ \/ live' = [live EXCEPT ![k] = mem[p].snap.sysctls[k]]
             \/ UNCHANGED live
          /\ UNCHANGED file
    BY <1>2 DEF RestoreKey
  <2>2. pc'[p] \in Restore /\ SameWork(p)
    BY <1>t, <2>1, WorkKept DEF Restore
  <2>3. CASE UNCHANGED live
    BY <1>d, <2>1, <2>2, <2>3
  <2>4. CASE live' = [live EXCEPT ![k] = mem[p].snap.sysctls[k]]
    <3>1. Contract!Between(Host', g, base')
      BY <1>t, <1>h, <1>v, <2>1, <2>4, HalfwayKey
    <3> QED
      BY <1>d, <1>s, <2>2, <3>1
  <2> QED
    BY <2>1, <2>3, <2>4
<1>3. ~VerifyRestored(p)
  BY <1>t, Arrives DEF VerifyRestored
<1> QED
  BY <1>1, <1>2, <1>3 DEF Files, Restore

(* Any step of a process that is under the lock afterwards.                *)
LEMMA WorkStep ==
  ASSUME TypeInv, MutualExclusion, MutualExclusion', SnapshotInv, RecoverInv, HonestInv,
         CommandInv, WorkInv, NEW p \in Proc, Step(p), pc'[p] \in Locked,
         [RNext]_<<vars, base>>
  PROVE  Work(p)'
<1> USE Arrives
<1>t. TypeInv => ControlInv /\ DataType
  BY DEF TypeInv
<1>w. Work(p)
  BY DEF WorkInv
<1>i. "idle" \notin Locked
  BY DEF Locked, Prepare, Modify, Restore
<1>b. pc[p] \in Locked => base' = base
  BY ProcAssumption, BaseSteps DEF MutualExclusion
<1>k. ASSUME pc[p] \in Prepare \cup {"readSnapshot"},
             pc'[p] \in Prepare \cup {"writeSysctl"}, UNCHANGED <<live, file>>
      PROVE  Work(p)'
  <2>1. Host' = base'
    BY <1>b, <1>k, <1>w DEF Work, Locked, Host
  <2> QED
    BY <1>k, <2>1 DEF Work, Prepare, Modify, Restore
<1>1. CASE DetectKey(p) \/ MakePlan(p) \/ NeedsApply(p) \/ VerifyHost(p)
  <2>1. \/ \E r : Return(p, r)
        \/ \E call \in Unlocked : \E m : Goto(p, call, m)
    BY <1>1 DEF DetectKey, MakePlan, NeedsApply, VerifyHost, Unlocked
  <2> QED
    BY <1>i, <1>t, <2>1 DEF Unlocked, Locked, Prepare, Modify, Restore
<1>2. CASE AcquireLock(p)
  <2>1. TakesLock(p)
    BY <1>i, <1>t, <1>2 DEF AcquireLock, LockIsFree, TakesLock
  <2>2. pc'[p] \in {"readSnapshot", "modprobe"}
    BY <1>t, <2>1 DEF TakesLock, ControlInv
  <2>3. base' = Host /\ Host' = Host
    BY <2>1, BaseSteps, ProcAssumption DEF TakesLock, Host
  <2> QED
    BY <2>2, <2>3 DEF Work, Prepare, Modify, Restore
<1>3. CASE LoadModule(p) \/ Capture(p) \/ WriteSnapshot(p) \/ WriteLatest(p)
  <2>1. pc[p] \in Prepare /\ UNCHANGED <<live, file>>
    BY <1>3 DEF LoadModule, Capture, WriteSnapshot, WriteLatest, Prepare
  <2>2. \/ \E call \in Prepare \cup {"writeSysctl"} : \E m : Goto(p, call, m)
        \/ Return(p, "refused")
    BY <1>3 DEF LoadModule, Capture, WriteSnapshot, WriteLatest, Prepare
  <2> QED
    BY <1>i, <1>k, <1>t, <2>1, <2>2
<1>4. CASE \/ WriteSysctlFile(p) \/ WriteModulesFile(p)
           \/ LoadKey(p) \/ LoadEnds(p) \/ Verify(p)
  <2>1. pc[p] \in Locked
    BY <1>4 DEF WriteSysctlFile, WriteModulesFile, LoadKey, LoadEnds, Verify, Locked, Modify
  <2> QED
    BY <1>4, <1>b, <1>i, <1>w, <2>1, ApplyWorkStep
<1>5. CASE ReadSnapshot(p)
  <2> DEFINE i == Chosen(p)
             m == [mem[p] EXCEPT !.snap = snaps[i]]
  <2>1. i # None /\ snaps[i] # None /\ StartRestore(p, m) /\ UNCHANGED <<live, file, snaps, latest>>
    BY <1>5, <1>i, <1>t DEF ReadSnapshot, Chosen
  <2>2. pc[p] = "readSnapshot" /\ mem[p].op = "rollback" /\ mem[p] \in Mem
    BY <1>5, <1>t DEF ReadSnapshot, CommandInv, CommandOf, ControlInv
  <2>3. mem'[p] = [m EXCEPT !.todo = {}, !.failed = FALSE]
    BY <1>t, <2>1 DEF StartRestore, Goto, ControlInv
  <2>4. SameTask(mem[p], mem'[p]) /\ mem'[p].snap = snaps[i]
    BY <2>2, <2>3 DEF SameTask, SameRequest, Mem
  <2>5. Host' = base' /\ base' = base
    BY <1>b, <1>w, <2>1, <2>2 DEF Work, Locked, Host
  <2>6. RollbackWork(p)'
    <3>1. Chosen(p)' = i
      BY <2>1, <2>4 DEF Chosen, SameTask, SameRequest
    <3>2. (Halfway(Saved(mem[p].snap)))'
      BY <2>5 DEF Halfway, Contract!Between
    <3> QED
      BY <2>1, <2>4, <3>1, <3>2 DEF RollbackWork
  <2>7. pc'[p] = "restoreModules" /\ mem'[p].op = "rollback"
    BY <1>t, <2>1, <2>2, <2>4 DEF SameTask, SameRequest
  <2> QED
    BY <2>6, <2>7 DEF Work, Prepare, Modify, Restore
<1>6. CASE \/ RestoreFile(p, "restoreModules", "modules", "restoreSysctl")
           \/ RestoreFile(p, "restoreSysctl", "sysctl", "restoreKeys")
           \/ RestoreKey(p) \/ VerifyRestored(p)
  <2>1. pc[p] \in Locked
    BY <1>6 DEF RestoreFile, RestoreKey, VerifyRestored, Locked, Restore
  <2> QED
    BY <1>6, <1>b, <1>i, <1>w, <2>1, RestoreWorkStep
<1> QED
  BY <1>1, <1>2, <1>3, <1>4, <1>5, <1>6 DEF Step

LEMMA WorkInit == RInit => WorkInv
BY DEF RInit, Init, WorkInv, Work, Prepare, Modify, Restore

LEMMA WorkNext ==
  ASSUME "interfere" \notin Faults
  PROVE  TypeInv /\ MutualExclusion /\ MutualExclusion' /\ SnapshotInv /\ RecoverInv
           /\ HonestInv /\ CommandInv /\ WorkInv /\ [RNext]_<<vars, base>>
           => WorkInv'
<1> SUFFICES ASSUME TypeInv, MutualExclusion, MutualExclusion', SnapshotInv, RecoverInv,
                    HonestInv, CommandInv, WorkInv, [RNext]_<<vars, base>>, NEW p \in Proc
             PROVE  Work(p)'
  BY DEF WorkInv
<1>1. CASE pc'[p] \notin Locked
  BY <1>1 DEF Work, Locked, Prepare, Modify, Restore
<1>2. CASE pc'[p] \in Locked /\ Step(p)
  BY <1>2, WorkStep
<1>3. CASE pc'[p] \in Locked /\ Undisturbed(p)
  <2>1. base' = base
    BY <1>3, ProcAssumption, BaseSteps DEF MutualExclusion, Undisturbed
  <2>2. UNCHANGED <<live, file, snaps, latest>> /\ pc'[p] = pc[p] /\ mem'[p] = mem[p]
    BY <1>3 DEF Undisturbed
  <2>3. Host' = Host /\ Chosen(p)' = Chosen(p) /\ Work(p)
    BY <2>2 DEF Host, Chosen, WorkInv
  <2> QED
    BY <2>1, <2>2, <2>3 DEF Work, ApplyWork, RollbackWork, Halfway
<1>4. [Next]_vars
  BY DEF RNext, vars
<1> QED
  BY <1>1, <1>2, <1>3, <1>4, Isolation DEF TypeInv

-----------------------------------------------------------------------------
(* The steps of the contract.                                              *)

IInv ==
  /\ TypeInv /\ MutualExclusion /\ SnapshotInv /\ RecoverInv /\ HonestInv
  /\ CommandInv /\ BaseInv /\ WorkInv

(* The contract speaks of the same hosts and plans.                        *)
LEMMA SameData ==
  /\ Contract!HostStates = HostStates
  /\ Contract!Rendered = Rendered
  /\ Contract!FileVals = FileVals
  /\ Contract!Files = Files
  /\ \A plan : Contract!Target(plan) = Target(plan)
  /\ \A i, seen : Contract!BuildPlan(i, seen) = BuildPlan(i, seen)
BY DEF Contract!HostStates, HostStates, Contract!Rendered, Rendered, Contract!FileVals,
       FileVals, Contract!Files, Files, Contract!Target, Target, Contract!RenderSysctl,
       RenderSysctl, Contract!BuildPlan, BuildPlan, Contract!Recommended, Recommended,
       Contract!MaxParsed, MaxParsed

(* What is visible of the host.                                            *)
LEMMA VisibleHost ==
  ASSUME BaseInv
  PROVE  Visible = IF lock = Free THEN Host ELSE base
BY FilesAssumption DEF BaseInv, Visible

LEMMA VisibleSteps ==
  ASSUME BaseInv, BaseInv', [RNext]_<<vars, base>>
  PROVE  /\ lock # Free /\ lock' = lock => UNCHANGED Visible
         /\ lock' = lock /\ UNCHANGED Host => UNCHANGED Visible
         /\ lock = Free /\ lock' # Free => Visible' = Visible
         /\ lock' = Free => Visible' = Host'
<1>1. Visible = IF lock = Free THEN Host ELSE base
  BY VisibleHost
<1>2. Visible' = IF lock' = Free THEN Host' ELSE base'
  BY FilesAssumption DEF BaseInv, Visible
<1> QED
  BY <1>1, <1>2, BaseSteps

LEMMA AskedOf ==
  ASSUME ControlInv, NEW p \in Proc, result[p] = "running"
  PROVE  /\ Asked[p] # None
         /\ Asked[p].op = mem[p].op
         /\ Asked[p].input = mem[p].input
         /\ Asked[p].id = mem[p].id
<1>1. Asked[p] = [op |-> mem[p].op, input |-> mem[p].input, id |-> mem[p].id]
  BY DEF Asked
<1>2. mem[p] \in Mem
  BY DEF ControlInv
<1>3. Asked[p] \in Contract!Requests
  BY <1>1, <1>2 DEF Mem, Ops, Contract!Requests
<1> QED
  BY <1>1, <1>3, RequestsAssumption

(* The faults are counted.                                                 *)
LEMMA FaultCounted ==
  ASSUME DataType, NEW kind, Fault(kind)
  PROVE  faults' > faults /\ faults' >= faults
BY FaultsAssumption DEF DataType, Fault

LEMMA StepFaults ==
  ASSUME DataType, NEW p \in Proc, Step(p)
  PROVE  /\ faults' >= faults
         /\ faults' = faults \/ faults' > faults
<1>1. NoFault \/ \E kind : Fault(kind)
  BY DEF Step, DetectKey, MakePlan, NeedsApply, VerifyHost, AcquireLock, LoadModule, Capture,
         WriteSnapshot, WriteLatest, WriteSysctlFile, WriteModulesFile, LoadKey, LoadEnds,
         Verify, ReadSnapshot, RestoreFile, RestoreKey, VerifyRestored, CmdOk, CmdFails,
         WriteFails
<1>2. faults >= faults
  BY DEF DataType
<1> QED
  BY <1>1, <1>2, FaultCounted DEF NoFault

(* A step that shows nothing of itself is a stutter, or a disturbance that *)
(* leaves the host as it is.                                               *)
Quiet == UNCHANGED <<Visible, Archive, latest, Asked, result>>

LEMMA QuietStep ==
  ASSUME Quiet, faults' = faults \/ faults' > faults
  PROVE  [Contract!Next]_(Contract!vars)
BY DEF Quiet, Contract!Next, Contract!Disturb, Contract!vars

LEMMA ArchiveKept ==
  ASSUME UNCHANGED snaps
  PROVE  UNCHANGED Archive
BY DEF Archive

(* A command that goes on still is asked the same.                         *)
LEMMA AskedKept ==
  ASSUME ControlInv, NEW p \in Proc, GoesOn(p) \/ TakesLock(p)
  PROVE  UNCHANGED <<Asked, result>>
<1>1. CASE GoesOn(p)
  <2>1. PICK call \in Calls \ {"idle"} : \E m : Goto(p, call, m) /\ SameRequest(mem[p], m)
    BY <1>1 DEF GoesOn
  <2>2. PICK m : Goto(p, call, m) /\ SameRequest(mem[p], m)
    BY <2>1
  <2>3. \A q \in Proc : SameRequest(mem[q], mem'[q])
    BY <2>2 DEF Goto, ControlInv, SameRequest
  <2> QED
    BY <2>2, <2>3 DEF Goto, SameRequest, Asked
<1>2. CASE TakesLock(p)
  BY <1>2 DEF TakesLock, Asked
<1> QED
  BY <1>1, <1>2

(* A command that returns answers.                                         *)
LEMMA ReturnAnswers ==
  ASSUME ControlInv, NEW p \in Proc, NEW r, r # "running", Return(p, r),
         result[p] = "running", UNCHANGED <<snaps, latest>>
  PROVE  Contract!Answers(p, r)
<1>1. Asked[p] # None
  BY AskedOf
<1>2. Asked' = [Asked EXCEPT ![p] = None]
  BY DEF Asked, Return, ControlInv
<1> QED
  BY <1>1, <1>2, ArchiveKept DEF Contract!Answers, Return

(* Where a command may take the host.                                      *)
LEMMA ApplyGoal ==
  ASSUME ControlInv, NEW p \in Proc, result[p] = "running",
         mem[p].op \in {"apply", "reconcile"}, Planned(mem[p])
  PROVE  Contract!Applies(p) /\ Target(mem[p].plan) \in Contract!Goals(p)
<1>1. Contract!Applies(p)
  BY AskedOf DEF Contract!Applies
<1>2. mem[p].plan = BuildPlan(Asked[p].input, mem[p].seen)
  BY AskedOf DEF Planned
<1>3. mem[p].seen \in [Keys -> Vals \cup {None}]
  BY DEF ControlInv, Mem
<1> QED
  BY <1>1, <1>2, <1>3, SameData DEF Contract!Goals

LEMMA RollbackGoal ==
  ASSUME ControlInv, DataType, NEW p \in Proc, result[p] = "running",
         mem[p].op = "rollback", Chosen(p) # None, snaps[Chosen(p)] = mem[p].snap,
         mem[p].snap \in Snapshots
  PROVE  /\ Contract!CanUndo(p)
         /\ Saved(mem[p].snap) \in Contract!Goals(p)
<1> DEFINE i == IF Asked[p].id = None THEN latest ELSE Asked[p].id
<1>1. /\ Asked[p].op = "rollback" /\ Asked[p].id = mem[p].id
  BY AskedOf
<1>2. i = Chosen(p) /\ i # None
  BY <1>1 DEF Chosen
<1>3. i \in Ids
  BY <1>2 DEF Chosen, ControlInv, DataType, Mem
<1>4. Saved(mem[p].snap) \in HostStates
  BY DEF Saved, Snapshots, HostStates
<1>5. Archive[i] = Saved(mem[p].snap) /\ Archive[i] # None
  BY <1>2, <1>3, <1>4, FilesAssumption DEF Archive
<1>6. ~Contract!Applies(p)
  BY <1>1 DEF Contract!Applies
<1> QED
  BY <1>1, <1>2, <1>5, <1>6 DEF Contract!Goals, Contract!CanUndo

LEMMA ApplyUndo ==
  ASSUME ControlInv, DataType, BaseInv, NEW p \in Proc, lock = p, ApplyWork(p),
         mem[p].snap \in Snapshots
  PROVE  Contract!CanUndo(p)
<1>1. Visible = base
  BY VisibleHost, ProcAssumption
<1>2. latest \in Ids /\ snaps[latest] # None /\ Saved(snaps[latest]) = base
  BY NoneAssumption, FilesAssumption DEF ApplyWork, DataType
<1>3. Archive[latest] = base
  BY <1>2 DEF Archive
<1> QED
  BY <1>1, <1>2, <1>3, NoneAssumption DEF Contract!CanUndo

(* A process cut short under the lock leaves the host as it was, or        *)
(* halfway to its goal.                                                    *)
LEMMA CutShort ==
  ASSUME IInv, NEW p \in Proc, pc[p] \in Locked
  PROVE  /\ lock = p /\ Visible = base /\ result[p] = "running"
         /\ \/ Host = base
            \/ Contract!CanUndo(p) /\ \E g \in Contract!Goals(p) : Contract!Between(Host, g, base)
<1> USE DEF IInv
<1>1. lock = p /\ Visible = base /\ result[p] = "running"
  <2>1. lock = p /\ pc[p] # "idle"
    BY DEF MutualExclusion, Locked, Prepare, Modify, Restore
  <2> QED
    BY <2>1, VisibleHost, ProcAssumption DEF CommandInv
<1>2. ControlInv /\ DataType /\ LocalsOf(pc[p], mem[p]) /\ CommandOf(pc[p], mem[p]) /\ Work(p)
  BY DEF TypeInv, ControlInv, CommandInv, WorkInv
<1>3. CASE pc[p] \in Prepare \cup {"writeSysctl", "readSnapshot"}
  BY <1>1, <1>2, <1>3 DEF Work
<1>4. CASE pc[p] \in (Modify \ {"writeSysctl"}) \cup Restore /\ mem[p].op # "rollback"
  <2>1. ApplyWork(p) /\ mem[p].snap \in Snapshots
    BY <1>2, <1>4 DEF Work, LocalsOf, HasSnap
  <2>2. mem[p].op \in {"apply", "reconcile"} /\ Planned(mem[p])
    BY <1>2, <1>4 DEF CommandOf, HasPlan, ControlInv, Mem, Ops
  <2>3. Contract!CanUndo(p)
    BY <1>1, <1>2, <2>1, ApplyUndo
  <2>4. Target(mem[p].plan) \in Contract!Goals(p)
    BY <1>1, <1>2, <2>2, ApplyGoal
  <2> QED
    BY <1>1, <2>1, <2>3, <2>4 DEF ApplyWork, Halfway
<1>5. CASE pc[p] \in Restore /\ mem[p].op = "rollback"
  <2>1. RollbackWork(p) /\ mem[p].snap \in Snapshots
    BY <1>2, <1>5 DEF Work, LocalsOf, HasSnap
  <2>2. Contract!CanUndo(p) /\ Saved(mem[p].snap) \in Contract!Goals(p)
    BY <1>1, <1>2, <1>5, <2>1, RollbackGoal DEF RollbackWork
  <2> QED
    BY <1>1, <2>1, <2>2 DEF RollbackWork, Halfway
<1>6. pc[p] \in Modify => mem[p].op # "rollback"
  BY <1>2 DEF LocalsOf, HasPlan
<1> QED
  BY <1>1, <1>3, <1>4, <1>5, <1>6 DEF Locked

(* A command that ends with an error before it has touched the host.       *)
LEMMA Refuses ==
  ASSUME IInv, IInv', RNext, NEW p \in Proc, Step(p), Return(p, "refused"),
         UNCHANGED <<live, file, snaps, latest>>,
         pc[p] \in Locked => Host = base
  PROVE  Contract!Next
<1> USE DEF IInv
<1>1. Contract!Answers(p, "refused")
  BY StepRuns, ReturnAnswers DEF TypeInv
<1>2. UNCHANGED Visible
  <2>1. UNCHANGED Host
    BY DEF Host
  <2>2. CASE pc[p] \in Locked
    <3>1. lock = p /\ lock' = Free
      BY <2>2 DEF MutualExclusion, Return
    <3> QED
      BY <2>1, <2>2, <3>1, CutShort, VisibleSteps
  <2>3. CASE pc[p] \notin Locked
    <3>1. lock' = lock
      BY <2>3 DEF MutualExclusion, Return
    <3> QED
      BY <2>1, <3>1, VisibleSteps
  <2> QED
    BY <2>2, <2>3
<1>3. Contract!Nothing(p)
  BY <1>1, <1>2 DEF Contract!Nothing
<1> QED
  BY <1>3, StepFaults DEF TypeInv, Contract!Next

(* The steps without the lock.                                             *)
LEMMA UnlockedRefines ==
  ASSUME IInv, IInv', RNext, NEW p \in Proc, Step(p),
         DetectKey(p) \/ MakePlan(p) \/ NeedsApply(p) \/ VerifyHost(p) \/ AcquireLock(p)
  PROVE  [Contract!Next]_(Contract!vars)
<1> USE DEF IInv
<1>t. TypeInv => ControlInv /\ DataType
  BY DEF TypeInv
<1>u. UNCHANGED <<live, file, snaps, latest>> /\ pc[p] \notin Locked
  BY DEF DetectKey, MakePlan, NeedsApply, VerifyHost, AcquireLock, Locked, Prepare, Modify,
         Restore
<1>h. UNCHANGED <<Host, Archive>>
  BY <1>u, ArchiveKept DEF Host
<1>f. faults' = faults \/ faults' > faults
  BY <1>t, StepFaults
<1>1. CASE GoesOn(p)
  <2>1. lock' = lock
    BY <1>1 DEF GoesOn, Goto
  <2>2. UNCHANGED Visible
    BY <1>h, <2>1, VisibleSteps
  <2> QED
    BY <1>1, <1>f, <1>h, <1>t, <1>u, <2>2, AskedKept, QuietStep DEF Quiet
<1>2. CASE TakesLock(p)
  <2>1. UNCHANGED Visible
    BY <1>2, VisibleSteps, ProcAssumption DEF TakesLock
  <2> QED
    BY <1>2, <1>f, <1>h, <1>t, <1>u, <2>1, AskedKept, QuietStep DEF Quiet
<1>3. CASE Return(p, "refused")
  BY <1>3, <1>u, Refuses
<1>4. ASSUME NEW ok, VerifyHost(p), Return(p, Verdict(p, ok))
      PROVE  Contract!Next
  <2>1. result[p] = "running" /\ mem[p].op \in {"verify", "reconcile"}
    BY <1>4, StepRuns DEF VerifyHost, CommandOf
  <2>2. Contract!Answers(p, Verdict(p, ok)) /\ Asked[p].op = mem[p].op
    BY <1>4, <1>t, <1>u, <2>1, ReturnAnswers, AskedOf DEF Verdict
  <2>3. UNCHANGED Visible
    <3>1. lock' = lock
      BY <1>4, <1>u DEF MutualExclusion, Return
    <3> QED
      BY <1>h, <3>1, VisibleSteps
  <2>4. Contract!Nothing(p)
    BY <2>1, <2>2, <2>3 DEF Contract!Nothing, Verdict
  <2> QED
    BY <1>t, <2>4, StepFaults DEF Contract!Next
<1>5. CASE VerifyHost(p)
  BY <1>3, <1>4, <1>5 DEF VerifyHost
<1>6. CASE (DetectKey(p) \/ MakePlan(p) \/ NeedsApply(p) \/ AcquireLock(p)) /\ Returns(p)
  <2>1. UNCHANGED result \/ Return(p, "refused")
    BY <1>6 DEF DetectKey, MakePlan, NeedsApply, AcquireLock, Goto
  <2>2. result[p] = "running" /\ result'[p] # "running"
    BY <1>6, <1>t, StepRuns DEF Returns, Return, ControlInv
  <2> QED
    BY <1>3, <2>1, <2>2
<1> QED
  BY <1>1, <1>2, <1>5, <1>6, StepForm

(* Under the lock nothing is seen of a command that goes on, but for its   *)
(* snapshot.                                                               *)
LEMMA LockedGoesOn ==
  ASSUME IInv, IInv', RNext, NEW p \in Proc, Step(p), pc[p] \in Locked,
         \E call, m : Goto(p, call, m)
  PROVE  UNCHANGED <<Visible, Asked, result>>
<1> USE DEF IInv
<1>t. TypeInv => ControlInv /\ DataType
  BY DEF TypeInv
<1>1. UNCHANGED <<lock, result>>
  BY DEF Goto
<1>2. ~TakesLock(p)
  BY DEF TakesLock, Locked, Prepare, Modify, Restore
<1>3. ~Returns(p)
  BY <1>1, <1>t, StepRuns DEF Returns, Return, ControlInv
<1>4. GoesOn(p)
  BY <1>2, <1>3, StepForm
<1>5. lock # Free
  BY ProcAssumption DEF MutualExclusion
<1> QED
  BY <1>1, <1>4, <1>5, <1>t, AskedKept, VisibleSteps

LEMMA PrepareRefines ==
  ASSUME IInv, IInv', RNext, NEW p \in Proc, Step(p),
         LoadModule(p) \/ Capture(p) \/ WriteSnapshot(p) \/ WriteLatest(p)
  PROVE  [Contract!Next]_(Contract!vars)
<1> USE DEF IInv
<1>t. TypeInv => ControlInv /\ DataType
  BY DEF TypeInv
<1>p. pc[p] \in Prepare /\ UNCHANGED <<live, file>> /\ pc[p] \in Locked
  BY DEF LoadModule, Capture, WriteSnapshot, WriteLatest, Prepare, Locked
<1>f. faults' = faults \/ faults' > faults
  BY <1>t, StepFaults
<1>b. Host = base /\ Visible = base /\ result[p] = "running"
  BY <1>p, CutShort DEF WorkInv, Work
<1>m. /\ LocalsOf(pc[p], mem[p]) /\ CommandOf(pc[p], mem[p])
      /\ mem[p].op \in {"apply", "reconcile"}
  BY <1>p, <1>t DEF ControlInv, CommandInv, CommandOf, HasPlan
<1>a. Contract!Applies(p) /\ Asked[p] # None
  BY <1>b, <1>m, <1>t, AskedOf DEF Contract!Applies
<1>1. CASE Return(p, "refused") /\ UNCHANGED <<snaps, latest>>
  BY <1>1, <1>b, <1>p, Refuses
<1>2. CASE UNCHANGED <<snaps, latest>> /\ \E call, m : Goto(p, call, m)
  BY <1>2, <1>f, <1>p, LockedGoesOn, ArchiveKept, QuietStep DEF Quiet
<1>3. CASE /\ WriteSnapshot(p) /\ NoFault
           /\ snaps' = [snaps EXCEPT ![mem[p].snap.id] = mem[p].snap]
           /\ \E call, m : Goto(p, call, m)
  <2> DEFINE i == mem[p].snap.id
  <2>1. pc[p] = "writeSnapshot" /\ mem[p].snap \in Snapshots
    BY <1>3, <1>m DEF WriteSnapshot, LocalsOf, HasSnap
  <2>2. i \in Ids /\ snaps[i] = None /\ Saved(mem[p].snap) = Visible
    BY <1>b, <2>1 DEF Snapshots, SnapshotInv, RecoverInv, Saving
  <2>3. Archive[i] = None /\ Archive' = [Archive EXCEPT ![i] = Visible]
    BY <1>3, <1>t, <2>1, <2>2, FilesAssumption DEF Archive, DataType
  <2>4. Contract!Save(p)
    BY <1>3, <1>a, <1>p, <2>2, <2>3, LockedGoesOn
    DEF Contract!Save, WriteSnapshot, NoFault
  <2> QED
    BY <2>4 DEF Contract!Next
<1>4. CASE /\ WriteLatest(p) /\ NoFault
           /\ latest' = mem[p].snap.id
           /\ \E call, m : Goto(p, call, m)
  <2> DEFINE i == mem[p].snap.id
  <2>1. pc[p] = "writeLatest" /\ mem[p].snap \in Snapshots
    BY <1>4, <1>m DEF WriteLatest, LocalsOf, HasSnap
  <2>2. i \in Ids /\ snaps[i] = mem[p].snap /\ Saved(mem[p].snap) = Visible
    BY <1>b, <2>1 DEF Snapshots, SnapshotInv, RecoverInv, Saving
  <2>3. Archive[i] = Visible
    BY <2>1, <2>2, FilesAssumption DEF Archive
  <2>4. Contract!Point(p)
    BY <1>4, <1>a, <1>p, <2>2, <2>3, LockedGoesOn, ArchiveKept
    DEF Contract!Point, WriteLatest, NoFault
  <2> QED
    BY <2>4 DEF Contract!Next
<1> QED
  BY <1>1, <1>2, <1>3, <1>4 DEF LoadModule, Capture, WriteSnapshot, WriteLatest, NewLatest

(* Apply modifies the host, and answers when it has verified it.           *)
LEMMA ModifyRefines ==
  ASSUME IInv, IInv', RNext, NEW p \in Proc, Step(p),
         \/ WriteSysctlFile(p) \/ WriteModulesFile(p)
         \/ LoadKey(p) \/ LoadEnds(p) \/ Verify(p)
  PROVE  [Contract!Next]_(Contract!vars)
<1> USE DEF IInv
<1>t. TypeInv => ControlInv /\ DataType
  BY DEF TypeInv
<1>p. pc[p] \in Modify /\ pc[p] \in Locked /\ UNCHANGED <<snaps, latest>>
  BY DEF WriteSysctlFile, WriteModulesFile, LoadKey, LoadEnds, Verify, Modify, Locked
<1>1. CASE \E call, m : Goto(p, call, m)
  BY <1>1, <1>p, <1>t, StepFaults, LockedGoesOn, ArchiveKept, QuietStep DEF Quiet
<1>2. CASE /\ pc[p] = "verify" /\ NoFault /\ VerifyMaps(live, mem[p].plan.sysctls)
           /\ Return(p, "applied") /\ UNCHANGED <<live, file>>
  <2>1. /\ LocalsOf(pc[p], mem[p]) /\ CommandOf(pc[p], mem[p])
        /\ mem[p].op \in {"apply", "reconcile"} /\ Planned(mem[p])
    BY <1>2, <1>t DEF ControlInv, CommandInv, CommandOf, HasPlan, Modify
  <2>2. result[p] = "running" /\ lock = p /\ Visible = base
    BY <1>p, CutShort
  <2>3. ApplyWork(p) /\ mem[p].snap \in Snapshots /\ mem[p].plan \in Plans
    BY <1>2, <2>1 DEF WorkInv, Work, LocalsOf, HasSnap, HasPlan, Modify
  <2>4. live = mem[p].plan.sysctls
    BY <1>2, <1>t, <2>3, VerifiedEqual DEF DataType, Plans
  <2>5. file = Target(mem[p].plan).files
    BY <1>2 DEF HonestInv, AppliedInv
  <2>6. Host' = Target(mem[p].plan)
    BY <1>2, <2>4, <2>5 DEF Host, Target
  <2>7. Visible' = Host'
    BY <1>2, <2>2, VisibleSteps DEF Return
  <2>8. Contract!Answers(p, "applied")
    BY <1>2, <1>p, <1>t, <2>2, ReturnAnswers
  <2>9. Contract!Applies(p) /\ Target(mem[p].plan) \in Contract!Goals(p) /\ Contract!CanUndo(p)
    BY <1>t, <2>1, <2>2, <2>3, ApplyGoal, ApplyUndo
  <2>10. Contract!Done(p)
    BY <2>6, <2>7, <2>8, <2>9 DEF Contract!Done
  <2> QED
    BY <1>2, <2>10 DEF Contract!Next, NoFault
<1> QED
  BY <1>1, <1>2
  DEF WriteSysctlFile, WriteModulesFile, LoadKey, LoadEnds, Verify, StartRestore, CmdOk

(* The answers of VerifyRestored.                                          *)
LEMMA RestoredRefines ==
  ASSUME IInv, IInv', RNext, NEW p \in Proc, Step(p), pc[p] = "restoreKeys",
         NoFault, ~mem[p].failed, VerifyMaps(live, mem[p].snap.sysctls),
         UNCHANGED <<live, file, snaps, latest>>,
         Return(p, IF mem[p].op = "rollback" THEN "restored" ELSE "reverted")
  PROVE  Contract!Next
<1> USE DEF IInv
<1>t. TypeInv => ControlInv /\ DataType
  BY DEF TypeInv
<1>1. /\ LocalsOf(pc[p], mem[p]) /\ CommandOf(pc[p], mem[p]) /\ Work(p)
      /\ mem[p].snap \in Snapshots /\ pc[p] \in Restore /\ pc[p] \in Locked
      /\ mem[p].op \in Ops
  BY <1>t DEF ControlInv, CommandInv, WorkInv, LocalsOf, HasSnap, Restore, Locked, Mem
<1>2. result[p] = "running" /\ lock = p /\ Visible = base
  BY <1>1, CutShort
<1>3. live = mem[p].snap.sysctls /\ file = mem[p].snap.files
  BY <1>1, <1>t, VerifiedEqual DEF DataType, Snapshots, HonestInv, RestoredInv
<1>4. Visible' = Saved(mem[p].snap)
  BY <1>2, <1>3, VisibleSteps DEF Return, Host, Saved
<1>5. CASE mem[p].op = "rollback"
  <2>1. Contract!Answers(p, "restored") /\ Asked[p].op = "rollback"
    BY <1>2, <1>5, <1>t, ReturnAnswers, AskedOf
  <2>2. Saved(mem[p].snap) \in Contract!Goals(p)
    BY <1>1, <1>2, <1>5, <1>t, RollbackGoal DEF Work, RollbackWork
  <2>3. Contract!Done(p)
    BY <1>4, <2>1, <2>2 DEF Contract!Done
  <2> QED
    BY <2>3 DEF Contract!Next, NoFault
<1>6. CASE mem[p].op # "rollback"
  <2>1. ApplyWork(p)
    BY <1>1, <1>6 DEF Work
  <2>2. Contract!Applies(p) /\ Contract!CanUndo(p)
    BY <1>1, <1>2, <1>6, <1>t, <2>1, ApplyGoal, ApplyUndo DEF CommandOf, Ops
  <2>3. Contract!Answers(p, "reverted")
    BY <1>2, <1>6, <1>t, ReturnAnswers
  <2>4. UNCHANGED Visible
    BY <1>2, <1>4, <2>1 DEF ApplyWork
  <2>5. Contract!Nothing(p)
    BY <2>2, <2>3, <2>4 DEF Contract!Nothing
  <2> QED
    BY <1>t, <2>5, StepFaults DEF Contract!Next
<1> QED
  BY <1>5, <1>6

(* A process that ends under the lock, with an error or killed.            *)
LEMMA EndsPartly ==
  ASSUME IInv, IInv', RNext, NEW p \in Proc, pc[p] \in Locked, NEW r, r # "running",
         Return(p, r), UNCHANGED <<live, file, snaps, latest>>
  PROVE  Contract!Partly(p, r)
<1> USE DEF IInv
<1>1. lock = p /\ Visible = base /\ result[p] = "running"
  BY CutShort
<1>2. Contract!Answers(p, r)
  BY <1>1, ReturnAnswers DEF TypeInv
<1>3. Visible' = Host
  BY <1>1, VisibleSteps DEF Return, Host
<1> QED
  BY <1>1, <1>2, <1>3, CutShort DEF Contract!Partly

LEMMA RestoreRefines ==
  ASSUME IInv, IInv', RNext, NEW p \in Proc, Step(p),
         \/ ReadSnapshot(p)
         \/ RestoreFile(p, "restoreModules", "modules", "restoreSysctl")
         \/ RestoreFile(p, "restoreSysctl", "sysctl", "restoreKeys")
         \/ RestoreKey(p) \/ VerifyRestored(p)
  PROVE  [Contract!Next]_(Contract!vars)
<1> USE DEF IInv
<1>t. TypeInv => ControlInv /\ DataType
  BY DEF TypeInv
<1>p. pc[p] \in Restore \cup {"readSnapshot"} /\ pc[p] \in Locked /\ UNCHANGED <<snaps, latest>>
  BY DEF ReadSnapshot, RestoreFile, RestoreKey, VerifyRestored, Restore, Locked
<1>1. CASE \E call, m : Goto(p, call, m)
  BY <1>1, <1>p, <1>t, StepFaults, LockedGoesOn, ArchiveKept, QuietStep DEF Quiet
<1>2. CASE ReadSnapshot(p) /\ Return(p, "refused")
  <2>1. Host = base /\ UNCHANGED <<live, file>>
    BY <1>2 DEF ReadSnapshot, WorkInv, Work
  <2> QED
    BY <1>2, <1>p, <2>1, Refuses
<1>3. CASE VerifyRestored(p) /\ Return(p, "dirty")
  <2>1. Contract!Partly(p, "dirty")
    BY <1>3, <1>p, EndsPartly DEF VerifyRestored
  <2> QED
    BY <1>t, <2>1, StepFaults DEF Contract!Next
<1>4. CASE VerifyRestored(p) /\ ~Return(p, "dirty")
  BY <1>4, RestoredRefines DEF VerifyRestored, CmdOk
<1> QED
  BY <1>1, <1>2, <1>3, <1>4
  DEF ReadSnapshot, RestoreFile, RestoreKey, StartRestore

(* A command is started.                                                   *)
LEMMA BeginRefines ==
  ASSUME IInv, IInv', RNext, NEW p \in Proc, Begin(p)
  PROVE  Contract!Next
<1> USE DEF IInv
<1>1. PICK call : \E m \in Mem : Start(p, call, m)
  <2>1. /\ \A o \in {"apply", "reconcile"}, i \in Inputs :
             [Blank EXCEPT !.op = o, !.input = i, !.todo = Keys] \in Mem
        /\ \A i \in Ids \cup {None} : [Blank EXCEPT !.op = "rollback", !.id = i] \in Mem
        /\ [Blank EXCEPT !.op = "verify", !.todo = Keys] \in Mem
    BY DEF Blank, Mem, Ops
  <2>2. \/ \E o \in {"apply", "reconcile"}, i \in Inputs :
               Start(p, "detect", [Blank EXCEPT !.op = o, !.input = i, !.todo = Keys])
        \/ \E i \in Ids \cup {None} :
               Start(p, "acquire", [Blank EXCEPT !.op = "rollback", !.id = i])
        \/ Start(p, "observe", [Blank EXCEPT !.op = "verify", !.todo = Keys])
    BY DEF Begin
  <2>3. ASSUME NEW call, NEW n \in Mem, Start(p, call, n)
        PROVE  \E c : \E m \in Mem : Start(p, c, m)
    BY <2>3
  <2> QED
    BY <2>1, <2>2, <2>3
<1>m. PICK m \in Mem : Start(p, call, m)
  BY <1>1
<1> DEFINE q == [op |-> m.op, input |-> m.input, id |-> m.id]
<1>2. q \in Contract!Requests
  BY DEF Mem, Ops, Contract!Requests
<1>3. result[p] # "running" /\ Asked[p] = None
  BY DEF Begin, CommandInv, Asked
<1>4. Asked' = [Asked EXCEPT ![p] = q] /\ Asked'[p] = q
  BY <1>m DEF Start, Asked, TypeInv, ControlInv
<1>5. UNCHANGED <<lock, live, file, snaps, latest, faults>>
  BY DEF Begin
<1>6. UNCHANGED <<Visible, Archive>>
  BY <1>5, VisibleSteps, ArchiveKept DEF Host
<1>7. result' = [result EXCEPT ![p] = "running"]
  BY <1>m DEF Start
<1>8. Contract!Ask(p)
  BY <1>2, <1>3, <1>4, <1>5, <1>6, <1>7 DEF Contract!Ask
<1> QED
  BY <1>8 DEF Contract!Next

(* A process is killed.                                                    *)
LEMMA KillRefines ==
  ASSUME IInv, IInv', RNext, NEW p \in Proc, Kill(p)
  PROVE  Contract!Next
<1> USE DEF IInv
<1>1. /\ Return(p, "killed") /\ UNCHANGED <<live, file, snaps, latest>>
      /\ faults' > faults /\ result[p] = "running"
  BY FaultCounted DEF Kill, TypeInv, CommandInv
<1>2. CASE pc[p] \in Locked
  <2>1. Contract!Partly(p, "killed")
    BY <1>1, <1>2, EndsPartly
  <2> QED
    BY <1>1, <2>1 DEF Contract!Next
<1>3. CASE pc[p] \notin Locked
  <2>1. lock' = lock
    BY <1>1, <1>3 DEF MutualExclusion, Return
  <2>2. UNCHANGED Visible
    BY <1>1, <2>1, VisibleSteps DEF Host
  <2>3. Contract!Answers(p, "killed")
    BY <1>1, ReturnAnswers DEF TypeInv
  <2>4. Contract!Partly(p, "killed")
    BY <2>2, <2>3 DEF Contract!Partly
  <2> QED
    BY <1>1, <2>4 DEF Contract!Next
<1> QED
  BY <1>2, <1>3

(* The host restarts: what was under way has left the files halfway.       *)
LEMMA RebootRefines ==
  ASSUME IInv, IInv', RNext, Reboot
  PROVE  Contract!Next
<1> USE DEF IInv
<1>1. faults' > faults /\ UNCHANGED <<file, snaps, latest>> /\ lock' = Free
  BY FaultCounted DEF Reboot, TypeInv
<1>2. /\ result' = [p \in Proc |-> IF Asked[p] = None THEN result[p] ELSE "killed"]
      /\ Asked' = [p \in Proc |-> None]
  <2>1. \A p \in Proc : pc[p] = "idle" <=> Asked[p] = None
    BY AskedOf DEF CommandInv, TypeInv, Asked
  <2>2. \A p \in Proc : result'[p] # "running"
    BY DEF Reboot, CommandInv
  <2> QED
    BY <2>1, <2>2 DEF Reboot, Asked
<1>3. Visible' = Host' /\ Host' \in HostStates
  <2>1. Host' \in HostStates
    BY DEF Host, HostStates, TypeInv, DataType
  <2> QED
    BY <1>1, <2>1, VisibleSteps
<1>4. Visible'.files = file
  BY <1>1, <1>3 DEF Host
<1>5. Visible'.sysctls = IF file["sysctl"] \in Rendered THEN file["sysctl"].values
                         ELSE [k \in Keys |-> Default]
  BY <1>3 DEF Host, Reboot
<1>6. \/ file = Visible.files
      \/ \E p \in Proc : \E g \in IF Asked[p] = None THEN {} ELSE Contract!Goals(p) :
           /\ Contract!CanUndo(p)
           /\ \A f \in Files : file[f] \in {g.files[f], Visible.files[f]}
  <2>1. CASE lock = Free
    BY <2>1, VisibleHost DEF Host
  <2>2. CASE lock # Free
    <3>1. PICK p \in Proc : pc[p] \in Locked
      BY <2>2 DEF TypeInv, ControlInv, MutualExclusion
    <3>2. Visible = base /\ Asked[p] # None
      BY <3>1, CutShort, AskedOf DEF TypeInv
    <3>3. CASE Host = base
      BY <3>2, <3>3 DEF Host
    <3>4. CASE /\ Contract!CanUndo(p)
               /\ \E g \in Contract!Goals(p) : Contract!Between(Host, g, base)
      <4>1. PICK g \in Contract!Goals(p) : Contract!Between(Host, g, base)
        BY <3>4
      <4>2. \A f \in Files : file[f] \in {g.files[f], Visible.files[f]}
        BY <3>2, <4>1, SameData DEF Contract!Between, Host
      <4> QED
        BY <3>2, <3>4, <4>2
    <3> QED
      BY <3>1, <3>3, <3>4, CutShort
  <2> QED
    BY <2>1, <2>2
<1>7. UNCHANGED <<Archive, latest>>
  BY <1>1, ArchiveKept
<1>8. Contract!Reboot
  BY <1>1, <1>2, <1>3, <1>4, <1>5, <1>6, <1>7, SameData DEF Contract!Reboot
<1> QED
  BY <1>8 DEF Contract!Next

(* Someone else changes the host, while the lock is free.                  *)
LEMMA DisturbRefines ==
  ASSUME "interfere" \notin Faults, IInv, IInv', RNext, OthersChangeHost
  PROVE  Contract!Next
<1> USE DEF IInv
<1>1. /\ faults' > faults /\ lock = Free
      /\ UNCHANGED <<lock, snaps, latest, mem, result>>
  BY FaultCounted DEF OthersChangeHost, Fault, TypeInv
<1>2. Visible = Host /\ Visible' = Host'
  BY <1>1, VisibleHost, VisibleSteps
<1>3. UNCHANGED <<Asked, Archive>>
  BY <1>1, ArchiveKept DEF Asked
<1>4. CASE \E k \in Keys, v \in Vals : live' = [live EXCEPT ![k] = v] /\ UNCHANGED file
  <2>1. \E k \in Keys, v \in Vals : Host' = [Host EXCEPT !.sysctls[k] = v]
    BY <1>4 DEF Host
  <2>2. Contract!Disturb
    BY <1>1, <1>2, <1>3, <2>1 DEF Contract!Disturb
  <2> QED
    BY <2>2 DEF Contract!Next
<1>5. CASE \E f \in Files, c \in {Absent, Foreign, Irregular} :
             file' = [file EXCEPT ![f] = c] /\ UNCHANGED live
  <2>1. {Absent, Foreign, Irregular} \subseteq FileVals \ Rendered
    BY FilesAssumption DEF FileVals
  <2>2. \E f \in Files, c \in FileVals \ Rendered : Host' = [Host EXCEPT !.files[f] = c]
    BY <1>5, <2>1 DEF Host
  <2>3. Contract!Disturb
    BY <1>1, <1>2, <1>3, <2>2, SameData DEF Contract!Disturb
  <2> QED
    BY <2>3 DEF Contract!Next
<1> QED
  BY <1>4, <1>5 DEF OthersChangeHost

LEMMA NextRefines ==
  ASSUME "interfere" \notin Faults, IInv, IInv', RNext
  PROVE  [Contract!Next]_(Contract!vars)
<1>1. ASSUME NEW p \in Proc, Cancel(p)
      PROVE  [Contract!Next]_(Contract!vars)
  <2>1. UNCHANGED <<live, file, snaps, latest, lock, mem, result>> /\ faults' > faults
    BY <1>1, FaultCounted DEF Cancel, IInv, TypeInv
  <2>2. Quiet
    BY <2>1, VisibleSteps, ArchiveKept DEF IInv, Host, Asked, Quiet
  <2> QED
    BY <2>1, <2>2, QuietStep
<1>2. ASSUME NEW p \in Proc, Step(p)
      PROVE  [Contract!Next]_(Contract!vars)
  BY <1>2, UnlockedRefines, PrepareRefines, ModifyRefines, RestoreRefines DEF Step
<1> QED
  BY <1>1, <1>2, BeginRefines, KillRefines, RebootRefines, DisturbRefines DEF RNext, Next

LEMMA InitRefines == RInit => Contract!Init
<1> SUFFICES ASSUME RInit PROVE Contract!Init
  OBVIOUS
<1>1. Visible \in HostStates
  BY TypeInit, HostType DEF RInit, Visible, TypeInv
<1>2. Archive = [i \in Ids |-> None] /\ Asked = [p \in Proc |-> None]
  BY ResultAssumption DEF RInit, Init, Archive, Asked
<1> QED
  BY <1>1, <1>2, SameData DEF Contract!Init, RInit, Init

(* The manager implements its contract: whatever number of invocations     *)
(* run, fail, are interrupted or killed, on a host that may restart and    *)
(* that others change while the lock is free, each command takes effect    *)
(* as a whole when it returns, and one that is cut short leaves the host   *)
(* before it in the snapshot `latest`.                                     *)
THEOREM Refinement ==
  ASSUME "interfere" \notin Faults
  PROVE  RSpec => ImplementsContract
<1>1. RInit => IInv
  BY TypeInit, MutexInit, SnapshotInit, RecoverInit, HonestInit, CommandInit, BaseInit,
     WorkInit DEF RInit, IInv
<1>2. IInv /\ [RNext]_<<vars, base>> => IInv'
  <2> SUFFICES ASSUME IInv, [RNext]_<<vars, base>> PROVE IInv'
    OBVIOUS
  <2>1. [Next]_vars
    BY DEF RNext, vars
  <2>2. TypeInv => ControlInv /\ DataType
    BY DEF TypeInv
  <2>3. TypeInv' /\ MutualExclusion' /\ SnapshotInv' /\ RecoverInv' /\ HonestInv'
    BY <2>1, <2>2, TypeNext, MutexNext, SnapshotNext, RecoverNext, HonestNext DEF IInv
  <2>4. CommandInv' /\ BaseInv' /\ WorkInv'
    BY <2>1, <2>2, <2>3, CommandNext, BaseNext, WorkNext DEF IInv
  <2> QED
    BY <2>3, <2>4 DEF IInv
<1>3. IInv /\ IInv' /\ [RNext]_<<vars, base>> => [Contract!Next]_(Contract!vars)
  <2>1. ASSUME UNCHANGED <<vars, base>>
        PROVE  UNCHANGED Contract!vars
    BY <2>1 DEF vars, Contract!vars, Visible, Archive, Asked, Host
  <2> QED
    BY <2>1, NextRefines
<1> QED
  BY <1>1, <1>2, <1>3, InitRefines, PTL DEF RSpec, ImplementsContract, Contract!Spec
=============================================================================
