---------------------------- MODULE ManagerProof ----------------------------
(***************************************************************************)
(* Proofs about Manager, for any number of invocations, keys, inputs and   *)
(* faults.  Every invariant is shown to be kept by an action in two parts: *)
(* the control part, which is the same for every action that ends in Goto  *)
(* or Return (lemmas GotoType and ReturnType), and the part about the      *)
(* shared state.                                                           *)
(***************************************************************************)
EXTENDS Manager, TLAPS

-----------------------------------------------------------------------------
(* The inductive type invariant.                                           *)

(* The calls at which the local plan and the local snapshot are in use.    *)
HasPlan == {"needsApply"} \cup Prepare \cup Modify
HasSnap == {"writeSnapshot", "writeLatest"} \cup Modify \cup Restore

LocalsOf(call, m) ==
  /\ call = "detect" => m.input \in Inputs /\ m.op # "rollback"
  /\ call = "acquire" /\ m.op # "rollback" => m.plan \in Plans
  /\ call \in HasPlan => m.plan \in Plans /\ m.op # "rollback"
  /\ call \in HasSnap => m.snap \in Snapshots

(* The types of the variables every Goto and Return changes, with what the *)
(* locals hold at each call, and the types of the rest.                    *)
ControlInv ==
  /\ lock \in Proc \cup {Free}
  /\ pc \in [Proc -> Calls]
  /\ mem \in [Proc -> Mem]
  /\ result \in [Proc -> Results]
  /\ cancelled \in SUBSET Proc
  /\ \A p \in Proc : LocalsOf(pc[p], mem[p])

DataType ==
  /\ live \in [Keys -> Vals]
  /\ file \in [Files -> FileVals]
  /\ snaps \in [Ids -> Snapshots \cup {None}]
  /\ latest \in Ids \cup {None}
  /\ torn \in HostStates \cup {None}
  /\ faults \in 0..MaxFaults
  /\ ops \in 0..MaxOps

TypeInv == ControlInv /\ DataType

-----------------------------------------------------------------------------
(* What the operators of HostPlan and the local record are.                *)

(* A plan recommends a value for every key, also when some could not be    *)
(* read (maxParsed never returns the empty value).                         *)
LEMMA PlanType ==
  ASSUME NEW i \in Inputs, NEW seen \in [Keys -> Vals \cup {None}]
  PROVE  BuildPlan(i, seen) \in Plans
<1>1. \A k \in Keys : MaxParsed(seen[k]) \in Vals
  BY ValsAssumption, NoneAssumption DEF MaxParsed
<1>2. \A k \in Keys \ Backlog : Tuned[i][k] \in Vals
  BY ValsAssumption
<1>3. Recommended(i, seen) \in [Keys -> Vals]
  BY <1>1, <1>2 DEF Recommended
<1> QED
  BY <1>3 DEF BuildPlan, Plans

(* What Apply writes into the sysctl file assigns every managed key.       *)
LEMMA RenderType ==
  ASSUME NEW plan \in Plans
  PROVE  RenderSysctl(plan) \in Rendered
BY DEF RenderSysctl, Rendered, Plans

(* The host as the tool sees it is of the kind a snapshot saves.           *)
LEMMA HostType ==
  ASSUME DataType
  PROVE  Host \in HostStates
BY DEF DataType, Host, HostStates

(* A process that starts or ends has well-typed locals.                    *)
LEMMA BlankType == Blank \in Mem
BY DEF Blank, Mem, Ops

(* Each assignment the handlers make to a local variable keeps its type.   *)
LEMMA LocalsType ==
  ASSUME NEW m \in Mem
  PROVE  /\ [m EXCEPT !.todo = Keys] \in Mem
         /\ \A k : [m EXCEPT !.todo = @ \ {k}] \in Mem
         /\ Erred(m) \in Mem
         /\ [m EXCEPT !.todo = {}, !.failed = FALSE] \in Mem
         /\ \A q \in Plans : [m EXCEPT !.plan = q] \in Mem
         /\ \A s \in Snapshots : [m EXCEPT !.snap = s] \in Mem
         /\ \A k \in Keys, v \in Vals : [m EXCEPT !.seen[k] = v] \in Mem
BY DEF Mem, Erred

-----------------------------------------------------------------------------
(* Control.                                                                *)

(* The fault counter stays within its bound.                               *)
LEMMA FaultType ==
  ASSUME DataType, NEW kind, NoFault \/ Fault(kind)
  PROVE  faults' \in 0..MaxFaults
BY FaultsAssumption DEF DataType, NoFault, Fault

(* Moving on to a call whose locals are in place keeps the control types.  *)
LEMMA GotoType ==
  ASSUME ControlInv, NEW p \in Proc, NEW call \in Calls, NEW m \in Mem,
         LocalsOf(call, m), Goto(p, call, m)
  PROVE  ControlInv'
BY DEF ControlInv, Goto

(* Returning from any call keeps the control types.                        *)
LEMMA ReturnType ==
  ASSUME ControlInv, NEW p \in Proc, NEW r \in Results, Return(p, r)
  PROVE  ControlInv'
<1>1. LocalsOf("idle", Blank)
  BY DEF LocalsOf, HasPlan, HasSnap, Prepare, Modify, Restore
<1> QED
  BY <1>1, BlankType DEF ControlInv, Return, Calls

(* The same for the step into restoreSnapshot.                             *)
LEMMA StartRestoreType ==
  ASSUME ControlInv, NEW p \in Proc, NEW m \in Mem, m.snap \in Snapshots,
         StartRestore(p, m)
  PROVE  ControlInv'
<1> DEFINE n == [m EXCEPT !.todo = {}, !.failed = FALSE]
<1>1. n \in Mem
  BY LocalsType
<1>2. n.snap = m.snap
  BY DEF Mem
<1>3. LocalsOf("restoreModules", n)
  BY <1>2 DEF LocalsOf, HasPlan, HasSnap, Prepare, Modify, Restore
<1>4. "restoreModules" \in Calls
  BY DEF Calls, Locked, Restore
<1> QED
  BY <1>1, <1>3, <1>4, GotoType DEF StartRestore

-----------------------------------------------------------------------------
(* Every step keeps the types.                                             *)

LEMMA TypeInit == Init => TypeInv
<1> SUFFICES ASSUME Init PROVE TypeInv
  OBVIOUS
<1>1. LocalsOf("idle", Blank)
  BY DEF LocalsOf, HasPlan, HasSnap, Prepare, Modify, Restore
<1>2. ControlInv
  BY <1>1, BlankType DEF Init, ControlInv, Calls, Results
<1>3. DataType
  BY FaultsAssumption, BoundAssumption DEF Init, DataType, FileVals
<1> QED
  BY <1>2, <1>3 DEF TypeInv

(* Starting a command.                                                     *)
LEMMA BeginType ==
  ASSUME TypeInv, NEW p \in Proc, Begin(p)
  PROVE  TypeInv'
<1> USE DEF TypeInv
<1>1. DataType'
  <2>1. ops < MaxOps /\ ops' = ops + 1
    BY DEF Begin
  <2>2. ops' \in 0..MaxOps
    BY <2>1, BoundAssumption DEF DataType
  <2>3. UNCHANGED <<live, file, snaps, latest, torn, faults>>
    BY DEF Begin
  <2> QED
    BY <2>2, <2>3 DEF DataType
<1>2. ASSUME NEW call \in Unlocked, NEW m \in Mem, LocalsOf(call, m), Start(p, call, m)
      PROVE  TypeInv'
  BY <1>1, <1>2 DEF Begin, Start, ControlInv, Calls, Results
<1>3. CASE \E o \in {"apply", "reconcile"}, i \in Inputs :
             Start(p, "detect", [Blank EXCEPT !.op = o, !.input = i, !.todo = Keys])
  <2>1. PICK o \in {"apply", "reconcile"}, i \in Inputs :
             Start(p, "detect", [Blank EXCEPT !.op = o, !.input = i, !.todo = Keys])
    BY <1>3
  <2> DEFINE m == [Blank EXCEPT !.op = o, !.input = i, !.todo = Keys]
  <2>2. m \in Mem /\ m.op = o /\ m.input = i
    BY DEF Blank, Mem, Ops
  <2>3. LocalsOf("detect", m) /\ "detect" \in Unlocked
    BY <2>2 DEF LocalsOf, HasPlan, HasSnap, Prepare, Modify, Restore, Unlocked
  <2> QED
    BY <1>2, <2>1, <2>2, <2>3
<1>4. CASE \E i \in Ids \cup {None} :
             Start(p, "acquire", [Blank EXCEPT !.op = "rollback", !.id = i])
  <2>1. PICK i \in Ids \cup {None} :
             Start(p, "acquire", [Blank EXCEPT !.op = "rollback", !.id = i])
    BY <1>4
  <2> DEFINE m == [Blank EXCEPT !.op = "rollback", !.id = i]
  <2>2. m \in Mem /\ m.op = "rollback"
    BY DEF Blank, Mem, Ops
  <2>3. LocalsOf("acquire", m) /\ "acquire" \in Unlocked
    BY <2>2 DEF LocalsOf, HasPlan, HasSnap, Prepare, Modify, Restore, Unlocked
  <2> QED
    BY <1>2, <2>1, <2>2, <2>3
<1>5. CASE Start(p, "observe", [Blank EXCEPT !.op = "verify", !.todo = Keys])
  <2> DEFINE m == [Blank EXCEPT !.op = "verify", !.todo = Keys]
  <2>1. m \in Mem
    BY DEF Blank, Mem, Ops
  <2>2. LocalsOf("observe", m) /\ "observe" \in Unlocked
    BY DEF LocalsOf, HasPlan, HasSnap, Prepare, Modify, Restore, Unlocked
  <2> QED
    BY <1>2, <1>5, <2>1, <2>2
<1> QED
  BY <1>3, <1>4, <1>5 DEF Begin

(* The steps without the lock.                                             *)
LEMMA UnlockedType ==
  ASSUME TypeInv, NEW p \in Proc,
         DetectKey(p) \/ MakePlan(p) \/ NeedsApply(p) \/ VerifyHost(p) \/ AcquireLock(p)
  PROVE  TypeInv'
<1> USE DEF TypeInv
<1>m. mem[p] \in Mem /\ LocalsOf(pc[p], mem[p])
  BY DEF ControlInv
<1>r. "refused" \in Results /\ \A ok \in BOOLEAN : Verdict(p, ok) \in Results
  BY DEF Results, Verdict
<1>1. DataType'
  <2>1. NoFault \/ \E kind \in FaultKinds : Fault(kind)
    BY DEF DetectKey, MakePlan, NeedsApply, VerifyHost, AcquireLock, CmdOk, CmdFails, FaultKinds
  <2>2. faults' \in 0..MaxFaults
    BY <2>1, FaultType
  <2> QED
    BY <2>2 DEF DataType, DetectKey, MakePlan, NeedsApply, VerifyHost, AcquireLock
<1>2. CASE DetectKey(p)
  <2>1. PICK k \in mem[p].todo :
            \/ Goto(p, pc[p], [Did(p, k) EXCEPT !.seen[k] = live[k]])
            \/ Goto(p, pc[p], Did(p, k))
    BY <1>2 DEF DetectKey
  <2>2. k \in Keys /\ live[k] \in Vals
    BY <1>m DEF Mem, DataType
  <2>3. Did(p, k) \in Mem /\ [Did(p, k) EXCEPT !.seen[k] = live[k]] \in Mem
    BY <1>m, <2>2, LocalsType DEF Did
  <2>4. /\ LocalsOf(pc[p], Did(p, k))
        /\ LocalsOf(pc[p], [Did(p, k) EXCEPT !.seen[k] = live[k]])
    BY <1>2, <1>m, <2>3 DEF DetectKey, LocalsOf, HasPlan, HasSnap, Prepare, Modify, Restore, Did, Mem
  <2>5. pc[p] \in Calls
    BY DEF ControlInv
  <2> QED
    BY <1>1, <2>1, <2>3, <2>4, <2>5, GotoType
<1>3. CASE MakePlan(p)
  <2> DEFINE q == BuildPlan(mem[p].input, mem[p].seen)
             m == [mem[p] EXCEPT !.plan = q]
  <2>1. q \in Plans
    <3>1. mem[p].input \in Inputs /\ mem[p].seen \in [Keys -> Vals \cup {None}]
      BY <1>3, <1>m DEF MakePlan, LocalsOf, Mem
    <3> QED
      BY <3>1, PlanType
  <2>2. m \in Mem
    BY <1>m, <2>1, LocalsType
  <2>3. LocalsOf("acquire", m) /\ LocalsOf("needsApply", m)
    <3>1. m.plan = q /\ m.op = mem[p].op
      BY <1>m DEF Mem
    <3> HIDE DEF q, m
    <3> QED
      BY <1>3, <1>m, <2>1, <3>1
      DEF MakePlan, LocalsOf, HasPlan, HasSnap, Prepare, Modify, Restore
  <2>4. CASE Goto(p, IF mem[p].op = "apply" THEN "acquire" ELSE "needsApply", m)
    <3> HIDE DEF m
    <3> QED
      BY <1>1, <2>2, <2>3, <2>4, GotoType DEF Calls, Unlocked
  <2>5. CASE Return(p, "refused")
    BY <1>1, <1>r, <2>5, ReturnType
  <2> QED
    BY <1>3, <2>4, <2>5 DEF MakePlan
<1>4. CASE NeedsApply(p)
  <2>1. LocalsOf("acquire", mem[p])
    BY <1>4, <1>m DEF NeedsApply, LocalsOf, HasPlan, HasSnap, Prepare, Modify, Restore
  <2>2. Unseen(p) \in Mem
    BY <1>m DEF Unseen, Loop, Mem, Blank
  <2>3. LocalsOf("observe", Unseen(p))
    BY DEF LocalsOf, HasPlan, HasSnap, Prepare, Modify, Restore
  <2> QED
    BY <1>4, <1>1, <1>m, <1>r, <2>1, <2>2, <2>3, GotoType, ReturnType
    DEF NeedsApply, Calls, Unlocked
<1>5. CASE VerifyHost(p)
  <2>1. \E r \in Results : Return(p, r)
    BY <1>5, <1>r DEF VerifyHost, Observes, VerifyMaps
  <2> QED
    BY <1>1, <2>1, ReturnType
<1>6. CASE AcquireLock(p)
  <2>1. LocalsOf(IF mem[p].op = "rollback" THEN "readSnapshot" ELSE "modprobe", mem[p])
    BY <1>6, <1>m DEF AcquireLock, LocalsOf, HasPlan, HasSnap, Prepare, Modify, Restore
  <2>2. CASE Return(p, "refused")
    BY <1>1, <1>r, <2>2, ReturnType
  <2>3. CASE ~Return(p, "refused")
    BY <1>6, <1>1, <2>1, <2>3 DEF AcquireLock, ControlInv, Calls, Locked, Prepare
  <2> QED
    BY <2>2, <2>3
<1> QED
  BY <1>2, <1>3, <1>4, <1>5, <1>6

(* The steps of Apply before it modifies the host.                         *)
LEMMA PrepareType ==
  ASSUME TypeInv, NEW p \in Proc,
         LoadModule(p) \/ Capture(p) \/ WriteSnapshot(p) \/ WriteLatest(p)
  PROVE  TypeInv'
<1> USE DEF TypeInv
<1>m. mem[p] \in Mem /\ LocalsOf(pc[p], mem[p])
  BY DEF ControlInv
<1>r. "refused" \in Results
  BY DEF Results
<1>f. faults' \in 0..MaxFaults
  <2>1. NoFault \/ \E kind \in FaultKinds : Fault(kind)
    BY DEF LoadModule, Capture, WriteSnapshot, WriteLatest, CmdOk, CmdFails, FaultKinds
  <2> QED
    BY <2>1, FaultType
<1>1. CASE LoadModule(p)
  <2>1. LocalsOf("capture", mem[p])
    BY <1>1, <1>m DEF LoadModule, LocalsOf, HasPlan, HasSnap, Prepare, Modify, Restore
  <2>2. DataType'
    BY <1>1, <1>f DEF LoadModule, DataType
  <2> QED
    BY <1>1, <1>m, <1>r, <2>1, <2>2, GotoType, ReturnType
    DEF LoadModule, Calls, Locked, Prepare
<1>2. CASE Capture(p)
  <2>1. DataType'
    BY <1>2, <1>f DEF Capture, DataType
  <2>2. CASE Return(p, "refused")
    BY <1>r, <2>1, <2>2, ReturnType
  <2>3. CASE ~Return(p, "refused")
    <3>1. PICK i \in Ids :
            Goto(p, "writeSnapshot",
                 [mem[p] EXCEPT !.snap = [id |-> i, sysctls |-> live, files |-> file]])
      BY <1>2, <2>3 DEF Capture
    <3> DEFINE s == [id |-> i, sysctls |-> live, files |-> file]
               m == [mem[p] EXCEPT !.snap = s]
    <3>2. s \in Snapshots
      BY DEF DataType, Snapshots
    <3>3. m \in Mem
      BY <1>m, <3>2, LocalsType
    <3>4. m.snap = s /\ m.plan = mem[p].plan /\ m.op = mem[p].op
      BY <1>m DEF Mem
    <3> HIDE DEF s, m
    <3>5. LocalsOf("writeSnapshot", m)
      BY <1>2, <1>m, <3>2, <3>4
      DEF Capture, LocalsOf, HasPlan, HasSnap, Prepare, Modify, Restore
    <3> QED
      BY <2>1, <3>1, <3>3, <3>5, GotoType DEF m, s, Calls, Locked, Prepare
  <2> QED
    BY <2>2, <2>3
<1>3. CASE WriteSnapshot(p)
  <2>1. mem[p].snap \in Snapshots /\ LocalsOf("writeLatest", mem[p])
    BY <1>3, <1>m DEF WriteSnapshot, LocalsOf, HasPlan, HasSnap, Prepare, Modify, Restore
  <2>2. DataType'
    BY <1>3, <1>f, <2>1 DEF WriteSnapshot, DataType, Snapshots
  <2> QED
    BY <1>3, <1>m, <1>r, <2>1, <2>2, GotoType, ReturnType
    DEF WriteSnapshot, Calls, Locked, Prepare
<1>4. CASE WriteLatest(p)
  <2>1. mem[p].snap \in Snapshots /\ LocalsOf("writeSysctl", mem[p])
    BY <1>4, <1>m DEF WriteLatest, LocalsOf, HasPlan, HasSnap, Prepare, Modify, Restore
  <2>2. DataType'
    BY <1>4, <1>f, <2>1 DEF WriteLatest, DataType, Snapshots, NewLatest
  <2> QED
    BY <1>4, <1>m, <1>r, <2>1, <2>2, GotoType, ReturnType
    DEF WriteLatest, Calls, Locked, Modify
<1> QED
  BY <1>1, <1>2, <1>3, <1>4

(* The steps in which Apply modifies the host.                             *)
LEMMA ModifyType ==
  ASSUME TypeInv, NEW p \in Proc,
         \/ WriteSysctlFile(p) \/ WriteModulesFile(p)
         \/ LoadKey(p) \/ LoadEnds(p) \/ Verify(p)
  PROVE  TypeInv'
<1> USE DEF TypeInv
<1>m. mem[p] \in Mem /\ LocalsOf(pc[p], mem[p])
  BY DEF ControlInv
<1>s. mem[p].snap \in Snapshots /\ mem[p].plan \in Plans /\ mem[p].op # "rollback"
  BY <1>m DEF WriteSysctlFile, WriteModulesFile, LoadKey, LoadEnds, Verify,
              LocalsOf, HasPlan, HasSnap, Modify
<1>f. faults' \in 0..MaxFaults
  <2>1. NoFault \/ \E kind \in FaultKinds : Fault(kind)
    BY DEF WriteSysctlFile, WriteModulesFile, LoadKey, LoadEnds, Verify,
           CmdOk, CmdFails, WriteFails, FaultKinds
  <2> QED
    BY <2>1, FaultType
<1>c. Modify \subseteq Calls
  BY DEF Calls, Locked
<1>k. \A call \in Modify, m \in Mem :
         m.snap = mem[p].snap /\ m.plan = mem[p].plan /\ m.op = mem[p].op
           => LocalsOf(call, m)
  BY <1>s DEF LocalsOf, HasPlan, HasSnap, Prepare, Modify, Restore
<1>d. /\ Loop(p) \in Mem
      /\ \A k : Did(p, k) \in Mem /\ Erred(Did(p, k)) \in Mem
  BY <1>m, LocalsType DEF Loop, Did
<1>e. /\ Loop(p).snap = mem[p].snap /\ Loop(p).plan = mem[p].plan /\ Loop(p).op = mem[p].op
      /\ \A k : /\ Did(p, k).snap = mem[p].snap /\ Did(p, k).plan = mem[p].plan
                /\ Did(p, k).op = mem[p].op
                /\ Erred(Did(p, k)).snap = mem[p].snap
                /\ Erred(Did(p, k)).plan = mem[p].plan
                /\ Erred(Did(p, k)).op = mem[p].op
  BY <1>m DEF Loop, Did, Erred, Mem
<1>1. CASE WriteSysctlFile(p)
  <2>1. RenderSysctl(mem[p].plan) \in FileVals
    BY <1>s, RenderType DEF FileVals
  <2>2. DataType'
    BY <1>1, <1>f, <2>1, HostType DEF WriteSysctlFile, DataType
  <2> QED
    BY <1>1, <1>m, <1>s, <1>c, <1>k, <2>2, GotoType, StartRestoreType
    DEF WriteSysctlFile, Modify
<1>2. CASE WriteModulesFile(p)
  <2>1. DataType'
    BY <1>2, <1>f DEF WriteModulesFile, DataType, FileVals
  <2> QED
    BY <1>2, <1>m, <1>s, <1>c, <1>d, <1>e, <1>k, <2>1, GotoType, StartRestoreType
    DEF WriteModulesFile, Modify
<1>3. CASE LoadKey(p)
  <2>1. PICK k \in Keys :
           \/ live' = [live EXCEPT ![k] = file["sysctl"].values[k]] /\ Goto(p, "load", Did(p, k))
           \/ live' = live /\ Goto(p, "load", Did(p, k))
           \/ live' = live /\ Goto(p, "load", Erred(Did(p, k)))
    BY <1>3 DEF LoadKey
  <2>2. file["sysctl"].values[k] \in Vals
    BY <1>3 DEF LoadKey, Rendered
  <2>3. DataType'
    BY <1>3, <1>f, <2>1, <2>2 DEF LoadKey, DataType
  <2> QED
    BY <1>c, <1>d, <1>e, <1>k, <2>1, <2>3, GotoType DEF Modify
<1>4. CASE LoadEnds(p)
  <2>1. DataType'
    BY <1>4, <1>f DEF LoadEnds, DataType
  <2> QED
    BY <1>4, <1>m, <1>s, <1>c, <1>k, <2>1, GotoType, StartRestoreType DEF LoadEnds, Modify
<1>5. CASE Verify(p)
  <2>1. DataType'
    BY <1>5, <1>f DEF Verify, DataType
  <2> QED
    BY <1>5, <1>m, <1>s, <2>1, ReturnType, StartRestoreType DEF Verify, Results
<1> QED
  BY <1>1, <1>2, <1>3, <1>4, <1>5

(* Rollback's lookup and the steps of restoreSnapshot.                     *)
LEMMA RestoreType ==
  ASSUME TypeInv, NEW p \in Proc,
         \/ ReadSnapshot(p)
         \/ RestoreFile(p, "restoreModules", "modules", "restoreSysctl")
         \/ RestoreFile(p, "restoreSysctl", "sysctl", "restoreKeys")
         \/ RestoreKey(p) \/ VerifyRestored(p)
  PROVE  TypeInv'
<1> USE DEF TypeInv
<1>m. mem[p] \in Mem /\ LocalsOf(pc[p], mem[p])
  BY DEF ControlInv
<1>f. faults' \in 0..MaxFaults
  <2>1. NoFault \/ \E kind \in FaultKinds : Fault(kind)
    BY DEF ReadSnapshot, RestoreFile, RestoreKey, VerifyRestored,
           CmdOk, CmdFails, WriteFails, FaultKinds
  <2> QED
    BY <2>1, FaultType
<1>r. {"refused", "restored", "reverted", "dirty"} \subseteq Results
  BY DEF Results
<1>c. Restore \subseteq Calls
  BY DEF Calls, Locked
<1>k. \A call \in Restore, m \in Mem : m.snap \in Snapshots => LocalsOf(call, m)
  BY DEF LocalsOf, HasPlan, HasSnap, Prepare, Modify, Restore
<1>d. /\ Loop(p) \in Mem /\ Erred(Loop(p)) \in Mem
      /\ \A k : Did(p, k) \in Mem /\ Erred(Did(p, k)) \in Mem
  BY <1>m, LocalsType DEF Loop, Did
<1>e. /\ Loop(p).snap = mem[p].snap /\ Erred(Loop(p)).snap = mem[p].snap
      /\ \A k : /\ Did(p, k).snap = mem[p].snap
                /\ Erred(Did(p, k)).snap = mem[p].snap
  BY <1>m DEF Loop, Did, Erred, Mem
<1>1. CASE ReadSnapshot(p)
  <2>1. DataType'
    BY <1>1, <1>f DEF ReadSnapshot, DataType
  <2>2. CASE Return(p, "refused")
    BY <1>r, <2>1, <2>2, ReturnType
  <2>3. CASE ~Return(p, "refused")
    <3> DEFINE i == IF mem[p].id = None THEN latest ELSE mem[p].id
               m == [mem[p] EXCEPT !.snap = snaps[i]]
    <3>1. i # None /\ snaps[i] # None /\ StartRestore(p, m)
      BY <1>1, <2>3 DEF ReadSnapshot
    <3>2. i \in Ids
      BY <1>m, <3>1 DEF DataType, Mem
    <3>3. snaps[i] \in Snapshots
      BY <3>1, <3>2 DEF DataType
    <3>4. m \in Mem
      BY <1>m, <3>3, LocalsType
    <3>5. m.snap \in Snapshots
      BY <1>m, <3>3 DEF Mem
    <3> HIDE DEF m
    <3> QED
      BY <2>1, <3>1, <3>4, <3>5, StartRestoreType
  <2> QED
    BY <2>2, <2>3
<1>2. ASSUME NEW here \in Restore, NEW f \in Files, NEW there \in Restore,
             RestoreFile(p, here, f, there)
      PROVE  TypeInv'
  <2>1. mem[p].snap \in Snapshots
    BY <1>m, <1>2 DEF RestoreFile, LocalsOf, HasSnap
  <2>2. mem[p].snap.files[f] \in FileVals
    BY <2>1 DEF Snapshots
  <2>3. DataType'
    BY <1>2, <1>f, <2>2 DEF RestoreFile, RestoredFile, DataType
  <2> QED
    BY <1>2, <1>c, <1>k, <1>d, <1>e, <2>1, <2>3, GotoType DEF RestoreFile
<1>3. CASE RestoreKey(p)
  <2>1. mem[p].snap \in Snapshots
    BY <1>m, <1>3 DEF RestoreKey, LocalsOf, HasSnap, Restore
  <2>2. PICK k \in Keys :
          /\ live' = [live EXCEPT ![k] = mem[p].snap.sysctls[k]] \/ live' = live
          /\ Goto(p, "restoreKeys", Did(p, k)) \/ Goto(p, "restoreKeys", Erred(Did(p, k)))
    BY <1>3, <1>m DEF RestoreKey, NextKey, Mem
  <2>3. mem[p].snap.sysctls[k] \in Vals
    BY <2>1 DEF Snapshots
  <2>4. DataType'
    BY <1>3, <1>f, <2>2, <2>3 DEF RestoreKey, DataType
  <2> QED
    BY <1>c, <1>k, <1>d, <1>e, <2>1, <2>2, <2>4, GotoType DEF Restore
<1>4. CASE VerifyRestored(p)
  <2>1. DataType'
    BY <1>4, <1>f DEF VerifyRestored, DataType
  <2> QED
    BY <1>4, <1>r, <2>1, ReturnType DEF VerifyRestored
<1> QED
  BY <1>1, <1>2, <1>3, <1>4 DEF Restore, Files

(* Signals, crashes and the other users of the host.                       *)
LEMMA EnvironmentType ==
  ASSUME TypeInv,
         (\E p \in Proc : Cancel(p) \/ Kill(p)) \/ Reboot \/ OthersChangeHost
  PROVE  TypeInv'
<1> USE DEF TypeInv
<1>f. faults' \in 0..MaxFaults
  <2>1. \E kind \in FaultKinds : Fault(kind)
    BY DEF Cancel, Kill, Reboot, OthersChangeHost, FaultKinds
  <2> QED
    BY <2>1, FaultType
<1>1. ASSUME NEW p \in Proc, Cancel(p) PROVE TypeInv'
  BY <1>1, <1>f DEF Cancel, ControlInv, DataType
<1>2. ASSUME NEW p \in Proc, Kill(p) PROVE TypeInv'
  <2>1. DataType'
    BY <1>2, <1>f DEF Kill, DataType
  <2> QED
    BY <1>2, <2>1, ReturnType DEF Kill, Results
<1>3. CASE Reboot
  <2>1. live' \in [Keys -> Vals]
    <3>1. CASE file["sysctl"] \in Rendered
      BY <1>3, <3>1 DEF Reboot, Rendered
    <3>2. CASE file["sysctl"] \notin Rendered
      BY <1>3, <3>2, ValsAssumption DEF Reboot
    <3> QED
      BY <3>1, <3>2
  <2>2. DataType'
    BY <1>3, <1>f, <2>1 DEF Reboot, DataType
  <2>3. LocalsOf("idle", Blank)
    BY DEF LocalsOf, HasPlan, HasSnap, Prepare, Modify, Restore
  <2>4. result' \in [Proc -> Results]
    BY <1>3 DEF Reboot, ControlInv, Results
  <2>5. ControlInv'
    BY <1>3, <2>3, <2>4, BlankType DEF Reboot, ControlInv, Calls
  <2> QED
    BY <2>2, <2>5
<1>4. CASE OthersChangeHost
  <2>1. ControlInv'
    BY <1>4 DEF OthersChangeHost, ControlInv
  <2>2. DataType'
    BY <1>4, <1>f DEF OthersChangeHost, DataType, FileVals
  <2> QED
    BY <2>1, <2>2
<1> QED
  BY <1>1, <1>2, <1>3, <1>4

LEMMA TypeNext == TypeInv /\ [Next]_vars => TypeInv'
<1> SUFFICES ASSUME TypeInv, [Next]_vars PROVE TypeInv'
  OBVIOUS
<1>1. ASSUME NEW p \in Proc, Step(p) PROVE TypeInv'
  BY <1>1, UnlockedType, PrepareType, ModifyType, RestoreType DEF Step
<1>2. CASE UNCHANGED vars
  BY <1>2 DEF vars, TypeInv, ControlInv, DataType
<1> QED
  BY <1>1, <1>2, BeginType, EnvironmentType DEF Next

(* Type correctness: in every reachable state the shared files, the        *)
(* sysctls and the locals of every invocation have their types; in         *)
(* particular a plan never holds an empty value.                           *)
THEOREM TypeCorrect == Spec => []TypeOK
<1>1. TypeInv => TypeOK
  BY DEF TypeInv, ControlInv, DataType, TypeOK
<1> QED
  BY <1>1, TypeInit, TypeNext, PTL DEF Spec

-----------------------------------------------------------------------------
(* Mutual exclusion.                                                       *)

(* A step to a call on the same side of the lock.                          *)
LEMMA GotoMutex ==
  ASSUME ControlInv, MutualExclusion, NEW p \in Proc, NEW call, NEW m,
         pc[p] \in Locked <=> call \in Locked, Goto(p, call, m)
  PROVE  MutualExclusion'
BY DEF ControlInv, MutualExclusion, Goto

(* releaseLock on return frees the lock exactly when the process held it.  *)
LEMMA ReturnMutex ==
  ASSUME ControlInv, MutualExclusion, NEW p \in Proc, NEW r, Return(p, r)
  PROVE  MutualExclusion'
<1>1. "idle" \notin Locked
  BY DEF Locked, Prepare, Modify, Restore
<1>2. Free \notin Proc
  BY ProcAssumption
<1> QED
  BY <1>1, <1>2 DEF ControlInv, MutualExclusion, Return

LEMMA MutexInit == Init => MutualExclusion
BY ProcAssumption DEF Init, MutualExclusion, Locked, Prepare, Modify, Restore

(* Every step of a process but the flock stays on its side of the lock or  *)
(* returns.                                                                *)
LEMMA MutexStep ==
  ASSUME ControlInv, MutualExclusion, NEW p \in Proc, Step(p)
  PROVE  MutualExclusion'
<1>u. \A call \in Unlocked : call \notin Locked
  BY DEF Unlocked, Locked, Prepare, Modify, Restore
<1>l. Prepare \cup Modify \cup Restore \cup {"readSnapshot"} \subseteq Locked
  BY DEF Locked
<1>1. CASE DetectKey(p) \/ MakePlan(p) \/ NeedsApply(p) \/ VerifyHost(p)
  <2>1. \/ \E r : Return(p, r)
        \/ \E call \in Unlocked : \E m : Goto(p, call, m)
    BY <1>1 DEF DetectKey, MakePlan, NeedsApply, VerifyHost, Unlocked
  <2>2. pc[p] \in Unlocked
    BY <1>1 DEF DetectKey, MakePlan, NeedsApply, VerifyHost, Unlocked
  <2> QED
    BY <1>u, <2>1, <2>2, GotoMutex, ReturnMutex
<1>2. CASE AcquireLock(p)
  <2>1. CASE Return(p, "refused")
    BY <2>1, ReturnMutex
  <2>2. CASE ~Return(p, "refused")
    <3>1. /\ lock = Free
          /\ lock' = p
          /\ \E call \in {"readSnapshot", "modprobe"} : pc' = [pc EXCEPT ![p] = call]
      BY <1>2, <2>2 DEF AcquireLock, LockIsFree
    <3>2. \A q \in Proc : pc[q] \notin Locked
      BY <3>1, ProcAssumption DEF MutualExclusion
    <3>3. {"readSnapshot", "modprobe"} \subseteq Locked
      BY DEF Locked, Prepare
    <3> QED
      BY <3>1, <3>2, <3>3 DEF ControlInv, MutualExclusion
  <2> QED
    BY <2>1, <2>2
<1>3. CASE LoadModule(p) \/ Capture(p) \/ WriteSnapshot(p) \/ WriteLatest(p)
  <2>1. \/ \E r : Return(p, r)
        \/ \E call \in Prepare \cup Modify : \E m : Goto(p, call, m)
    BY <1>3 DEF LoadModule, Capture, WriteSnapshot, WriteLatest, Prepare, Modify
  <2>2. pc[p] \in Prepare
    BY <1>3 DEF LoadModule, Capture, WriteSnapshot, WriteLatest, Prepare
  <2> QED
    BY <1>l, <2>1, <2>2, GotoMutex, ReturnMutex
<1>4. CASE \/ WriteSysctlFile(p) \/ WriteModulesFile(p)
           \/ LoadKey(p) \/ LoadEnds(p) \/ Verify(p)
  <2>1. \/ \E r : Return(p, r)
        \/ \E call \in Modify \cup Restore : \E m : Goto(p, call, m)
    BY <1>4 DEF WriteSysctlFile, WriteModulesFile, LoadKey, LoadEnds, Verify,
                StartRestore, Modify, Restore
  <2>2. pc[p] \in Modify
    BY <1>4 DEF WriteSysctlFile, WriteModulesFile, LoadKey, LoadEnds, Verify, Modify
  <2> QED
    BY <1>l, <2>1, <2>2, GotoMutex, ReturnMutex
<1>5. CASE \/ ReadSnapshot(p)
           \/ RestoreFile(p, "restoreModules", "modules", "restoreSysctl")
           \/ RestoreFile(p, "restoreSysctl", "sysctl", "restoreKeys")
           \/ RestoreKey(p) \/ VerifyRestored(p)
  <2>1. \/ \E r : Return(p, r)
        \/ \E call \in Restore : \E m : Goto(p, call, m)
    BY <1>5 DEF ReadSnapshot, RestoreFile, RestoreKey, VerifyRestored,
                StartRestore, Restore
  <2>2. pc[p] \in Restore \cup {"readSnapshot"}
    BY <1>5 DEF ReadSnapshot, RestoreFile, RestoreKey, VerifyRestored, Restore
  <2> QED
    BY <1>l, <2>1, <2>2, GotoMutex, ReturnMutex
<1> QED
  BY <1>1, <1>2, <1>3, <1>4, <1>5 DEF Step

LEMMA MutexNext ==
  ControlInv /\ MutualExclusion /\ [Next]_vars => MutualExclusion'
<1> SUFFICES ASSUME ControlInv, MutualExclusion, [Next]_vars
             PROVE  MutualExclusion'
  OBVIOUS
<1>i. "idle" \notin Locked
  BY DEF Locked, Prepare, Modify, Restore
<1>1. ASSUME NEW p \in Proc, Begin(p) PROVE MutualExclusion'
  <2>1. /\ pc[p] = "idle"
        /\ \E call \in {"detect", "acquire", "observe"} : pc' = [pc EXCEPT ![p] = call]
        /\ lock' = lock
    BY <1>1 DEF Begin, Start
  <2>2. {"detect", "acquire", "observe"} \cap Locked = {}
    BY DEF Locked, Prepare, Modify, Restore
  <2> QED
    BY <1>i, <2>1, <2>2 DEF ControlInv, MutualExclusion
<1>2. ASSUME NEW p \in Proc, Kill(p) PROVE MutualExclusion'
  BY <1>2, ReturnMutex DEF Kill
<1>3. CASE Reboot
  BY <1>3, <1>i, ProcAssumption DEF Reboot, MutualExclusion
<1>4. CASE UNCHANGED <<pc, lock>>
  BY <1>4 DEF MutualExclusion
<1> QED
  BY <1>1, <1>2, <1>3, <1>4, MutexStep DEF Next, Cancel, OthersChangeHost, vars

(* Mutual exclusion, for any number of concurrent invocations, whichever   *)
(* of them are cancelled or killed and whatever fails: the calls between   *)
(* acquireLock and releaseLock belong to the holder of the flock alone.    *)
THEOREM Exclusive == Spec => []MutualExclusion
<1>1. TypeInv => ControlInv
  BY DEF TypeInv
<1> QED
  BY <1>1, TypeInit, TypeNext, MutexInit, MutexNext, PTL DEF Spec

-----------------------------------------------------------------------------
(* What a process was asked, and where it is.                              *)

(* The local plan is the one made from what Detect saw.                    *)
Planned(m) == m.plan = BuildPlan(m.input, m.seen)

CommandOf(call, m) ==
  /\ call \in {"detect"} \cup HasPlan => m.op \in {"apply", "reconcile"}
  /\ call \in {"acquire"} \cup Restore => m.op # "verify"
  /\ call = "observe" => m.op \in {"verify", "reconcile"}
  /\ call = "needsApply" => m.op = "reconcile"
  /\ call = "readSnapshot" => m.op = "rollback"
  /\ call \in {"acquire"} \cup HasPlan \cup Restore /\ m.op # "rollback" => Planned(m)

CommandInv ==
  \A p \in Proc : /\ pc[p] # "idle" <=> result[p] = "running"
                  /\ CommandOf(pc[p], mem[p])

(* The request is never changed while a command runs, and neither is the   *)
(* plan once it is made, nor what it was made from.                        *)
SameRequest(m, n) == n.op = m.op /\ n.input = m.input /\ n.id = m.id
SameTask(m, n) == SameRequest(m, n) /\ n.plan = m.plan /\ n.seen = m.seen

LEMMA TaskKept ==
  ASSUME NEW m \in Mem
  PROVE  /\ SameTask(m, m)
         /\ SameTask(m, [m EXCEPT !.todo = Keys])
         /\ \A k : SameTask(m, [m EXCEPT !.todo = @ \ {k}])
         /\ SameTask(m, Erred(m))
         /\ SameTask(m, Erred([m EXCEPT !.todo = Keys]))
         /\ \A k : SameTask(m, Erred([m EXCEPT !.todo = @ \ {k}]))
         /\ SameTask(m, [m EXCEPT !.todo = {}, !.failed = FALSE])
         /\ \A s : SameTask(m, [m EXCEPT !.snap = s])
         /\ \A s : SameTask(m, [[m EXCEPT !.snap = s] EXCEPT !.todo = {}, !.failed = FALSE])
         /\ \A k, v : SameRequest(m, [[m EXCEPT !.todo = @ \ {k}] EXCEPT !.seen[k] = v])
         /\ \A q : SameRequest(m, [m EXCEPT !.plan = q])
         /\ \A q : /\ [m EXCEPT !.plan = q].plan = q
                   /\ [m EXCEPT !.plan = q].seen = m.seen
         /\ SameRequest(m, [[m EXCEPT !.todo = Keys] EXCEPT !.seen = Blank.seen])
BY DEF Mem, Erred, SameTask, SameRequest

(* What CommandOf says depends on the task alone.                          *)
LEMMA TaskDecides ==
  ASSUME NEW call, NEW m, NEW n, SameTask(m, n), CommandOf(call, m)
  PROVE  CommandOf(call, n)
BY DEF SameTask, SameRequest, CommandOf, Planned

(* While Detect reads, it depends on the request alone.                    *)
LEMMA RequestDecides ==
  ASSUME NEW call \in {"detect", "observe"}, NEW m, NEW n, SameRequest(m, n),
         m.op \in (IF call = "detect" THEN {"apply", "reconcile"} ELSE {"verify", "reconcile"})
  PROVE  CommandOf(call, n)
BY DEF SameRequest, CommandOf, HasPlan, Prepare, Modify, Restore

(* A step of a command goes on with the same request, or returns.          *)
GoesOn(p) ==
  \E call \in Calls \ {"idle"} : \E m :
    /\ Goto(p, call, m)
    /\ SameRequest(mem[p], m)
    /\ CommandOf(call, m)

TakesLock(p) ==
  /\ pc[p] = "acquire"
  /\ lock = Free /\ lock' = p
  /\ pc' = [pc EXCEPT ![p] = IF mem[p].op = "rollback" THEN "readSnapshot" ELSE "modprobe"]
  /\ UNCHANGED <<mem, result, live, file, snaps, latest>>

Returns(p) == \E r \in Results \ {"running"} : Return(p, r)

LEMMA RestoreGoesOn ==
  ASSUME NEW p \in Proc, NEW m, SameTask(mem[p], [m EXCEPT !.todo = {}, !.failed = FALSE]),
         CommandOf("restoreModules", mem[p]), StartRestore(p, m)
  PROVE  GoesOn(p)
<1> DEFINE n == [m EXCEPT !.todo = {}, !.failed = FALSE]
<1>1. CommandOf("restoreModules", n)
  BY TaskDecides
<1>2. Goto(p, "restoreModules", n)
  BY DEF StartRestore
<1>3. SameRequest(mem[p], n)
  BY DEF SameTask
<1> QED
  BY <1>1, <1>2, <1>3 DEF GoesOn, Calls, Locked, Restore

LEMMA StepForm ==
  ASSUME TypeInv, CommandInv, NEW p \in Proc, Step(p)
  PROVE  GoesOn(p) \/ TakesLock(p) \/ Returns(p)
<1>m. mem[p] \in Mem /\ LocalsOf(pc[p], mem[p]) /\ CommandOf(pc[p], mem[p])
  BY DEF TypeInv, ControlInv, CommandInv
<1>r. \A r \in {"refused", "unchanged", "applied", "reverted", "restored", "dirty",
                "verified", "drifted"} : Return(p, r) => Returns(p)
  BY DEF Returns, Results
<1>g. ASSUME NEW call \in Calls \ {"idle"}, NEW m, Goto(p, call, m), SameTask(mem[p], m),
             CommandOf(call, mem[p])
      PROVE  GoesOn(p)
  BY <1>g, TaskDecides DEF GoesOn, SameTask
<1>c. Calls \ {"idle"} = Unlocked \cup Locked
  BY DEF Calls, Unlocked, Locked, Prepare, Modify, Restore
<1>1. CASE DetectKey(p)
  <2>1. PICK k \in mem[p].todo :
            \/ Goto(p, pc[p], [Did(p, k) EXCEPT !.seen[k] = live[k]])
            \/ Goto(p, pc[p], Did(p, k))
    BY <1>1 DEF DetectKey
  <2> DEFINE m == [Did(p, k) EXCEPT !.seen[k] = live[k]]
  <2>2. pc[p] \in Calls \ {"idle"}
    BY <1>1 DEF DetectKey, Calls, Unlocked
  <2>3. SameRequest(mem[p], m) /\ SameRequest(mem[p], Did(p, k))
    BY <1>m, TaskKept, Zenon DEF Did, SameTask
  <2>4. Goto(p, pc[p], m) \/ Goto(p, pc[p], Did(p, k))
    BY <2>1
  <2> HIDE DEF m
  <2>5. /\ pc[p] \in {"detect", "observe"}
        /\ mem[p].op \in (IF pc[p] = "detect" THEN {"apply", "reconcile"}
                                              ELSE {"verify", "reconcile"})
    BY <1>1, <1>m DEF DetectKey, CommandOf
  <2>6. CommandOf(pc[p], m) /\ CommandOf(pc[p], Did(p, k))
    BY <2>3, <2>5, RequestDecides
  <2> QED
    BY <2>2, <2>3, <2>4, <2>6 DEF GoesOn
<1>2. CASE MakePlan(p)
  <2> DEFINE q == BuildPlan(mem[p].input, mem[p].seen)
             m == [mem[p] EXCEPT !.plan = q]
             call == IF mem[p].op = "apply" THEN "acquire" ELSE "needsApply"
  <2>1. CASE Goto(p, call, m)
    <3>1. SameRequest(mem[p], m) /\ m.plan = q /\ m.seen = mem[p].seen
      BY <1>m, TaskKept
    <3>2. Planned(m)
      BY <1>m, <3>1 DEF Planned, Mem, SameRequest
    <3>3. CommandOf(call, m)
      BY <1>2, <1>m, <3>1, <3>2 DEF MakePlan, CommandOf, SameRequest, HasPlan, Prepare, Modify, Restore
    <3>4. call \in Calls \ {"idle"}
      BY DEF Calls, Unlocked
    <3> QED
      BY <2>1, <3>1, <3>3, <3>4 DEF GoesOn
  <2> QED
    BY <1>2, <1>r, <2>1 DEF MakePlan
<1>3. CASE NeedsApply(p)
  <2>1. CommandOf("acquire", mem[p])
    BY <1>3, <1>m DEF NeedsApply, CommandOf, HasPlan, Prepare, Modify, Restore
  <2>2. CommandOf("observe", mem[p])
    BY <1>3, <1>m DEF NeedsApply, CommandOf, HasPlan, Prepare, Modify, Restore
  <2>3. SameTask(mem[p], mem[p]) /\ SameRequest(mem[p], Unseen(p))
    BY <1>m, TaskKept, Zenon DEF Unseen, Loop
  <2>6. CommandOf("observe", Unseen(p))
    BY <2>2, <2>3, RequestDecides DEF CommandOf
  <2>4. "acquire" \in Calls \ {"idle"} /\ "observe" \in Calls \ {"idle"}
    BY DEF Calls, Unlocked
  <2>5. \/ Goto(p, "acquire", mem[p]) \/ Goto(p, "observe", Unseen(p))
        \/ Return(p, "refused")
    BY <1>3 DEF NeedsApply
  <2> QED
    BY <1>g, <1>r, <2>1, <2>3, <2>4, <2>5, <2>6 DEF GoesOn
<1>4. CASE VerifyHost(p)
  <2>1. \/ \E ok : Return(p, Verdict(p, ok))
        \/ Return(p, "refused")
    BY <1>4 DEF VerifyHost
  <2> QED
    BY <1>r, <2>1 DEF Verdict
<1>5. CASE AcquireLock(p)
  BY <1>5, <1>r DEF AcquireLock, LockIsFree, TakesLock
<1>h. {"capture", "writeSnapshot", "writeLatest", "writeSysctl", "writeModules", "load",
       "verify", "restoreSysctl", "restoreKeys"} \subseteq Calls \ {"idle"}
  BY DEF Calls, Locked, Prepare, Modify, Restore
<1>k. ASSUME pc[p] \in HasPlan, NEW call \in Prepare \cup Modify \cup Restore
      PROVE  CommandOf(call, mem[p])
  BY <1>m, <1>k DEF CommandOf, HasPlan, Prepare, Modify, Restore
<1>s. ASSUME pc[p] \in HasPlan, StartRestore(p, mem[p])
      PROVE  GoesOn(p)
  <2>1. SameTask(mem[p], [mem[p] EXCEPT !.todo = {}, !.failed = FALSE])
    BY <1>m, TaskKept
  <2>2. CommandOf("restoreModules", mem[p])
    BY <1>k, <1>s DEF Restore
  <2> QED
    BY <1>s, <2>1, <2>2, RestoreGoesOn
<1>6. CASE LoadModule(p) \/ Capture(p) \/ WriteSnapshot(p) \/ WriteLatest(p)
  <2>1. pc[p] \in HasPlan
    BY <1>6 DEF LoadModule, Capture, WriteSnapshot, WriteLatest, HasPlan, Prepare
  <2>2. \/ \E call \in {"capture", "writeLatest", "writeSysctl"} : Goto(p, call, mem[p])
        \/ \E s : Goto(p, "writeSnapshot", [mem[p] EXCEPT !.snap = s])
        \/ Return(p, "refused")
    BY <1>6 DEF LoadModule, Capture, WriteSnapshot, WriteLatest
  <2>3. \A call \in {"capture", "writeSnapshot", "writeLatest", "writeSysctl"} :
          CommandOf(call, mem[p])
    BY <1>k, <2>1 DEF Prepare, Modify
  <2>4. SameTask(mem[p], mem[p]) /\ \A s : SameTask(mem[p], [mem[p] EXCEPT !.snap = s])
    BY <1>m, TaskKept
  <2> QED
    BY <1>g, <1>h, <1>r, <2>2, <2>3, <2>4
<1>7. CASE \/ WriteSysctlFile(p) \/ WriteModulesFile(p)
           \/ LoadKey(p) \/ LoadEnds(p) \/ Verify(p)
  <2>1. pc[p] \in HasPlan
    BY <1>7 DEF WriteSysctlFile, WriteModulesFile, LoadKey, LoadEnds, Verify, HasPlan, Modify
  <2>2. \/ \E call \in {"writeModules", "verify"} : Goto(p, call, mem[p])
        \/ Goto(p, "load", Loop(p))
        \/ \E k : Goto(p, "load", Did(p, k)) \/ Goto(p, "load", Erred(Did(p, k)))
        \/ StartRestore(p, mem[p])
        \/ Return(p, "applied")
    BY <1>7 DEF WriteSysctlFile, WriteModulesFile, LoadKey, LoadEnds, Verify
  <2>3. \A call \in {"writeModules", "load", "verify"} : CommandOf(call, mem[p])
    BY <1>k, <2>1 DEF Prepare, Modify
  <2>4. /\ SameTask(mem[p], mem[p]) /\ SameTask(mem[p], Loop(p))
        /\ \A k : SameTask(mem[p], Did(p, k)) /\ SameTask(mem[p], Erred(Did(p, k)))
    BY <1>m, TaskKept, Zenon DEF Loop, Did
  <2> QED
    BY <1>g, <1>h, <1>r, <1>s, <2>1, <2>2, <2>3, <2>4
<1>8. CASE ReadSnapshot(p)
  <2>1. CASE \E s : StartRestore(p, [mem[p] EXCEPT !.snap = s])
    <3>1. PICK s : StartRestore(p, [mem[p] EXCEPT !.snap = s])
      BY <2>1
    <3> DEFINE m == [mem[p] EXCEPT !.snap = s]
    <3>2. SameTask(mem[p], [m EXCEPT !.todo = {}, !.failed = FALSE])
      BY <1>m, TaskKept, Zenon
    <3>3. CommandOf("restoreModules", mem[p])
      BY <1>8, <1>m DEF ReadSnapshot, CommandOf, HasPlan, Prepare, Modify, Restore
    <3> QED
      BY <3>1, <3>2, <3>3, RestoreGoesOn
  <2> QED
    BY <1>8, <1>r, <2>1 DEF ReadSnapshot
<1>9. CASE \/ RestoreFile(p, "restoreModules", "modules", "restoreSysctl")
           \/ RestoreFile(p, "restoreSysctl", "sysctl", "restoreKeys")
           \/ RestoreKey(p) \/ VerifyRestored(p)
  <2>1. pc[p] \in Restore
    BY <1>9 DEF RestoreFile, RestoreKey, VerifyRestored, Restore
  <2>2. \/ \E call \in {"restoreSysctl", "restoreKeys"} :
             Goto(p, call, Loop(p)) \/ Goto(p, call, Erred(Loop(p)))
        \/ \E k : Goto(p, "restoreKeys", Did(p, k)) \/ Goto(p, "restoreKeys", Erred(Did(p, k)))
        \/ \E r \in {"restored", "reverted", "dirty"} : Return(p, r)
    BY <1>9 DEF RestoreFile, RestoreKey, VerifyRestored
  <2>3. \A call \in {"restoreSysctl", "restoreKeys"} : CommandOf(call, mem[p])
    BY <1>m, <2>1 DEF CommandOf, HasPlan, Prepare, Modify, Restore
  <2>4. /\ SameTask(mem[p], Loop(p)) /\ SameTask(mem[p], Erred(Loop(p)))
        /\ \A k : SameTask(mem[p], Did(p, k)) /\ SameTask(mem[p], Erred(Did(p, k)))
    BY <1>m, TaskKept, Zenon DEF Loop, Did
  <2> QED
    BY <1>g, <1>h, <1>r, <2>2, <2>3, <2>4
<1> QED
  BY <1>1, <1>2, <1>3, <1>4, <1>5, <1>6, <1>7, <1>8, <1>9 DEF Step

(* Only a command that runs makes a step.                                  *)
LEMMA StepRuns ==
  ASSUME CommandInv, NEW p \in Proc, Step(p)
  PROVE  pc[p] # "idle" /\ result[p] = "running" /\ CommandOf(pc[p], mem[p])
<1>1. pc[p] # "idle"
  BY DEF Step, DetectKey, MakePlan, NeedsApply, VerifyHost, AcquireLock, LoadModule, Capture,
         WriteSnapshot, WriteLatest, WriteSysctlFile, WriteModulesFile, LoadKey, LoadEnds,
         Verify, ReadSnapshot, RestoreFile, RestoreKey, VerifyRestored
<1> QED
  BY <1>1 DEF CommandInv

LEMMA CommandInit == Init => CommandInv
BY ResultAssumption DEF Init, CommandInv, CommandOf, HasPlan, Prepare, Modify, Restore

LEMMA CommandNext == TypeInv /\ CommandInv /\ [Next]_vars => CommandInv'
<1> SUFFICES ASSUME TypeInv, CommandInv, [Next]_vars PROVE CommandInv'
  OBVIOUS
<1>i. \A m : CommandOf("idle", m)
  BY DEF CommandOf, HasPlan, Prepare, Modify, Restore
<1>1. ASSUME NEW p \in Proc, Begin(p) PROVE CommandInv'
  <2>1. ASSUME NEW call \in {"detect", "acquire", "observe"}, NEW m, CommandOf(call, m),
               Start(p, call, m)
        PROVE  CommandInv'
    BY <2>1 DEF Start, CommandInv, TypeInv, ControlInv
  <2>2. \A o \in {"apply", "reconcile"}, i \in Inputs :
          CommandOf("detect", [Blank EXCEPT !.op = o, !.input = i, !.todo = Keys])
    BY DEF CommandOf, HasPlan, Prepare, Modify, Restore, Blank
  <2>3. \A i : CommandOf("acquire", [Blank EXCEPT !.op = "rollback", !.id = i])
    BY DEF CommandOf, HasPlan, Prepare, Modify, Restore, Blank
  <2>4. CommandOf("observe", [Blank EXCEPT !.op = "verify", !.todo = Keys])
    BY DEF CommandOf, HasPlan, Prepare, Modify, Restore, Blank
  <2> QED
    BY <1>1, <2>1, <2>2, <2>3, <2>4, Zenon DEF Begin
<1>2. ASSUME NEW p \in Proc, NEW r \in Results \ {"running"}, Return(p, r)
      PROVE  CommandInv'
  BY <1>2, <1>i DEF Return, CommandInv, TypeInv, ControlInv
<1>3. ASSUME NEW p \in Proc, Step(p) PROVE CommandInv'
  <2>p. pc[p] # "idle" /\ result[p] = "running" /\ CommandOf(pc[p], mem[p])
    BY <1>3, StepRuns
  <2>1. CASE GoesOn(p)
    BY <2>1, <2>p DEF GoesOn, Goto, CommandInv, TypeInv, ControlInv
  <2>2. CASE TakesLock(p)
    <3>1. CommandOf(IF mem[p].op = "rollback" THEN "readSnapshot" ELSE "modprobe", mem[p])
      BY <2>2, <2>p DEF TakesLock, CommandOf, HasPlan, Prepare, Modify, Restore, TypeInv, ControlInv, Mem, Ops
    <3> QED
      BY <2>2, <2>p, <3>1 DEF TakesLock, CommandInv, TypeInv, ControlInv
  <2> QED
    BY <1>2, <1>3, <2>1, <2>2, StepForm DEF Returns
<1>4. CASE Reboot
  BY <1>4, <1>i DEF Reboot, CommandInv
<1>5. CASE UNCHANGED <<pc, mem, result>>
  BY <1>5 DEF CommandInv
<1>6. ASSUME NEW p \in Proc, Kill(p) PROVE CommandInv'
  BY <1>2, <1>6 DEF Kill, Results
<1> QED
  BY <1>1, <1>3, <1>4, <1>5, <1>6 DEF Next, Cancel, OthersChangeHost, vars
=============================================================================
