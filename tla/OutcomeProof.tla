---------------------------- MODULE OutcomeProof ----------------------------
(***************************************************************************)
(* What the commands of Manager leave behind, under the circumstances for  *)
(* which the README of sshappy-tune promises it: what reconcile finds and  *)
(* changes when one invocation runs at a time, what a failed Apply leaves  *)
(* after a single failure, and what a rollback brings back when nothing    *)
(* failed.  Sysctls, inputs, snapshots and commands are any number; so are *)
(* the invocations of the last two parts.                                  *)
(***************************************************************************)
EXTENDS LastChange, RecoveryProof

-----------------------------------------------------------------------------
(* One invocation at a time, on a host nobody else changes.                *)

Alone == /\ \A p, q \in Proc : p = q
         /\ Faults \cap {"drift", "interfere"} = {}

LEMMA SeenInit == Init => \A p \in Proc : SeenInv(p)
BY DEF Init, SeenInv, Early, Unlocked, Prepare

LEMMA SeenNext ==
  ASSUME Alone, KnownInv, \A p \in Proc : SeenInv(p), [Next]_vars, NEW p \in Proc
  PROVE  SeenInv(p)'
<1> USE DEF KnownInv, TypeInv
<1>1. CASE Begin(p)
  BY <1>1, BeginsWith, SeenBegins DEF Begin
<1>2. CASE Step(p)
  BY <1>2, SeenStep
<1>3. CASE Kill(p)
  BY <1>3, Arrives, SeenOver DEF Kill
<1>4. CASE Reboot
  BY <1>4, SeenOver DEF Reboot
<1>5. CASE Cancel(p) \/ UNCHANGED vars
  BY <1>5, SeenKept DEF Cancel, vars
<1>6. ~OthersChangeHost
  BY DEF OthersChangeHost, Fault, Alone
<1> QED
  BY <1>1, <1>2, <1>3, <1>4, <1>5, <1>6 DEF Next, Alone

-----------------------------------------------------------------------------
(* Reconcile, and what Apply does to a backlog.                            *)

AloneInv == KnownInv /\ \A p \in Proc : SeenInv(p)

LEMMA AloneAlways ==
  ASSUME Alone
  PROVE  Spec => []AloneInv
<1>1. Init => AloneInv
  BY KnownInit, SeenInit DEF AloneInv
<1>2. "interfere" \notin Faults
  BY DEF Alone
<1>3. AloneInv /\ [Next]_vars => AloneInv'
  BY <1>2, KnownNext, SeenNext DEF AloneInv
<1> QED
  BY <1>1, <1>3, PTL DEF Spec

(* Reconcile takes a snapshot, the first step towards changing the host,   *)
(* only if some sysctl or some managed file is not as planned.             *)
THEOREM ReconcileHasReason ==
  ASSUME Alone
  PROVE  Spec => ReconcileNeedsDrift
<1> DEFINE Good(p) ==
      /\ mem[p].op = "reconcile" /\ \A k \in Keys : mem[p].seen[k] # None
      /\ pc[p] = "writeSnapshot" /\ snaps' # snaps
      => Host # Target(mem[p].plan)
<1>1. ASSUME AloneInv, NEW p \in Proc, mem[p].op = "reconcile",
             \A k \in Keys : mem[p].seen[k] # None, pc[p] = "writeSnapshot"
      PROVE  Host # Target(mem[p].plan)
  <2>1. Fresh(p) /\ Drift(p)
    BY <1>1 DEF AloneInv, SeenInv, Early, Unlocked, Prepare
  <2>2. \A k \in Keys : live[k] = mem[p].seen[k]
    BY <1>1, <2>1 DEF Fresh
  <2>3. (\E k \in Keys : live[k] # mem[p].plan.sysctls[k]) \/ file # Target(mem[p].plan).files
    BY <2>1, <2>2 DEF Drift
  <2>4. Host.sysctls = live /\ Host.files = file
        /\ Target(mem[p].plan).sysctls = mem[p].plan.sysctls
    BY DEF Host, Target
  <2> QED
    BY <2>3, <2>4
<1>2. AloneInv /\ [Next]_vars => [\A p \in Proc : Good(p)]_vars
  BY <1>1
<1> QED
  BY <1>2, AloneAlways, PTL DEF Spec, ReconcileNeedsDrift

(* Apply never lowers a backlog whose value it could read, even if it      *)
(* fails, is killed or loses its host to a reboot half way.                *)
THEOREM BacklogRaised ==
  ASSUME Alone
  PROVE  Spec => BacklogNeverLowered
<1> DEFINE Good(p, k) ==
      pc[p] = "load" /\ mem[p].seen[k] # None /\ live'[k] # live[k] => live'[k] > live[k]
<1>1. ASSUME AloneInv, [Next]_vars, NEW p \in Proc, NEW k \in Backlog, pc[p] = "load",
             mem[p].seen[k] # None, live'[k] # live[k]
      PROVE  live'[k] > live[k]
  <2> USE DEF KnownInv, TypeInv
  <2>1. /\ KnownInv /\ k \in Keys /\ Loading(p) /\ live \in [Keys -> Vals]
        /\ file = Target(mem[p].plan).files
    BY <1>1, KeysAssumption DEF AloneInv, SeenInv, DataType, HonestInv, AppliedInv
  <2>2. /\ mem[p].plan \in Plans /\ mem[p].input \in Inputs
        /\ mem[p].seen \in [Keys -> Vals \cup {None}]
        /\ mem[p].plan = BuildPlan(mem[p].input, mem[p].seen)
    BY <1>1, <2>1, PlanInUse DEF HasPlan, Modify
  <2>3. file["sysctl"] = RenderSysctl(mem[p].plan)
    BY <2>1 DEF Target, Files
  <2>4. file["sysctl"] \in Rendered /\ file["sysctl"].values = mem[p].plan.sysctls
    BY <2>2, <2>3, RenderType DEF RenderSysctl
  <2>5. live'[k] = mem[p].plan.sysctls[k]
    <3>1. ASSUME Step(p) PROVE live'[k] = mem[p].plan.sysctls[k]
      <4>1. LoadKey(p)
        BY <1>1, <3>1
        DEF Step, DetectKey, MakePlan, NeedsApply, VerifyHost, AcquireLock, LoadModule,
            Capture, WriteSnapshot, WriteLatest, WriteSysctlFile, WriteModulesFile, LoadEnds,
            Verify, ReadSnapshot, RestoreFile, RestoreKey, VerifyRestored
      <4>2. PICK j \in Keys :
              live' = live \/ live' = [live EXCEPT ![j] = file["sysctl"].values[j]]
        BY <4>1 DEF LoadKey
      <4> QED
        BY <1>1, <2>1, <2>4, <4>2
    <3>2. ASSUME Reboot PROVE live'[k] = mem[p].plan.sysctls[k]
      BY <2>4, <3>2 DEF Reboot
    <3>3. ~OthersChangeHost
      BY DEF OthersChangeHost, Fault, Alone
    <3>4. live' # live
      BY <1>1
    <3> QED
      BY <1>1, <3>1, <3>2, <3>3, <3>4 DEF Next, Alone, Begin, Cancel, Kill, vars
  <2>6. live[k] = mem[p].seen[k]
    BY <1>1, <2>1, <2>5 DEF Loading
  <2>7. live'[k] >= live[k]
    BY <1>1, <2>2, <2>5, <2>6, PlanRaises
  <2>8. live[k] \in Nat /\ live'[k] \in Nat
    BY <2>1, <2>2, <2>5, ValsAssumption DEF Plans
  <2> QED
    BY <1>1, <2>7, <2>8
<1>2. AloneInv /\ [Next]_vars => [\A p \in Proc, k \in Backlog : Good(p, k)]_vars
  BY <1>1
<1> QED
  BY <1>2, AloneAlways, PTL DEF Spec, BacklogNeverLowered

(* Reconciling is idempotent: a command that ended with "applied" or       *)
(* "unchanged" leaves a host for which the same input gives a plan that    *)
(* changes nothing, whatever the sysctls were and whichever of them are    *)
(* recommended from their current value.                                   *)
THEOREM ReconcileIdempotent ==
  ASSUME Alone
  PROVE  Spec => Idempotent
<1> DEFINE Good(p) ==
      Ends(p, "applied") \/ Ends(p, "unchanged")
        => Host' = Target(BuildPlan(mem[p].plan.input, live'))
<1>1. ASSUME AloneInv, [Next]_vars, NEW p \in Proc PROVE Good(p)
  <2>1. KnownInv /\ TypeInv
    BY <1>1 DEF AloneInv, KnownInv
  <2>2. CASE Ends(p, "unchanged")
    <3>1. pc[p] = "observe" /\ mem[p].op = "reconcile" /\ UNCHANGED <<live, file>>
      BY <1>1, <2>1, <2>2, EndsUnchanged
    <3>2. Settled(p)
      BY <1>1, <3>1 DEF AloneInv, SeenInv
    <3>3. live = mem[p].plan.sysctls
      BY <3>2 DEF Settled, Host, Target
    <3> QED
      BY <3>1, <3>2, <3>3 DEF Settled, Host
  <2> QED
    BY <1>1, <2>1, <2>2, AppliedAgain
<1>2. AloneInv /\ [Next]_vars => [\A p \in Proc : Good(p)]_vars
  BY <1>1
<1> QED
  BY <1>2, AloneAlways, PTL DEF Spec, Idempotent

-----------------------------------------------------------------------------
(* An Apply without a fault succeeds.                                      *)

(* captureSnapshot refused what atomicWrite could not replace.             *)
Regular(p) ==
  pc[p] \in HasSnap /\ mem[p].op # "rollback"
    => \A f \in Files : file[f] # Irregular /\ mem[p].snap.files[f] # Irregular

(* No error is on record before sysctl -p runs.                            *)
Clean(p) == pc[p] \notin Restore \cup {"load", "verify"} => ~mem[p].failed

(* sysctl -p has met no error and assigned what it has come to.            *)
Flawless(p) ==
  /\ pc[p] = "load" => /\ ~mem[p].failed
                       /\ \A k \in Keys \ mem[p].todo : live[k] = mem[p].plan.sysctls[k]
  /\ pc[p] = "verify" => live = mem[p].plan.sysctls

LEMMA CleanStep ==
  ASSUME KnownInv, NEW p \in Proc, Clean(p), Step(p)
  PROVE  Clean(p)'
<1> USE DEF KnownInv, TypeInv
<1> USE Arrives
<1>m. mem[p] \in Mem
  BY DEF ControlInv
<1>i. \A r : Return(p, r) => ~mem'[p].failed
  BY DEF Return, ControlInv, Blank
<1>u. ASSUME pc[p] \in {"detect", "needsApply", "observe", "acquire"} \cup Prepare
                        \cup {"writeSysctl", "writeModules"}
      PROVE  ~mem[p].failed
  BY <1>u DEF Clean, Prepare, Restore
<1>1. CASE DetectKey(p)
  <2>1. PICK k : mem'[p] \in {Did(p, k), [Did(p, k) EXCEPT !.seen[k] = live[k]]}
    BY <1>1 DEF DetectKey
  <2>2. Did(p, k).failed = mem[p].failed
        /\ [Did(p, k) EXCEPT !.seen[k] = live[k]].failed = mem[p].failed
    BY <1>m DEF Did, Mem
  <2>3. ~mem[p].failed
    BY <1>1, <1>u DEF DetectKey
  <2> QED
    BY <2>1, <2>2, <2>3 DEF Clean
<1>2. CASE MakePlan(p) \/ NeedsApply(p) \/ VerifyHost(p) \/ AcquireLock(p)
  <2>1. ~mem[p].failed
    BY <1>2, <1>u DEF MakePlan, NeedsApply, VerifyHost, AcquireLock
  <2>2. \/ \E r : Return(p, r)
        \/ mem'[p] \in {mem[p], Unseen(p),
                        [mem[p] EXCEPT !.plan = BuildPlan(mem[p].input, mem[p].seen)]}
    BY <1>2, VerifyHostEnds DEF MakePlan, NeedsApply, AcquireLock
  <2>3. /\ Unseen(p).failed = mem[p].failed
        /\ [mem[p] EXCEPT !.plan = BuildPlan(mem[p].input, mem[p].seen)].failed = mem[p].failed
    BY <1>m DEF Unseen, Loop, Mem
  <2> QED
    BY <1>i, <2>1, <2>2, <2>3 DEF Clean
<1>3. CASE \/ LoadModule(p) \/ Capture(p) \/ WriteSnapshot(p) \/ WriteLatest(p)
           \/ WriteSysctlFile(p) \/ WriteModulesFile(p)
  <2>1. ~mem[p].failed
    BY <1>3, <1>u DEF LoadModule, Capture, WriteSnapshot, WriteLatest, WriteSysctlFile,
                      WriteModulesFile, Prepare
  <2>2. \/ \E r : Return(p, r)
        \/ mem'[p] \in {mem[p], Loop(p)}
        \/ \E t : mem'[p] = [mem[p] EXCEPT !.snap = t]
        \/ pc'[p] = "restoreModules"
    BY <1>3 DEF LoadModule, Capture, WriteSnapshot, WriteLatest, WriteSysctlFile,
                WriteModulesFile
  <2>3. Loop(p).failed = mem[p].failed /\ \A t : [mem[p] EXCEPT !.snap = t].failed = mem[p].failed
    BY <1>m DEF Loop, Mem
  <2> QED
    BY <1>i, <2>1, <2>2, <2>3 DEF Clean, Restore
<1>4. CASE LoadKey(p) \/ LoadEnds(p) \/ Verify(p)
  <2>1. pc'[p] \in {"load", "verify", "restoreModules"} \/ \E r : Return(p, r)
    BY <1>4 DEF LoadKey, LoadEnds, Verify
  <2> QED
    BY <1>i, <2>1 DEF Clean, Restore
<1>5. CASE ReadSnapshot(p) \/ RestoreKey(p) \/ VerifyRestored(p)
  <2>1. pc'[p] \in {"restoreModules", "restoreKeys"} \/ \E r : Return(p, r)
    BY <1>5 DEF ReadSnapshot, RestoreKey, VerifyRestored
  <2> QED
    BY <1>i, <2>1 DEF Clean, Restore
<1>6. CASE \/ RestoreFile(p, "restoreModules", "modules", "restoreSysctl")
           \/ RestoreFile(p, "restoreSysctl", "sysctl", "restoreKeys")
  <2>1. pc'[p] \in {"restoreSysctl", "restoreKeys"}
    BY <1>6 DEF RestoreFile
  <2> QED
    BY <2>1 DEF Clean, Restore
<1> QED
  BY <1>1, <1>2, <1>3, <1>4, <1>5, <1>6 DEF Step

LEMMA CleanNext ==
  ASSUME KnownInv, \A p \in Proc : Clean(p), [Next]_vars, NEW p \in Proc
  PROVE  Clean(p)'
<1> USE DEF KnownInv, TypeInv
<1>k. ASSUME mem'[p] = mem[p], pc'[p] = pc[p] PROVE Clean(p)'
  BY <1>k DEF Clean
<1>i. ASSUME mem'[p] = Blank PROVE Clean(p)'
  BY <1>i DEF Clean, Blank
<1>1. ASSUME NEW q \in Proc, Begin(q) PROVE Clean(p)'
  <2>1. \E call, m : Start(q, call, m) /\ ~m.failed
    <3>1. /\ \A o, i : ~[Blank EXCEPT !.op = o, !.input = i, !.todo = Keys].failed
          /\ \A i : ~[Blank EXCEPT !.op = "rollback", !.id = i].failed
          /\ ~[Blank EXCEPT !.op = "verify", !.todo = Keys].failed
      BY DEF Blank
    <3> QED
      BY <1>1, <3>1, Zenon DEF Begin
  <2> QED
    BY <1>k, <2>1 DEF Start, ControlInv, Clean
<1>2. ASSUME NEW q \in Proc, Step(q), q # p PROVE Clean(p)'
  BY <1>2, <1>k, OthersStay
<1>3. ASSUME NEW q \in Proc, Kill(q) PROVE Clean(p)'
  BY <1>3, <1>i, <1>k DEF Kill, Return, ControlInv
<1>4. CASE Reboot
  BY <1>4, <1>i DEF Reboot
<1>5. CASE UNCHANGED <<pc, mem>>
  BY <1>5, <1>k
<1> QED
  BY <1>1, <1>2, <1>3, <1>4, <1>5, CleanStep DEF Next, Cancel, OthersChangeHost, vars

(* No step but those of Capture and those after it touches what Regular    *)
(* speaks of.                                                              *)
LEMMA RegularStep ==
  ASSUME KnownInv, NEW p \in Proc, Regular(p), Step(p)
  PROVE  Regular(p)'
<1> USE DEF KnownInv, TypeInv
<1> USE Arrives
<1>m. mem[p] \in Mem /\ LocalsOf(pc[p], mem[p]) /\ CommandOf(pc[p], mem[p])
  BY DEF ControlInv, CommandInv
<1>i. ASSUME pc'[p] \notin HasSnap PROVE Regular(p)'
  BY <1>i DEF Regular
<1>k. ASSUME pc[p] \in HasSnap, mem'[p].snap = mem[p].snap, mem'[p].op = mem[p].op,
             \A f \in Files : \/ file'[f] \in {file[f], ModulesLine, mem[p].snap.files[f]}
                              \/ file'[f] \in Rendered
      PROVE  Regular(p)'
  BY <1>k, FilesAssumption DEF Regular
<1>h. {"idle", "detect", "needsApply", "acquire", "observe", "readSnapshot", "modprobe",
       "capture"} \cap HasSnap = {}
  BY DEF HasSnap, Modify, Restore
<1>s. \A m \in Mem : StartRestore(p, m) => /\ mem'[p].snap = m.snap
                                           /\ mem'[p].op = m.op
  BY ArrivesRestore
<1>l. /\ Loop(p).snap = mem[p].snap /\ Loop(p).op = mem[p].op
      /\ Erred(Loop(p)).snap = mem[p].snap /\ Erred(Loop(p)).op = mem[p].op
  BY <1>m DEF Loop, Erred, Mem
<1>d. \A k : /\ Did(p, k).snap = mem[p].snap /\ Did(p, k).op = mem[p].op
             /\ Erred(Did(p, k)).snap = mem[p].snap /\ Erred(Did(p, k)).op = mem[p].op
  BY <1>m DEF Did, Erred, Mem
<1>1. CASE DetectKey(p) \/ MakePlan(p) \/ NeedsApply(p) \/ VerifyHost(p) \/ AcquireLock(p)
  <2>1. pc'[p] \in {"idle", "detect", "needsApply", "acquire", "observe", "readSnapshot",
                    "modprobe"}
    BY <1>1, VerifyHostEnds DEF DetectKey, MakePlan, NeedsApply, AcquireLock, ControlInv
  <2> QED
    BY <1>h, <1>i, <2>1
<1>2. CASE LoadModule(p)
  <2>1. pc'[p] \in {"idle", "capture"}
    BY <1>2 DEF LoadModule
  <2> QED
    BY <1>h, <1>i, <2>1
<1>3. CASE Capture(p)
  <2>1. CASE Return(p, "refused")
    BY <1>h, <1>i, <2>1
  <2>2. CASE ~Return(p, "refused")
    <3>1. PICK i : /\ \A f \in Files : file[f] # Irregular
                   /\ mem'[p] = [mem[p] EXCEPT !.snap =
                                   [id |-> i, sysctls |-> live, files |-> file]]
                   /\ file' = file
      BY <1>3, <2>2 DEF Capture
    <3>2. mem'[p].snap.files = file
      BY <1>m, <3>1 DEF Mem
    <3> QED
      BY <3>1, <3>2 DEF Regular
  <2> QED
    BY <2>1, <2>2
<1>4. CASE WriteSnapshot(p) \/ WriteLatest(p)
  <2>1. pc[p] \in HasSnap /\ file' = file
    BY <1>4 DEF WriteSnapshot, WriteLatest, HasSnap
  <2>2. pc'[p] = "idle" \/ mem'[p] = mem[p]
    BY <1>4 DEF WriteSnapshot, WriteLatest
  <2> QED
    BY <1>h, <1>i, <1>k, <2>1, <2>2
<1>5. CASE WriteSysctlFile(p) \/ WriteModulesFile(p)
  <2>1. pc[p] \in HasSnap /\ mem[p].plan \in Plans
    BY <1>5, <1>m DEF WriteSysctlFile, WriteModulesFile, HasSnap, HasPlan, Modify, LocalsOf
  <2>2. mem'[p].snap = mem[p].snap /\ mem'[p].op = mem[p].op
    BY <1>5, <1>l, <1>m, <1>s DEF WriteSysctlFile, WriteModulesFile
  <2>3. RenderSysctl(mem[p].plan) \in Rendered
    BY <2>1, RenderType
  <2>4. \A f \in Files : file'[f] \in {file[f], ModulesLine} \/ file'[f] \in Rendered
    BY <1>5, <2>3 DEF WriteSysctlFile, WriteModulesFile, DataType, Files
  <2> QED
    BY <1>k, <2>1, <2>2, <2>4
<1>6. CASE LoadKey(p) \/ LoadEnds(p)
  <2>1. pc[p] \in HasSnap /\ file' = file
    BY <1>6 DEF LoadKey, LoadEnds, HasSnap, Modify
  <2>2. mem'[p].snap = mem[p].snap /\ mem'[p].op = mem[p].op
    <3>1. \/ \E k : mem'[p] \in {Did(p, k), Erred(Did(p, k))}
          \/ mem'[p] = mem[p]
          \/ StartRestore(p, mem[p])
      BY <1>6 DEF LoadKey, LoadEnds
    <3> QED
      BY <1>d, <1>m, <1>s, <3>1
  <2> QED
    BY <1>k, <2>1, <2>2
<1>7. CASE Verify(p)
  <2>1. pc[p] \in HasSnap /\ file' = file
    BY <1>7 DEF Verify, HasSnap, Modify
  <2>2. pc'[p] = "idle" \/ (mem'[p].snap = mem[p].snap /\ mem'[p].op = mem[p].op)
    BY <1>7, <1>m, <1>s DEF Verify
  <2> QED
    BY <1>h, <1>i, <1>k, <2>1, <2>2
<1>8. CASE ReadSnapshot(p)
  <2>1. CASE pc'[p] = "idle"
    BY <1>h, <1>i, <2>1
  <2>2. CASE pc'[p] # "idle"
    <3>1. PICK t : /\ t \in Snapshots /\ StartRestore(p, [mem[p] EXCEPT !.snap = t])
      BY <1>8, <1>m, <2>2 DEF ReadSnapshot, DataType, Mem
    <3>2. [mem[p] EXCEPT !.snap = t] \in Mem /\ [mem[p] EXCEPT !.snap = t].op = mem[p].op
      BY <1>m, <3>1 DEF Mem
    <3>3. mem'[p].op = mem[p].op
      BY <1>s, <3>1, <3>2
    <3>4. mem[p].op = "rollback"
      BY <1>8, <1>m DEF ReadSnapshot, CommandOf
    <3> QED
      BY <3>3, <3>4 DEF Regular
  <2> QED
    BY <2>1, <2>2
<1>9. ASSUME NEW here \in Restore, NEW f0 \in Files, NEW there, RestoreFile(p, here, f0, there)
      PROVE  Regular(p)'
  <2>1. pc[p] \in HasSnap
    BY <1>9 DEF RestoreFile, HasSnap
  <2>2. mem'[p].snap = mem[p].snap /\ mem'[p].op = mem[p].op
    BY <1>9, <1>l DEF RestoreFile
  <2>3. \A f \in Files : file'[f] \in {file[f], mem[p].snap.files[f]}
    BY <1>9 DEF RestoreFile, RestoredFile, DataType
  <2> QED
    BY <1>k, <2>1, <2>2, <2>3
<1>10. CASE RestoreKey(p)
  <2>1. pc[p] \in HasSnap /\ file' = file
    BY <1>10 DEF RestoreKey, HasSnap, Restore
  <2>2. \E k : mem'[p] \in {Did(p, k), Erred(Did(p, k))}
    BY <1>10 DEF RestoreKey
  <2> QED
    BY <1>d, <1>k, <2>1, <2>2
<1>11. CASE VerifyRestored(p)
  BY <1>11, <1>h, <1>i DEF VerifyRestored
<1> QED
  BY <1>1, <1>2, <1>3, <1>4, <1>5, <1>6, <1>7, <1>8, <1>9, <1>10, <1>11
  DEF Step, Restore, Files

LEMMA RegularNext ==
  ASSUME "interfere" \notin Faults, KnownInv, \A p \in Proc : Regular(p), [Next]_vars,
         NEW p \in Proc
  PROVE  Regular(p)'
<1>1. CASE pc'[p] \notin HasSnap
  BY <1>1 DEF Regular
<1>2. CASE pc'[p] \in HasSnap
  <2>1. pc'[p] \in Locked
    BY <1>2 DEF HasSnap, Locked, Prepare
  <2>2. Step(p) \/ Undisturbed(p)
    BY <2>1, Isolation DEF KnownInv, TypeInv
  <2>3. CASE Undisturbed(p)
    BY <2>3 DEF Undisturbed, Regular
  <2> QED
    BY <2>2, <2>3, RegularStep
<1> QED
  BY <1>1, <1>2

(* A fault counts, and the count never goes back.                          *)
LEMMA FaultsCount ==
  ASSUME DataType, NEW kind
  PROVE  /\ faults \in Nat /\ MaxFaults \in Nat /\ faults <= MaxFaults
         /\ NoFault => faults' = faults
         /\ Fault(kind) => faults' = faults + 1 /\ faults < MaxFaults /\ ~NoFault
BY FaultsAssumption DEF DataType, NoFault, Fault

LEMMA StepCounts ==
  ASSUME NEW p \in Proc, Step(p)
  PROVE  NoFault \/ \E kind : Fault(kind)
BY DEF Step, DetectKey, MakePlan, NeedsApply, VerifyHost, AcquireLock, LoadModule, Capture,
       WriteSnapshot, WriteLatest, WriteSysctlFile, WriteModulesFile, LoadKey, LoadEnds,
       Verify, ReadSnapshot, RestoreFile, RestoreKey, VerifyRestored, CmdOk, CmdFails,
       WriteFails

(* A step of Apply under which nothing fails goes on with Apply, and the   *)
(* last one returns success.                                               *)
LEMMA FlawlessStep ==
  ASSUME KnownInv, cancelled = {}, NEW p \in Proc, Clean(p), Regular(p), Flawless(p),
         Step(p), NoFault
  PROVE  /\ Flawless(p)'
         /\ pc[p] \in Modify => pc'[p] \in Modify \/ Return(p, "applied")
<1> USE DEF KnownInv, TypeInv
<1> USE Arrives
<1>f. \A kind : ~Fault(kind)
  BY FaultsCount
<1>m. mem[p] \in Mem /\ LocalsOf(pc[p], mem[p]) /\ CommandOf(pc[p], mem[p])
  BY DEF ControlInv, CommandInv
<1>c. p \notin cancelled
  OBVIOUS
<1>o. pc[p] \in Modify => mem[p].plan \in Plans /\ mem[p].op # "rollback"
  BY <1>m DEF LocalsOf, HasPlan
<1>g. pc[p] \in Modify => \A f \in Files : file[f] # Irregular
  BY <1>o DEF Regular, HasSnap
<1>k. pc[p] \in {"load", "verify"} =>
        file["sysctl"] \in Rendered /\ file["sysctl"].values = mem[p].plan.sysctls
  <2> SUFFICES ASSUME pc[p] \in {"load", "verify"}
               PROVE  file["sysctl"] \in Rendered /\ file["sysctl"].values = mem[p].plan.sysctls
    OBVIOUS
  <2>1. file = Target(mem[p].plan).files
    BY DEF HonestInv, AppliedInv
  <2>2. file["sysctl"] = RenderSysctl(mem[p].plan)
    BY <2>1 DEF Target, Files
  <2> QED
    BY <1>o, <2>2, RenderType DEF RenderSysctl, Modify
<1>d. \A k : Did(p, k).failed = mem[p].failed /\ Did(p, k).plan = mem[p].plan
             /\ Did(p, k).todo = mem[p].todo \ {k}
  BY <1>m DEF Did, Mem
<1>1. CASE WriteSysctlFile(p)
  <2>1. pc'[p] = "writeModules" /\ pc[p] = "writeSysctl"
    BY <1>1, <1>f, <1>g DEF WriteSysctlFile, WriteFails, Modify, Files
  <2> QED
    BY <2>1 DEF Flawless, Modify
<1>2. CASE WriteModulesFile(p)
  <2>1. pc'[p] = "load" /\ pc[p] = "writeModules" /\ mem'[p] = Loop(p)
    BY <1>2, <1>f, <1>g DEF WriteModulesFile, WriteFails, Modify, Files
  <2>2. Loop(p).todo = Keys /\ Loop(p).failed = mem[p].failed
    BY <1>m DEF Loop, Mem
  <2>3. ~mem[p].failed
    BY <2>1 DEF Clean, Restore
  <2> QED
    BY <2>1, <2>2, <2>3 DEF Flawless, Modify
<1>3. CASE LoadKey(p)
  <2>1. PICK k \in Keys :
          /\ pc[p] = "load" /\ pc'[p] = "load" /\ mem'[p] = Did(p, k)
          /\ live' = [live EXCEPT ![k] = file["sysctl"].values[k]]
    BY <1>3, <1>f DEF LoadKey
  <2>2. \A j \in Keys \ mem'[p].todo : live'[j] = mem'[p].plan.sysctls[j]
    BY <1>d, <1>k, <2>1 DEF Flawless, DataType
  <2> QED
    BY <1>d, <2>1, <2>2 DEF Flawless, Modify
<1>4. CASE LoadEnds(p)
  <2>1. /\ pc[p] = "load" /\ pc'[p] = "verify" /\ mem'[p] = mem[p] /\ mem[p].todo = {}
        /\ live' = live
    BY <1>4, <1>c, <1>f, <1>k, FilesAssumption DEF LoadEnds, Flawless
  <2>2. \A j \in Keys : live[j] = mem[p].plan.sysctls[j]
    BY <2>1 DEF Flawless
  <2>3. live = mem[p].plan.sysctls
    BY <1>o, <2>1, <2>2 DEF DataType, Plans, Modify
  <2> QED
    BY <2>1, <2>3 DEF Flawless, Modify
<1>5. CASE Verify(p)
  <2>1. pc[p] = "verify" /\ live = mem[p].plan.sysctls
    BY <1>5 DEF Verify, Flawless
  <2>2. Return(p, "applied")
    BY <1>5, <1>c, <1>f, <2>1 DEF Verify, CmdFails, VerifyMaps
  <2> QED
    BY <2>2 DEF Flawless
<1>6. CASE ReadSnapshot(p) \/ RestoreKey(p) \/ VerifyRestored(p)
  <2>1. pc[p] \notin Modify /\ pc'[p] \in {"idle", "restoreModules", "restoreKeys"}
    BY <1>6 DEF ReadSnapshot, RestoreKey, VerifyRestored, Modify
  <2> QED
    BY <2>1 DEF Flawless
<1>7. CASE \/ RestoreFile(p, "restoreModules", "modules", "restoreSysctl")
           \/ RestoreFile(p, "restoreSysctl", "sysctl", "restoreKeys")
  <2>1. pc[p] \notin Modify /\ pc'[p] \in {"restoreSysctl", "restoreKeys"}
    BY <1>7 DEF RestoreFile, Modify
  <2> QED
    BY <2>1 DEF Flawless
<1>8. CASE DetectKey(p) \/ MakePlan(p) \/ NeedsApply(p) \/ VerifyHost(p) \/ AcquireLock(p)
  <2>1. pc'[p] \in {"idle", "detect", "needsApply", "acquire", "observe", "readSnapshot",
                    "modprobe"}
    BY <1>8, VerifyHostEnds DEF DetectKey, MakePlan, NeedsApply, AcquireLock, ControlInv
  <2>2. pc[p] \in Unlocked
    BY <1>8 DEF DetectKey, MakePlan, NeedsApply, VerifyHost, AcquireLock, Unlocked
  <2> QED
    BY <2>1, <2>2 DEF Flawless, Unlocked, Modify
<1>9. CASE LoadModule(p) \/ Capture(p) \/ WriteSnapshot(p) \/ WriteLatest(p)
  <2>1. pc'[p] \in Prepare \cup {"idle", "writeSysctl"}
    BY <1>9 DEF LoadModule, Capture, WriteSnapshot, WriteLatest, Prepare
  <2>2. pc[p] \in Prepare
    BY <1>9 DEF LoadModule, Capture, WriteSnapshot, WriteLatest, Prepare
  <2> QED
    BY <2>1, <2>2 DEF Flawless, Prepare, Modify
<1> QED
  BY <1>1, <1>2, <1>3, <1>4, <1>5, <1>6, <1>7, <1>8, <1>9 DEF Step

-----------------------------------------------------------------------------
(* A single failure.                                                       *)

(* At most one thing goes wrong, and nobody interrupts or interferes.      *)
OneFault == /\ MaxFaults <= 1
            /\ Faults \cap {"cancel", "interfere"} = {}

(* A failed Apply spent the fault; restoreSnapshot has met none.           *)
Undoing(p) ==
  pc[p] \in Restore /\ mem[p].op # "rollback"
    => /\ faults = MaxFaults
       /\ ~mem[p].failed
       /\ pc[p] = "restoreKeys"
            => \A k \in Keys \ mem[p].todo : live[k] = mem[p].snap.sysctls[k]

FaultInv(p) ==
  /\ Clean(p) /\ Regular(p)
  /\ faults < MaxFaults => Flawless(p)
  /\ Undoing(p)

OneFaultInv == KnownInv /\ cancelled = {} /\ \A p \in Proc : FaultInv(p)

LEMMA UndoingStep ==
  ASSUME OneFault, KnownInv, cancelled = {}, NEW p \in Proc, FaultInv(p), Step(p)
  PROVE  Undoing(p)'
<1> USE DEF KnownInv, TypeInv
<1> USE Arrives
<1>m. mem[p] \in Mem /\ LocalsOf(pc[p], mem[p]) /\ CommandOf(pc[p], mem[p])
  BY DEF ControlInv, CommandInv
<1>i. ASSUME pc'[p] \notin Restore PROVE Undoing(p)'
  BY <1>i DEF Undoing
<1>h. {"idle", "detect", "needsApply", "acquire", "observe", "readSnapshot", "modprobe",
       "capture", "writeSnapshot", "writeLatest", "writeSysctl", "writeModules", "load",
       "verify"} \cap Restore = {}
  BY DEF Restore
<1>1. CASE DetectKey(p) \/ MakePlan(p) \/ NeedsApply(p) \/ VerifyHost(p) \/ AcquireLock(p)
  <2>1. pc'[p] \in {"idle", "detect", "needsApply", "acquire", "observe", "readSnapshot",
                    "modprobe"}
    BY <1>1, VerifyHostEnds DEF DetectKey, MakePlan, NeedsApply, AcquireLock, ControlInv
  <2> QED
    BY <1>h, <1>i, <2>1
<1>2. CASE LoadModule(p) \/ Capture(p) \/ WriteSnapshot(p) \/ WriteLatest(p)
  <2>1. pc'[p] \in Prepare \cup {"idle", "writeSysctl"}
    BY <1>2 DEF LoadModule, Capture, WriteSnapshot, WriteLatest, Prepare
  <2> QED
    BY <1>h, <1>i, <2>1 DEF Prepare
<1>3. CASE \/ WriteSysctlFile(p) \/ WriteModulesFile(p)
           \/ LoadKey(p) \/ LoadEnds(p) \/ Verify(p)
  <2>1. pc[p] \in Modify
    BY <1>3 DEF WriteSysctlFile, WriteModulesFile, LoadKey, LoadEnds, Verify, Modify
  <2>2. pc'[p] \in Modify \cup {"idle"} \/ StartRestore(p, mem[p])
    BY <1>3 DEF WriteSysctlFile, WriteModulesFile, LoadKey, LoadEnds, Verify, Modify
  <2>3. CASE pc'[p] \in Modify \cup {"idle"}
    BY <1>h, <1>i, <2>3 DEF Modify
  <2>4. CASE StartRestore(p, mem[p])
    <3>1. pc'[p] = "restoreModules" /\ pc'[p] \notin Modify \cup {"idle"}
      BY <2>4 DEF Modify
    <3>2. mem'[p] = [mem[p] EXCEPT !.todo = {}, !.failed = FALSE]
      BY <2>4 DEF StartRestore
    <3>3. ~mem'[p].failed
      BY <1>m, <3>2 DEF Mem
    <3>4. faults' = MaxFaults
      <4>1. faults \in Nat /\ MaxFaults \in Nat /\ faults <= MaxFaults /\ MaxFaults <= 1
        BY FaultsCount DEF OneFault
      <4>2. CASE NoFault /\ faults < MaxFaults
        BY <2>1, <3>1, <4>2, FlawlessStep DEF FaultInv
      <4>3. CASE NoFault /\ ~(faults < MaxFaults)
        BY <4>1, <4>3, FaultsCount
      <4>4. CASE \E kind : Fault(kind)
        BY <4>1, <4>4, FaultsCount
      <4> QED
        BY <4>2, <4>3, <4>4, StepCounts
    <3> QED
      BY <3>1, <3>3, <3>4 DEF Undoing
  <2> QED
    BY <2>2, <2>3, <2>4
<1>4. CASE ReadSnapshot(p)
  <2>1. CASE pc'[p] = "idle"
    BY <1>h, <1>i, <2>1
  <2>2. CASE pc'[p] # "idle"
    <3>1. PICK t : /\ t \in Snapshots /\ StartRestore(p, [mem[p] EXCEPT !.snap = t])
      BY <1>4, <1>m, <2>2 DEF ReadSnapshot, DataType, Mem
    <3>2. [mem[p] EXCEPT !.snap = t] \in Mem /\ [mem[p] EXCEPT !.snap = t].op = mem[p].op
      BY <1>m, <3>1 DEF Mem
    <3>3. mem'[p].op = mem[p].op
      BY <3>1, <3>2, ArrivesRestore
    <3>4. mem[p].op = "rollback"
      BY <1>4, <1>m DEF ReadSnapshot, CommandOf
    <3> QED
      BY <3>3, <3>4 DEF Undoing
  <2> QED
    BY <2>1, <2>2
<1>5. CASE VerifyRestored(p)
  BY <1>5, <1>h, <1>i DEF VerifyRestored
<1>6. ASSUME NEW here \in Restore, NEW f \in Files, NEW there \in Restore,
             RestoreFile(p, here, f, there)
      PROVE  Undoing(p)'
  <2>1. pc[p] \in Restore /\ mem'[p] \in {Loop(p), Erred(Loop(p))}
    BY <1>6 DEF RestoreFile
  <2>2. /\ Loop(p).op = mem[p].op /\ Erred(Loop(p)).op = mem[p].op
        /\ Loop(p).failed = mem[p].failed /\ Loop(p).todo = Keys
    BY <1>m DEF Loop, Erred, Mem
  <2>3. CASE mem[p].op = "rollback"
    BY <2>1, <2>2, <2>3 DEF Undoing
  <2>4. CASE mem[p].op # "rollback"
    <3>1. faults = MaxFaults /\ ~mem[p].failed /\ file[f] # Irregular
      BY <2>1, <2>4 DEF FaultInv, Undoing, Regular, HasSnap
    <3>2. \A kind : ~Fault(kind)
      BY <3>1, FaultsCount
    <3>3. faults' = faults /\ mem'[p] = Loop(p)
      BY <1>6, <3>1, <3>2 DEF RestoreFile, WriteFails, NoFault
    <3> QED
      BY <2>2, <3>1, <3>3 DEF Undoing
  <2> QED
    BY <2>3, <2>4
<1>7. CASE RestoreKey(p)
  <2>1. PICK k \in Keys :
          /\ pc[p] = "restoreKeys"
          /\ \/ /\ CmdOk(p) /\ live' = [live EXCEPT ![k] = mem[p].snap.sysctls[k]]
                /\ Goto(p, "restoreKeys", Did(p, k))
             \/ Fault("ignore") /\ Goto(p, "restoreKeys", Did(p, k))
             \/ CmdFails(p) /\ Goto(p, "restoreKeys", Erred(Did(p, k)))
    BY <1>7 DEF RestoreKey
  <2>2. /\ Did(p, k).op = mem[p].op /\ Erred(Did(p, k)).op = mem[p].op
        /\ Did(p, k).failed = mem[p].failed /\ Did(p, k).todo = mem[p].todo \ {k}
        /\ Did(p, k).snap = mem[p].snap
    BY <1>m DEF Did, Erred, Mem
  <2>3. CASE mem[p].op = "rollback"
    <3>1. mem'[p] \in {Did(p, k), Erred(Did(p, k))}
      BY <2>1
    <3> QED
      BY <2>2, <2>3, <3>1 DEF Undoing
  <2>4. CASE mem[p].op # "rollback"
    <3>1. /\ faults = MaxFaults /\ ~mem[p].failed
          /\ \A j \in Keys \ mem[p].todo : live[j] = mem[p].snap.sysctls[j]
      BY <2>1, <2>4 DEF FaultInv, Undoing, Restore
    <3>2. \A kind : ~Fault(kind)
      BY <3>1, FaultsCount
    <3>3. /\ faults' = faults /\ mem'[p] = Did(p, k)
          /\ live' = [live EXCEPT ![k] = mem[p].snap.sysctls[k]]
      BY <2>1, <3>2 DEF CmdOk, CmdFails, NoFault
    <3>4. \A j \in Keys \ mem'[p].todo : live'[j] = mem'[p].snap.sysctls[j]
      BY <2>2, <3>1, <3>3 DEF DataType
    <3> QED
      BY <2>2, <3>1, <3>3, <3>4 DEF Undoing
  <2> QED
    BY <2>3, <2>4
<1> QED
  BY <1>1, <1>2, <1>3, <1>4, <1>5, <1>6, <1>7 DEF Step, Restore, Files

(* Contexts are only cancelled by a signal.                                *)
LEMMA NeverCancelled ==
  ASSUME "cancel" \notin Faults, cancelled = {}, [Next]_vars
  PROVE  cancelled' = {}
<1>1. ASSUME NEW p \in Proc, Step(p) PROVE cancelled' = {}
  BY <1>1 DEF Step, DetectKey, MakePlan, NeedsApply, VerifyHost, AcquireLock, LoadModule,
     Capture, WriteSnapshot, WriteLatest, WriteSysctlFile, WriteModulesFile, LoadKey,
     LoadEnds, Verify, ReadSnapshot, RestoreFile, RestoreKey, VerifyRestored, StartRestore,
     Goto, Return
<1>2. ASSUME NEW p \in Proc PROVE ~Cancel(p)
  BY DEF Cancel, Fault
<1> QED
  BY <1>1, <1>2 DEF Next, Begin, Kill, Return, Reboot, OthersChangeHost, vars

LEMMA CountGrows ==
  ASSUME DataType, [Next]_vars
  PROVE  faults' >= faults
<1>1. (\E kind : Fault(kind)) \/ faults' = faults
  BY StepCounts DEF Next, NoFault, Begin, Cancel, Kill, Reboot, OthersChangeHost, vars
<1> QED
  BY <1>1, FaultsCount

LEMMA OneFaultNext ==
  ASSUME OneFault, OneFaultInv, [Next]_vars
  PROVE  OneFaultInv'
<1> USE DEF OneFaultInv
<1>1. KnownInv'
  BY KnownNext DEF OneFault
<1>2. cancelled' = {}
  BY NeverCancelled DEF OneFault
<1>3. ASSUME NEW p \in Proc PROVE FaultInv(p)'
  <2>1. Clean(p)'
    BY CleanNext DEF FaultInv
  <2>2. Regular(p)'
    BY RegularNext DEF FaultInv, OneFault
  <2>3. faults \in Nat /\ faults' \in Nat /\ faults' <= MaxFaults /\ MaxFaults <= 1
        /\ MaxFaults \in Nat /\ faults' >= faults
    BY <1>1, FaultsCount, CountGrows, FaultsAssumption DEF KnownInv, TypeInv, OneFault, DataType
  <2>4. CASE pc'[p] \notin Locked
    BY <2>1, <2>2, <2>4 DEF FaultInv, Flawless, Undoing, Locked, Modify
  <2>5. CASE pc'[p] \in Locked /\ Undisturbed(p)
    <3>1. /\ pc'[p] = pc[p] /\ mem'[p] = mem[p] /\ live' = live
      BY <2>5 DEF Undisturbed, OneFault
    <3>2. faults' < MaxFaults => Flawless(p)'
      BY <2>3, <3>1 DEF FaultInv, Flawless
    <3>3. Undoing(p)'
      BY <2>3, <3>1 DEF FaultInv, Undoing
    <3> QED
      BY <2>1, <2>2, <3>2, <3>3 DEF FaultInv
  <2>6. CASE Step(p)
    <3>1. faults' < MaxFaults => Flawless(p)'
      <4>1. ASSUME faults' < MaxFaults PROVE NoFault /\ faults < MaxFaults
        BY <2>3, <2>6, <4>1, FaultsCount, StepCounts DEF KnownInv, TypeInv
      <4> QED
        BY <2>6, <4>1, FlawlessStep DEF FaultInv
    <3>2. Undoing(p)'
      BY <2>6, UndoingStep
    <3> QED
      BY <2>1, <2>2, <3>1, <3>2 DEF FaultInv
  <2> QED
    BY <2>4, <2>5, <2>6, Isolation DEF KnownInv, TypeInv
<1> QED
  BY <1>1, <1>2, <1>3

LEMMA OneFaultInit == Init => OneFaultInv
<1>1. Init => \A p \in Proc : FaultInv(p)
  BY DEF Init, FaultInv, Clean, Regular, Flawless, Undoing, HasSnap, Modify, Restore, Blank
<1> QED
  BY <1>1, KnownInit DEF OneFaultInv, Init

(* "reverted" and "dirty" are the statuses of a restoreSnapshot that came  *)
(* to its end.                                                             *)
LEMMA EndsUndone ==
  ASSUME TypeInv, [Next]_vars, NEW p \in Proc, Ends(p, "reverted") \/ Ends(p, "dirty")
  PROVE  pc[p] = "restoreKeys" /\ mem[p].todo = {} /\ UNCHANGED <<live, file>>
<1>1. /\ Step(p)
      /\ \A s : Return(p, s) => s = "reverted" \/ s = "dirty"
      /\ \A call, m : ~Goto(p, call, m)
  BY EndsReturning DEF Results
<1>2. ~AcquireLock(p)
  <2>1. ASSUME AcquireLock(p) PROVE result' = result \/ Return(p, "refused")
    BY <2>1 DEF AcquireLock
  <2> QED
    BY <1>1, <2>1 DEF Ends
<1>3. CASE VerifyRestored(p)
  BY <1>3 DEF VerifyRestored
<1>4. ~Verify(p)
  BY <1>1 DEF Verify, StartRestore
<1>5. ~VerifyHost(p)
  BY <1>1 DEF VerifyHost, Verdict
<1> QED
  BY <1>1, <1>2, <1>3, <1>4, <1>5
  DEF Step, DetectKey, MakePlan, NeedsApply, LoadModule, Capture,
      WriteSnapshot, WriteLatest, WriteSysctlFile, WriteModulesFile, LoadKey, LoadEnds,
      ReadSnapshot, RestoreFile, RestoreKey, StartRestore

(* When only one thing goes wrong - a command, a file operation, an        *)
(* assignment the kernel ignores, a kill, a reboot, a change by someone    *)
(* else between two commands - an Apply that fails after its snapshot has  *)
(* put every sysctl and both files back, whatever other invocations run.   *)
THEOREM FailureUndone ==
  ASSUME OneFault
  PROVE  Spec => FailedApplyReverts
<1> DEFINE Good(p) ==
      mem[p].op # "rollback" /\ (Ends(p, "reverted") \/ Ends(p, "dirty"))
        => Host' = Saved(mem[p].snap)
<1>1. ASSUME OneFaultInv, [Next]_vars, NEW p \in Proc, mem[p].op # "rollback",
             Ends(p, "reverted") \/ Ends(p, "dirty")
      PROVE  Host' = Saved(mem[p].snap)
  <2>1. /\ pc[p] = "restoreKeys" /\ mem[p].todo = {} /\ UNCHANGED <<live, file>>
    BY <1>1, EndsUndone DEF OneFaultInv, KnownInv
  <2>2. ~mem[p].failed /\ \A k \in Keys : live[k] = mem[p].snap.sysctls[k]
    BY <1>1, <2>1 DEF OneFaultInv, FaultInv, Undoing, Restore
  <2>3. live \in [Keys -> Vals] /\ mem[p].snap.sysctls \in [Keys -> Vals]
    BY <1>1, <2>1
    DEF OneFaultInv, KnownInv, TypeInv, ControlInv, DataType, LocalsOf, HasSnap, Restore,
        Snapshots
  <2>4. live = mem[p].snap.sysctls
    BY <2>2, <2>3
  <2>5. file = mem[p].snap.files
    BY <1>1, <2>1, <2>2 DEF OneFaultInv, KnownInv, HonestInv, RestoredInv
  <2> QED
    BY <2>1, <2>4, <2>5 DEF Host, Saved
<1>2. OneFaultInv /\ [Next]_vars => [\A p \in Proc : Good(p)]_vars
  BY <1>1
<1> QED
  BY <1>2, OneFaultInit, OneFaultNext, PTL DEF Spec, FailedApplyReverts

-----------------------------------------------------------------------------
(* No failure: which host a rollback brings back.                          *)

NoFailure == Faults \subseteq {"drift"}

(* The snapshot of an Apply that modifies the host is the latest one.      *)
Pending(p) ==
  pc[p] \in Modify => latest = mem[p].snap.id /\ snaps[latest] = mem[p].snap

BeforeInv ==
  before # None /\ (\A p \in Proc : pc[p] \notin Modify)
    => latest # None /\ snaps[latest] # None /\ Saved(snaps[latest]) = before

LastInv ==
  /\ KnownInv /\ SnapshotInv
  /\ cancelled = {}
  /\ \A p \in Proc : Clean(p) /\ Regular(p) /\ Flawless(p) /\ Pending(p)
  /\ BeforeInv

LEMMA PendingNext ==
  ASSUME NoFailure, KnownInv, SnapshotInv, [Next]_vars, NEW p \in Proc, Pending(p)
  PROVE  Pending(p)'
<1> USE DEF KnownInv, TypeInv
<1> USE Arrives
<1>m. mem[p] \in Mem
  BY DEF ControlInv
<1>i. ASSUME pc'[p] \notin Modify PROVE Pending(p)'
  BY <1>i DEF Pending
<1>l. Loop(p).snap = mem[p].snap /\ \A k : /\ Did(p, k).snap = mem[p].snap
                                           /\ Erred(Did(p, k)).snap = mem[p].snap
  BY <1>m DEF Loop, Did, Erred, Mem
<1>1. CASE Undisturbed(p)
  BY <1>1 DEF Undisturbed, Pending
<1>2. CASE Step(p) /\ pc'[p] = "writeSysctl"
  <2>1. SavesLatest(p)
    <3>1. Captures(p) \/ SavesSnapshot(p) \/ SavesLatest(p)
      BY <1>2, SavingSteps DEF Saving
    <3> QED
      BY <1>2, <3>1 DEF Captures, SavesSnapshot
  <2>2. snaps[mem[p].snap.id] = mem[p].snap
    BY <2>1 DEF SavesLatest, SnapshotInv
  <2> QED
    BY <2>1, <2>2 DEF SavesLatest, Pending
<1>3. CASE Step(p) /\ pc'[p] \in Modify \ {"writeSysctl"}
  <2>1. WriteSysctlFile(p) \/ WriteModulesFile(p) \/ LoadKey(p) \/ LoadEnds(p)
    <3>1. CASE DetectKey(p) \/ MakePlan(p) \/ NeedsApply(p) \/ VerifyHost(p) \/ AcquireLock(p)
      <4>1. pc'[p] \in {"idle", "detect", "needsApply", "acquire", "observe", "readSnapshot",
                        "modprobe"}
        BY <3>1, VerifyHostEnds DEF DetectKey, MakePlan, NeedsApply, AcquireLock, ControlInv
      <4> QED
        BY <1>3, <4>1 DEF Modify
    <3>2. CASE LoadModule(p) \/ Capture(p) \/ WriteSnapshot(p) \/ WriteLatest(p)
      <4>1. pc'[p] \in Prepare \cup {"idle", "writeSysctl"}
        BY <3>2 DEF LoadModule, Capture, WriteSnapshot, WriteLatest, Prepare
      <4> QED
        BY <1>3, <4>1 DEF Prepare, Modify
    <3>3. CASE \/ Verify(p) \/ ReadSnapshot(p) \/ RestoreKey(p) \/ VerifyRestored(p)
               \/ RestoreFile(p, "restoreModules", "modules", "restoreSysctl")
               \/ RestoreFile(p, "restoreSysctl", "sysctl", "restoreKeys")
      <4>1. pc'[p] \in Restore \cup {"idle"}
        BY <3>3 DEF Verify, ReadSnapshot, RestoreKey, VerifyRestored, RestoreFile, Restore
      <4> QED
        BY <1>3, <4>1 DEF Restore, Modify
    <3> QED
      BY <1>3, <3>1, <3>2, <3>3 DEF Step
  <2>2. /\ pc[p] \in Modify /\ UNCHANGED <<snaps, latest>>
        /\ \/ mem'[p] \in {mem[p], Loop(p)}
           \/ \E k : mem'[p] \in {Did(p, k), Erred(Did(p, k))}
           \/ pc'[p] = "restoreModules"
    BY <2>1 DEF WriteSysctlFile, WriteModulesFile, LoadKey, LoadEnds, Modify
  <2>3. mem'[p].snap = mem[p].snap
    BY <1>3, <1>l, <2>2 DEF Modify
  <2> QED
    BY <2>2, <2>3 DEF Pending
<1>4. pc'[p] \in Modify => pc'[p] \in Locked
  BY DEF Locked
<1> QED
  BY <1>1, <1>2, <1>3, <1>4, <1>i, Isolation

(* Drift apart, which cannot happen under the lock, nothing fails.         *)
LEMMA QuietFaults ==
  ASSUME NoFailure, NEW p \in Proc, Step(p)
  PROVE  NoFault \/ VerifyHost(p)
BY DEF NoFailure, Fault, Step, DetectKey, MakePlan, NeedsApply, AcquireLock, LoadModule,
       Capture, WriteSnapshot, WriteLatest, WriteSysctlFile, WriteModulesFile, LoadKey,
       LoadEnds, Verify, ReadSnapshot, RestoreFile, RestoreKey, VerifyRestored, CmdOk,
       CmdFails, WriteFails, NoFault

LEMMA FlawlessNext ==
  ASSUME NoFailure, KnownInv, cancelled = {}, [Next]_vars, NEW p \in Proc, Clean(p),
         Regular(p), Flawless(p)
  PROVE  Flawless(p)'
<1>1. CASE pc'[p] \notin {"load", "verify"}
  BY <1>1 DEF Flawless
<1>2. CASE Undisturbed(p)
  BY <1>2 DEF Undisturbed, Flawless, NoFailure
<1>3. CASE Step(p) /\ NoFault
  BY <1>3, FlawlessStep
<1>4. CASE Step(p) /\ VerifyHost(p)
  <2>1. pc'[p] = "idle"
    BY <1>4, VerifyHostEnds, Arrives DEF KnownInv, TypeInv
  <2> QED
    BY <1>1, <2>1
<1>5. {"load", "verify"} \subseteq Locked
  BY DEF Locked, Modify
<1> QED
  BY <1>1, <1>2, <1>3, <1>4, <1>5, QuietFaults, Isolation DEF KnownInv, TypeInv

(* A process leaves the steps that modify the host by ending well.         *)
LEMMA ModifyEnds ==
  ASSUME NoFailure, KnownInv, cancelled = {}, [Next]_vars, NEW p \in Proc, Clean(p),
         Regular(p), Flawless(p), pc[p] \in Modify, pc'[p] \notin Modify
  PROVE  Ends(p, "applied")
<1> USE DEF KnownInv, TypeInv
<1>1. ASSUME NEW q \in Proc PROVE ~Begin(q)
  BY DEF Begin, Start, ControlInv, Modify
<1>2. ASSUME NEW q \in Proc, Step(q), q # p PROVE FALSE
  BY <1>2, OthersStay
<1>3. ASSUME NEW q \in Proc PROVE ~Kill(q)
  BY DEF Kill, Fault, NoFailure
<1>4. ~Reboot
  BY DEF Reboot, Fault, NoFailure
<1>5. Step(p)
  BY <1>1, <1>2, <1>3, <1>4 DEF Next, Cancel, OthersChangeHost, vars
<1>6. NoFault
  BY <1>5, QuietFaults DEF VerifyHost, Modify
<1>7. Return(p, "applied")
  BY <1>5, <1>6, FlawlessStep
<1>8. result[p] = "running"
  BY <1>5, StepRuns
<1> QED
  BY <1>7, <1>8 DEF Ends, Return, ControlInv

(* Only one process at a time is inside the lock.                          *)
LEMMA OneHolder ==
  ASSUME MutualExclusion, NEW p \in Proc, NEW q \in Proc, pc[p] \in Locked, pc[q] \in Locked
  PROVE  p = q
BY DEF MutualExclusion

LEMMA BeforeNext ==
  ASSUME NoFailure, LastInv, [LNext]_<<vars, before>>
  PROVE  BeforeInv'
<1> USE DEF LastInv, KnownInv, TypeInv
<1>n. [Next]_vars
  BY DEF LNext
<1>m. Modify \cup Saving \subseteq Locked
  BY DEF Modify, Saving, Locked, Prepare
<1>1. CASE \E p \in Proc : Ends(p, "applied")
  <2> DEFINE q == CHOOSE p \in Proc : Ends(p, "applied")
  <2>1. q \in Proc /\ Ends(q, "applied")
    BY <1>1
  <2>2. before' = Saved(mem[q].snap)
    <3>1. ~UNCHANGED vars
      BY <2>1 DEF vars, Ends
    <3> QED
      BY <1>1, <3>1 DEF LNext
  <2> HIDE DEF q
  <2>3. pc[q] = "verify"
    BY <1>n, <2>1, EndsApplied
  <2>4. /\ latest = mem[q].snap.id /\ snaps[latest] = mem[q].snap
        /\ mem[q].snap \in Snapshots
    BY <2>1, <2>3 DEF Pending, ControlInv, LocalsOf, HasSnap, Modify
  <2>5. UNCHANGED <<snaps, latest>>
    <3>1. ASSUME NEW r \in Proc, SavesSnapshot(r) \/ SavesLatest(r) PROVE FALSE
      <4>1. pc[r] \in Saving
        BY <3>1 DEF SavesSnapshot, SavesLatest, Saving
      <4>2. pc[q] \in Modify
        BY <2>3 DEF Modify
      <4>3. r = q
        BY <1>m, <2>1, <4>1, <4>2, OneHolder
      <4> QED
        BY <2>3, <4>1, <4>3 DEF Saving
    <3> QED
      BY <1>n, <3>1, DiskSteps
  <2>6. latest # None /\ snaps[latest] # None
    BY <2>4, NoneAssumption, FilesAssumption DEF Snapshots
  <2> QED
    BY <2>2, <2>4, <2>5, <2>6 DEF BeforeInv
<1>2. CASE ~\E p \in Proc : Ends(p, "applied")
  <2> SUFFICES ASSUME before' # None, \A p \in Proc : pc'[p] \notin Modify
               PROVE  latest' # None /\ snaps'[latest'] # None /\ Saved(snaps'[latest']) = before'
    BY DEF BeforeInv
  <2>1. before' = before
    BY <1>2 DEF LNext
  <2>2. \A p \in Proc : pc[p] \notin Modify
    BY <1>2, <1>n, ModifyEnds
  <2>3. latest # None /\ snaps[latest] # None /\ Saved(snaps[latest]) = before
    BY <2>1, <2>2 DEF BeforeInv
  <2>4. latest \in Ids
    BY <2>3 DEF DataType
  <2>5. snaps'[latest] = snaps[latest]
    BY <1>n, <2>3, <2>4, SnapshotKeptStep
  <2>6. latest' = latest
    <3>1. ASSUME NEW p \in Proc PROVE ~SavesLatest(p)
      BY DEF SavesLatest, Modify
    <3>2. ASSUME NEW p \in Proc, SavesSnapshot(p) PROVE latest' = latest
      BY <3>2 DEF SavesSnapshot
    <3> QED
      BY <1>n, <3>1, <3>2, DiskSteps
  <2> QED
    BY <2>1, <2>3, <2>5, <2>6
<1> QED
  BY <1>1, <1>2

LEMMA LastInit == LInit => LastInv
<1>1. Init => \A p \in Proc : Clean(p) /\ Regular(p) /\ Flawless(p) /\ Pending(p)
  BY DEF Init, Clean, Regular, Flawless, Pending, HasSnap, Modify, Restore, Blank
<1> QED
  BY <1>1, KnownInit, SnapshotInit DEF LInit, LastInv, BeforeInv, Init

LEMMA LastNext ==
  ASSUME NoFailure, LastInv, [LNext]_<<vars, before>>
  PROVE  LastInv'
<1>n. [Next]_vars
  BY DEF LNext
<1>f. "interfere" \notin Faults /\ "cancel" \notin Faults
  BY DEF NoFailure
<1>1. KnownInv' /\ SnapshotInv'
  BY <1>f, <1>n, KnownNext, SnapshotNext DEF LastInv, KnownInv
<1>2. cancelled' = {}
  BY <1>f, <1>n, NeverCancelled DEF LastInv
<1>3. ASSUME NEW p \in Proc
      PROVE  Clean(p)' /\ Regular(p)' /\ Flawless(p)' /\ Pending(p)'
  BY <1>f, <1>n, CleanNext, RegularNext, FlawlessNext, PendingNext DEF LastInv
<1> QED
  BY <1>1, <1>2, <1>3, BeforeNext DEF LastInv

(* With nothing failing, a rollback without --snapshot brings back the     *)
(* host before the last Apply that ended well, whichever invocations ran   *)
(* the two and whatever was changed by hand between them.                  *)
THEOREM LastApplyUndone ==
  ASSUME NoFailure
  PROVE  LSpec => RollbackUndoesLastApply
<1> DEFINE Good(p) ==
      Ends(p, "restored") /\ mem[p].id = None /\ before # None => Host' = before
<1>1. ASSUME LastInv, [Next]_vars, NEW p \in Proc, Ends(p, "restored"), mem[p].id = None,
             before # None
      PROVE  Host' = before
  <2> USE DEF LastInv, KnownInv, TypeInv
  <2>1. /\ pc[p] = "restoreKeys" /\ ~mem[p].failed /\ mem[p].op = "rollback"
        /\ VerifyMaps(live, mem[p].snap.sysctls)
        /\ UNCHANGED <<live, file>>
    BY <1>1, EndsRestored
  <2>2. mem[p].snap.sysctls \in [Keys -> Vals] /\ live \in [Keys -> Vals]
    BY <1>1, <2>1 DEF ControlInv, DataType, LocalsOf, HasSnap, Restore, Snapshots
  <2>3. live = mem[p].snap.sysctls /\ file = mem[p].snap.files
    BY <1>1, <2>1, <2>2, VerifiedEqual DEF HonestInv, RestoredInv
  <2>4. mem[p].snap = snaps[latest]
    BY <1>1, <2>1 DEF HonestInv, LatestInv, Restore
  <2>5. ASSUME NEW q \in Proc PROVE pc[q] \notin Modify
    <3>1. pc[p] \in Locked /\ pc[p] \notin Modify /\ Modify \subseteq Locked
      BY <2>1 DEF Locked, Restore, Modify
    <3> QED
      BY <1>1, <3>1, OneHolder
  <2>6. Saved(snaps[latest]) = before
    BY <1>1, <2>5 DEF BeforeInv
  <2> QED
    BY <2>1, <2>3, <2>4, <2>6 DEF Host, Saved
<1>2. LastInv /\ [LNext]_<<vars, before>> => [\A p \in Proc : Good(p)]_<<vars, before>>
  <2> SUFFICES ASSUME LastInv, [LNext]_<<vars, before>>, NEW p \in Proc
               PROVE  Good(p) \/ UNCHANGED <<vars, before>>
    OBVIOUS
  <2>1. [Next]_vars
    BY DEF LNext
  <2> QED
    BY <1>1, <2>1
<1> QED
  BY <1>2, LastInit, LastNext, PTL DEF LSpec, RollbackUndoesLastApply
=============================================================================
