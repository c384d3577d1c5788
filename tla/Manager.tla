------------------------------- MODULE Manager -------------------------------
(***************************************************************************)
(* The manager of internal/manage: Apply, Rollback, Verify and the         *)
(* reconcile path of internal/cli that decides whether to call Apply or    *)
(* Verify, run by several invocations of the binary at once.               *)
(*                                                                         *)
(* A process of Proc is one invocation.  Each of its steps is one call     *)
(* whose effect another process, a crash or a signal can separate from     *)
(* the next: one sysctl read by Detect, the flock, one file renamed into   *)
(* place, one sysctl assigned.  The snapshot directory, the two files and  *)
(* the live sysctls are shared.  Steps that only read while the lock is    *)
(* held are one step each.                                                 *)
(***************************************************************************)
EXTENDS HostPlan

CONSTANTS
  Proc,       \* invocations of sshappy-tune running as root
  Free,       \* the lock file is not locked
  Faults,     \* the kinds of fault that may occur, a subset of FaultKinds
  InitVals,   \* the values sysctls may have before the tool is first run
  MaxFaults,  \* bound on the number of faults in a behaviour
  MaxOps      \* bound on the number of commands started in a behaviour

(* "cmd": an external command fails.  "fs": a file operation fails.        *)
(* "ignore": the kernel accepts an assignment and keeps the old value.     *)
(* "cancel": SIGINT or SIGTERM cancels the context.  "kill": a process     *)
(* dies.  "reboot": the host restarts.  "drift": someone else changes a    *)
(* sysctl or a file, or unloads tcp_bbr, while no operation holds the      *)
(* lock; "interfere": also while one does.                                 *)
FaultKinds ==
  {"cmd", "fs", "ignore", "cancel", "kill", "reboot", "drift", "interfere"}

ASSUME FaultsAssumption == Faults \subseteq FaultKinds /\ MaxFaults \in Nat
ASSUME ProcAssumption   == Free \notin Proc
ASSUME ResultAssumption == None # "running"
ASSUME BoundAssumption  == MaxOps \in Nat /\ InitVals \subseteq Vals

VARIABLES
  live,       \* the sysctl values in force
  file,       \* the two managed files
  snaps,      \* snapshots/<id>/snapshot.json for every ID, None if absent
  latest,     \* the content of the file "latest", None if absent
  lock,       \* the process holding the flock, or Free
  pc,         \* the call each process makes next
  mem,        \* the local variables of each process
  result,     \* how the last command of each process ended
  cancelled,  \* the processes whose context is cancelled
  torn,       \* history: the host before an operation that has not ended well
  faults,     \* number of faults so far
  ops         \* number of commands started so far

vars == <<live, file, snaps, latest, lock, pc, mem, result, cancelled, torn,
          faults, ops>>

Host == [sysctls |-> live, files |-> file]

-----------------------------------------------------------------------------
(* The local variables of an invocation.                                   *)

Ops == {"apply", "reconcile", "rollback", "verify"}

Mem == [op     : Ops,
        input  : Inputs \cup {None},        \* flags, or the saved profile
        id     : Ids \cup {None},           \* --snapshot; None is "latest"
        seen   : [Keys -> Vals \cup {None}],  \* host.Profile.Sysctls
        plan   : Plans \cup {None},
        snap   : Snapshots \cup {None},     \* the snapshot in memory
        todo   : SUBSET Keys,               \* what the current loop has left
        failed : BOOLEAN]                   \* an error is to be returned

Blank == [op |-> "apply", input |-> None, id |-> None,
          seen |-> [k \in Keys |-> None], plan |-> None, snap |-> None,
          todo |-> {}, failed |-> FALSE]

(* The calls made without the lock, inside it before the host is modified, *)
(* while it is modified, and while a snapshot is restored.                 *)
Unlocked == {"detect", "needsApply", "observe", "acquire"}
Prepare  == {"modprobe", "capture", "writeSnapshot", "writeLatest"}
Modify   == {"writeSysctl", "writeModules", "load", "verify"}
Restore  == {"restoreModules", "restoreSysctl", "restoreKeys"}
Locked   == Prepare \cup Modify \cup Restore \cup {"readSnapshot"}
Calls    == {"idle"} \cup Unlocked \cup Locked

(* How a command ends.  "refused": an error before the host was modified.  *)
(* "reverted": Apply failed and restoreSnapshot returned nil.  "dirty":    *)
(* restoreSnapshot returned an error.  "drifted": verify reports that a     *)
(* critical check failed.                                                  *)
Results == {None, "running", "refused", "unchanged", "applied", "reverted",
            "restored", "dirty", "verified", "drifted", "killed"}

TypeOK ==
  /\ live \in [Keys -> Vals]
  /\ file \in [Files -> FileVals]
  /\ snaps \in [Ids -> Snapshots \cup {None}]
  /\ latest \in Ids \cup {None}
  /\ lock \in Proc \cup {Free}
  /\ pc \in [Proc -> Calls]
  /\ mem \in [Proc -> Mem]
  /\ result \in [Proc -> Results]
  /\ cancelled \in SUBSET Proc
  /\ torn \in HostStates \cup {None}
  /\ faults \in 0..MaxFaults
  /\ ops \in 0..MaxOps

Init ==
  /\ live \in [Keys -> InitVals]
  /\ file \in [Files -> {Absent, Foreign}]
  /\ snaps = [i \in Ids |-> None]
  /\ latest = None
  /\ lock = Free
  /\ pc = [p \in Proc |-> "idle"]
  /\ mem = [p \in Proc |-> Blank]
  /\ result = [p \in Proc |-> None]
  /\ cancelled = {}
  /\ torn = None
  /\ faults = 0
  /\ ops = 0

-----------------------------------------------------------------------------
(* Faults, and the outcome of the commands and file operations.            *)

Fault(kind) ==
  /\ kind \in Faults
  /\ faults < MaxFaults
  /\ faults' = faults + 1

NoFault == UNCHANGED faults

(* runx.ExecRunner.Run: exec.CommandContext starts nothing under a         *)
(* cancelled context and kills a running child.                            *)
CmdOk(p)    == p \notin cancelled /\ NoFault
CmdFails(p) == \/ p \in cancelled /\ NoFault
               \/ Fault("cmd")

(* atomicWrite and os.Remove fail on some of what may be at f (a rename    *)
(* onto a directory) and replace the rest (a symlink).                     *)
WriteFails(f) == \/ file[f] = Irregular /\ NoFault
                 \/ Fault("fs")

-----------------------------------------------------------------------------
(* Control.                                                                *)

Start(p, call, m) ==
  /\ pc' = [pc EXCEPT ![p] = call]
  /\ mem' = [mem EXCEPT ![p] = m]
  /\ result' = [result EXCEPT ![p] = "running"]

Goto(p, call, m) ==
  /\ pc' = [pc EXCEPT ![p] = call]
  /\ mem' = [mem EXCEPT ![p] = m]
  /\ UNCHANGED <<lock, result, cancelled>>

(* The command returns: the deferred releaseLock runs and the process      *)
(* exits with its locals and its context.                                  *)
Return(p, r) ==
  /\ pc' = [pc EXCEPT ![p] = "idle"]
  /\ mem' = [mem EXCEPT ![p] = Blank]
  /\ result' = [result EXCEPT ![p] = r]
  /\ lock' = IF lock = p THEN Free ELSE lock
  /\ cancelled' = cancelled \ {p}

(* sortedKeys: the loop takes the least key left.                          *)
NextKey(p, k) == k \in mem[p].todo /\ \A j \in mem[p].todo : k <= j

Loop(p)    == [mem[p] EXCEPT !.todo = Keys]
Unseen(p)  == [Loop(p) EXCEPT !.seen = Blank.seen]
DidOrRetry(p, k) ==
  IF p \in cancelled THEN mem[p] ELSE [mem[p] EXCEPT !.todo = @ \ {k}]
Did(p, k)  == [mem[p] EXCEPT !.todo = @ \ {k}]
Erred(m)   == [m EXCEPT !.failed = TRUE]

(* restoreSnapshot starts with no errors; its paths are sorted too, so     *)
(* /etc/modules-load.d comes before /etc/sysctl.d.                         *)
StartRestore(p, m) ==
  Goto(p, "restoreModules", [m EXCEPT !.todo = {}, !.failed = FALSE])

-----------------------------------------------------------------------------
(* A command is started.  apply, reconcile and verify begin with Detect,    *)
(* rollback with the lock; without --snapshot it means the latest one.     *)

Begin(p) ==
  /\ pc[p] = "idle"
  /\ ops < MaxOps
  /\ ops' = ops + 1
  /\ \/ \E o \in {"apply", "reconcile"}, i \in Inputs :
          Start(p, "detect", [Blank EXCEPT !.op = o, !.input = i, !.todo = Keys])
     \/ \E i \in Ids \cup {None} :
          Start(p, "acquire", [Blank EXCEPT !.op = "rollback", !.id = i])
     \/ Start(p, "observe", [Blank EXCEPT !.op = "verify", !.todo = Keys])
  /\ UNCHANGED <<live, file, snaps, latest, lock, cancelled, torn, faults>>

(* Detect reads the sysctls one file of /proc at a time, without the lock; *)
(* a key that cannot be read becomes a warning and stays empty.  Verify     *)
(* calls Detect of its own.                                                *)
DetectKey(p) ==
  /\ pc[p] \in {"detect", "observe"}
  /\ \E k \in mem[p].todo :
       \/ NoFault /\ Goto(p, pc[p], [Did(p, k) EXCEPT !.seen[k] = live[k]])
       \/ Fault("fs") /\ Goto(p, pc[p], Did(p, k))
  /\ UNCHANGED <<live, file, snaps, latest, torn, ops>>

(* Detect returns, or fails because uname or ip did; Recommend and         *)
(* BuildPlan compute the plan from what was seen.                          *)
MakePlan(p) ==
  /\ pc[p] = "detect"
  /\ mem[p].todo = {}
  /\ \/ /\ CmdOk(p)
        /\ Goto(p, IF mem[p].op = "apply" THEN "acquire" ELSE "needsApply",
                [mem[p] EXCEPT !.plan = BuildPlan(mem[p].input, mem[p].seen)])
     \/ CmdFails(p) /\ Return(p, "refused")
  /\ UNCHANGED <<live, file, snaps, latest, torn, ops>>

(* NeedsApply compares the plan with the sysctls seen by Detect and with   *)
(* the files as they are now, still without the lock.                      *)
DriftInverted(p) ==
  \/ \E k \in Keys : mem[p].seen[k] # mem[p].plan.sysctls[k]
  \/ file = Target(mem[p].plan).files
DriftOfSysctls(p) == \E k \in Keys : mem[p].seen[k] # mem[p].plan.sysctls[k]
Drift(p) ==
  \/ \E k \in Keys : mem[p].seen[k] # mem[p].plan.sysctls[k]
  \/ file # Target(mem[p].plan).files

NeedsApply(p) ==
  /\ pc[p] = "needsApply"
  /\ \/ /\ NoFault
        /\ IF \E f \in Files : file[f] = Irregular
             THEN Return(p, "refused")
             ELSE IF Drift(p) THEN Goto(p, "acquire", mem[p])
                              ELSE Goto(p, "observe", Unseen(p))
     \/ Fault("fs") /\ Return(p, "refused")
  /\ UNCHANGED <<live, file, snaps, latest, torn, ops>>

(* Verify, for the verify command and for a reconcile that found no drift: *)
(* after Detect it reads the sysctl file as it is by then.  What someone   *)
(* else has put there may or may not parse, and may assign anything; bbr   *)
(* may have been unloaded.  reconcile only prints the verdict.             *)
Verdict(p, ok) ==
  IF mem[p].op = "reconcile" THEN "unchanged" ELSE IF ok THEN "verified" ELSE "drifted"

ObservesAll(p) == \A k \in DOMAIN Builtin : mem[p].seen[k] = Builtin[k]
Observes(p) == VerifyMaps(mem[p].seen, Expected(file["sysctl"]))

VerifyHost(p) ==
  /\ pc[p] = "observe"
  /\ mem[p].todo = {}
  /\ \/ /\ CmdOk(p)
        /\ file["sysctl"] \in Rendered \cup {Absent}
        /\ Return(p, Verdict(p, Observes(p)))
     \/ /\ CmdOk(p)
        /\ file["sysctl"] \notin Rendered \cup {Absent}
        /\ \E ok \in BOOLEAN : Return(p, Verdict(p, ok))
     \/ p \notin cancelled /\ Fault("drift") /\ Return(p, Verdict(p, FALSE))
     \/ /\ \/ CmdFails(p)
           \/ Fault("fs")
           \/ NoFault /\ file["sysctl"] \notin Rendered \cup {Absent}
        /\ Return(p, "refused")
  /\ UNCHANGED <<live, file, snaps, latest, torn, ops>>

-----------------------------------------------------------------------------
(* Apply and Rollback take the lock without waiting for it.                *)

LockIgnored == TRUE
LockIsFree == lock = Free

AcquireLock(p) ==
  /\ pc[p] = "acquire"
  /\ \/ /\ NoFault
        /\ LockIsFree
        /\ lock' = p
        /\ pc' = [pc EXCEPT ![p] =
                    IF mem[p].op = "rollback" THEN "readSnapshot" ELSE "modprobe"]
        /\ UNCHANGED <<mem, result, cancelled>>
     \/ NoFault /\ ~LockIsFree /\ Return(p, "refused")
     \/ Fault("fs") /\ Return(p, "refused")
  /\ UNCHANGED <<live, file, snaps, latest, torn, ops>>

(* modprobe tcp_bbr, then "bbr" must be an available congestion control.   *)
LoadModule(p) ==
  /\ pc[p] = "modprobe"
  /\ \/ CmdOk(p) /\ Goto(p, "capture", mem[p])
     \/ CmdFails(p) /\ Return(p, "refused")
  /\ UNCHANGED <<live, file, snaps, latest, torn, ops>>

(* The ID is the time in nanoseconds, so no two snapshots share one.       *)
CoarseId(i) == TRUE
FreshId(i) == snaps[i] = None

(* captureSnapshot: the sysctls and both files are read into memory; a     *)
(* managed path that is not a regular file is refused.                     *)
Capture(p) ==
  /\ pc[p] = "capture"
  /\ \/ /\ CmdOk(p)
        /\ \A f \in Files : file[f] # Irregular
        /\ \E i \in Ids :
             /\ FreshId(i)
             /\ Goto(p, "writeSnapshot",
                     [mem[p] EXCEPT !.snap =
                        [id |-> i, sysctls |-> live, files |-> file]])
     \/ (CmdFails(p) \/ Fault("fs")) /\ Return(p, "refused")
     \/ NoFault /\ (\E f \in Files : file[f] = Irregular) /\ Return(p, "refused")
  /\ UNCHANGED <<live, file, snaps, latest, torn, ops>>

(* writeSnapshot: the snapshot file first, the pointer to it second.       *)
WriteSnapshotUnchecked(p) ==
  /\ pc[p] = "writeSnapshot"
  /\ \/ NoFault /\ snaps' = [snaps EXCEPT ![mem[p].snap.id] = mem[p].snap]
     \/ Fault("fs") /\ UNCHANGED snaps
  /\ Goto(p, "writeLatest", mem[p])
  /\ UNCHANGED <<live, file, latest, torn, ops>>

WriteSnapshot(p) ==
  /\ pc[p] = "writeSnapshot"
  /\ \/ /\ NoFault
        /\ snaps' = [snaps EXCEPT ![mem[p].snap.id] = mem[p].snap]
        /\ Goto(p, "writeLatest", mem[p])
     \/ Fault("fs") /\ Return(p, "refused") /\ UNCHANGED snaps
  /\ UNCHANGED <<live, file, latest, torn, ops>>

LatestKept(p) == IF latest = None THEN mem[p].snap.id ELSE latest
NewLatest(p) == mem[p].snap.id

WriteLatest(p) ==
  /\ pc[p] = "writeLatest"
  /\ \/ /\ NoFault
        /\ latest' = NewLatest(p)
        /\ torn' = None
        /\ Goto(p, "writeSysctl", mem[p])
     \/ Fault("fs") /\ Return(p, "refused") /\ UNCHANGED <<latest, torn>>
  /\ UNCHANGED <<live, file, snaps, ops>>

-----------------------------------------------------------------------------
(* Apply modifies the host.                                                *)

WriteSysctlFile(p) ==
  /\ pc[p] = "writeSysctl"
  /\ \/ /\ NoFault
        /\ file' = [file EXCEPT !["sysctl"] = RenderSysctl(mem[p].plan)]
        /\ torn' = Host
        /\ Goto(p, "writeModules", mem[p])
     \/ WriteFails("sysctl") /\ StartRestore(p, mem[p]) /\ UNCHANGED <<file, torn>>
  /\ UNCHANGED <<live, snaps, latest, ops>>

WriteModulesFile(p) ==
  /\ pc[p] = "writeModules"
  /\ \/ /\ NoFault
        /\ file' = [file EXCEPT !["modules"] = ModulesLine]
        /\ Goto(p, "load", Loop(p))
     \/ WriteFails("modules") /\ StartRestore(p, mem[p]) /\ UNCHANGED file
  /\ UNCHANGED <<live, snaps, latest, torn, ops>>

(* sysctl -p assigns the keys in the order of the file.  It goes on after  *)
(* a rejected key and reports failure at the end; killed, it stops.        *)
LoadKey(p) ==
  /\ pc[p] = "load"
  /\ file["sysctl"] \in Rendered
  /\ p \notin cancelled
  /\ \E k \in Keys :
       /\ NextKey(p, k)
       /\ \/ /\ NoFault
             /\ live' = [live EXCEPT ![k] = file["sysctl"].values[k]]
             /\ Goto(p, "load", Did(p, k))
          \/ Fault("ignore") /\ Goto(p, "load", Did(p, k)) /\ UNCHANGED live
          \/ Fault("cmd") /\ Goto(p, "load", Erred(Did(p, k))) /\ UNCHANGED live
  /\ UNCHANGED <<file, snaps, latest, torn, ops>>

(* A file someone else has put in its place may assign none of the keys.   *)
LoadEnds(p) ==
  /\ pc[p] = "load"
  /\ \/ NoFault /\ mem[p].todo = {} /\ ~mem[p].failed /\ Goto(p, "verify", mem[p])
     \/ /\ NoFault
        /\ p \notin cancelled
        /\ file["sysctl"] \in {Foreign, Irregular}
        /\ Goto(p, "verify", mem[p])
     \/ /\ NoFault
        /\ \/ mem[p].todo = {} /\ mem[p].failed
           \/ mem[p].todo # {} /\ (p \in cancelled \/ file["sysctl"] \notin Rendered)
        /\ StartRestore(p, mem[p])
     \/ Fault("cmd") /\ StartRestore(p, mem[p])
  /\ UNCHANGED <<live, file, snaps, latest, torn, ops>>

(* verifyExpected on the recommended sysctls.                              *)
Verify(p) ==
  /\ pc[p] = "verify"
  /\ \/ /\ CmdOk(p)
        /\ VerifyMaps(live, mem[p].plan.sysctls)
        /\ torn' = None
        /\ Return(p, "applied")
     \/ /\ \/ CmdFails(p)
           \/ NoFault /\ ~VerifyMaps(live, mem[p].plan.sysctls)
        /\ StartRestore(p, mem[p])
        /\ UNCHANGED torn
  /\ UNCHANGED <<live, file, snaps, latest, ops>>

-----------------------------------------------------------------------------
(* Rollback finds its snapshot; restoreSnapshot goes on after an error.    *)

ReadSnapshot(p) ==
  LET i == IF mem[p].id = None THEN latest ELSE mem[p].id
      found == i # None /\ snaps[i] # None
  IN /\ pc[p] = "readSnapshot"
     /\ \/ NoFault /\ found /\ StartRestore(p, [mem[p] EXCEPT !.snap = snaps[i]])
        \/ NoFault /\ ~found /\ Return(p, "refused")
        \/ Fault("fs") /\ Return(p, "refused")
     /\ UNCHANGED <<live, file, snaps, latest, torn, ops>>

(* restoreFile removes a file the snapshot has no content for and rewrites *)
(* any other.                                                              *)
RestoreFile(p, here, f, there) ==
  /\ pc[p] = here
  /\ \/ /\ NoFault
        /\ file' = [file EXCEPT ![f] = RestoredFile(@, mem[p].snap.files[f])]
        /\ Goto(p, there, Loop(p))
     \/ WriteFails(f) /\ Goto(p, there, Erred(Loop(p))) /\ UNCHANGED file
  /\ UNCHANGED <<live, snaps, latest, torn, ops>>

(* sysctl -w, one command per key.                                         *)
RestoreKey(p) ==
  /\ pc[p] = "restoreKeys"
  /\ \E k \in Keys :
       /\ NextKey(p, k)
       /\ \/ /\ CmdOk(p)
             /\ live' = [live EXCEPT ![k] = mem[p].snap.sysctls[k]]
             /\ Goto(p, "restoreKeys", Did(p, k))
          \/ /\ \/ Fault("ignore") /\ p \notin cancelled /\ Goto(p, "restoreKeys", Did(p, k))
                \/ CmdFails(p) /\ Goto(p, "restoreKeys", Erred(Did(p, k)))
             /\ UNCHANGED live
  /\ UNCHANGED <<file, snaps, latest, torn, ops>>

(* The restored sysctls are verified if there was no error so far.         *)
VerifyRestored(p) ==
  /\ pc[p] = "restoreKeys"
  /\ mem[p].todo = {}
  /\ \/ /\ CmdOk(p)
        /\ ~mem[p].failed
        /\ VerifyMaps(live, mem[p].snap.sysctls)
        /\ torn' = None
        /\ Return(p, IF mem[p].op = "rollback" THEN "restored" ELSE "reverted")
     \/ /\ \/ ~mem[p].failed /\ CmdFails(p)
           \/ NoFault /\ (mem[p].failed \/ ~VerifyMaps(live, mem[p].snap.sysctls))
        /\ Return(p, "dirty")
        /\ UNCHANGED torn
  /\ UNCHANGED <<live, file, snaps, latest, ops>>

-----------------------------------------------------------------------------
(* Signals, crashes and the other users of the host.                       *)

Cancel(p) ==
  /\ pc[p] # "idle"
  /\ p \notin cancelled
  /\ Fault("cancel")
  /\ cancelled' = cancelled \cup {p}
  /\ UNCHANGED <<live, file, snaps, latest, lock, pc, mem, result, torn, ops>>

(* The kernel drops the flock of a process that dies.                      *)
Kill(p) ==
  /\ pc[p] # "idle"
  /\ Fault("kill")
  /\ Return(p, "killed")
  /\ UNCHANGED <<live, file, snaps, latest, torn, ops>>

(* Every process dies and the sysctls start over: systemd-sysctl assigns   *)
(* what the managed file says over the defaults of the kernel.             *)
Reboot ==
  /\ Fault("reboot")
  /\ live' = IF file["sysctl"] \in Rendered THEN file["sysctl"].values
             ELSE [k \in Keys |-> Default]
  /\ lock' = Free
  /\ pc' = [p \in Proc |-> "idle"]
  /\ mem' = [p \in Proc |-> Blank]
  /\ result' = [p \in Proc |-> IF pc[p] = "idle" THEN result[p] ELSE "killed"]
  /\ cancelled' = {}
  /\ UNCHANGED <<file, snaps, latest, torn, ops>>

(* Someone else assigns a sysctl, or edits, replaces or removes a file.    *)
OthersChangeHost ==
  /\ \/ Fault("drift") /\ lock = Free
     \/ Fault("interfere")
  /\ \/ \E k \in Keys, v \in Vals : live' = [live EXCEPT ![k] = v] /\ UNCHANGED file
     \/ \E f \in Files, c \in {Absent, Foreign, Irregular} :
          file' = [file EXCEPT ![f] = c] /\ UNCHANGED live
  /\ UNCHANGED <<snaps, latest, lock, pc, mem, result, cancelled, torn, ops>>

-----------------------------------------------------------------------------

Step(p) ==
  \/ DetectKey(p) \/ MakePlan(p) \/ NeedsApply(p) \/ VerifyHost(p)
  \/ AcquireLock(p) \/ LoadModule(p) \/ Capture(p)
  \/ WriteSnapshot(p) \/ WriteLatest(p)
  \/ WriteSysctlFile(p) \/ WriteModulesFile(p)
  \/ LoadKey(p) \/ LoadEnds(p) \/ Verify(p)
  \/ ReadSnapshot(p)
  \/ RestoreFile(p, "restoreModules", "modules", "restoreSysctl")
  \/ RestoreFile(p, "restoreSysctl", "sysctl", "restoreKeys")
  \/ RestoreKey(p) \/ VerifyRestored(p)

Next ==
  \/ \E p \in Proc : Begin(p) \/ Step(p) \/ Cancel(p) \/ Kill(p)
  \/ Reboot
  \/ OthersChangeHost

Spec == Init /\ [][Next]_vars

(* A command that was started keeps running: the scheduler runs its        *)
(* process and the external commands it waits for come to an end.          *)
FairSpec == Spec /\ \A p \in Proc : WF_vars(Step(p))

-----------------------------------------------------------------------------
(* Properties.                                                             *)

(* Command p ends with result r in this step.                              *)
Ends(p, r) == result[p] = "running" /\ result'[p] = r

(* Only one invocation is between acquireLock and releaseLock, and it is   *)
(* the one the kernel says holds the flock (manager.go:104-108, 197-201).  *)
MutualExclusion == \A p \in Proc : pc[p] \in Locked <=> lock = p

(* Recovery.  While an Apply has begun to change the host and has not      *)
(* ended well - it is running, was killed, lost its host to a reboot, or   *)
(* could not restore - the snapshot that `rollback` takes by default is on *)
(* disk and holds the host exactly as it was before that Apply             *)
(* (writeSnapshot before atomicWrite, manager.go:122-137).                 *)
Recoverable ==
  torn # None => /\ latest # None
                 /\ snaps[latest] # None
                 /\ Saved(snaps[latest]) = torn

(* A snapshot, once on disk, is never changed or removed, whatever crashes *)
(* or fails later, and the file "latest" never names one that is missing   *)
(* (snapshot.go writeSnapshot).                                            *)
LatestExists == latest # None => snaps[latest] # None
SnapshotsKept == [][\A i \in Ids : snaps[i] # None => snaps'[i] = snaps[i]]_vars

(* What the exit status promises.  A nil error from Apply means that every *)
(* sysctl and both files are as planned; a nil error from restoreSnapshot  *)
(* means they are as in the snapshot, also when earlier steps failed       *)
(* (manager.go Apply, restoreSnapshot).                                    *)
HonestOutcome ==
  [][\A p \in Proc :
       /\ Ends(p, "applied") => Host' = Target(mem[p].plan)
       /\ Ends(p, "reverted") \/ Ends(p, "restored") => Host' = Saved(mem[p].snap)
    ]_vars

(* A crash in Apply is undone by the next `rollback`: the host is again    *)
(* what it was before that Apply touched it, although the process that     *)
(* rolls back knows nothing of the one that crashed.                       *)
RollbackUndoesCrash ==
  [][\A p \in Proc :
       Ends(p, "restored") /\ mem[p].id = None /\ torn # None => Host' = torn]_vars

(* An Apply that takes a snapshot and then fails puts every sysctl and     *)
(* both files back (manager.go:138-150; the test                           *)
(* TestApplyVerificationFailureAutomaticallyRollsBack).                    *)
FailedApplyReverts ==
  [][\A p \in Proc :
       mem[p].op # "rollback" /\ (Ends(p, "reverted") \/ Ends(p, "dirty"))
         => Host' = Saved(mem[p].snap)]_vars

(* README.md:40,141: only when a sysctl or an owned file has drifted does  *)
(* reconcile apply and create a snapshot.  (A sysctl Detect cannot read is *)
(* taken to have drifted, NeedsApply.)                                     *)
ReconcileNeedsDrift ==
  [][\A p \in Proc :
       /\ mem[p].op = "reconcile" /\ \A k \in Keys : mem[p].seen[k] # None
       /\ pc[p] = "writeSnapshot" /\ snaps' # snaps
       => Host # Target(mem[p].plan)]_vars

(* README.md:178: somaxconn and the SYN backlog are raised when below the  *)
(* floor; Apply never lowers a higher value the host already has.  (One    *)
(* that Detect cannot read is taken to be below the floor, maxParsed.)     *)
BacklogNeverLowered ==
  [][\A p \in Proc, k \in Backlog :
       pc[p] = "load" /\ mem[p].seen[k] # None /\ live'[k] # live[k]
         => live'[k] > live[k]]_vars

(* Reconciling is idempotent: after Apply or reconcile has ended well, a   *)
(* new Detect and BuildPlan for the same input finds nothing to change,    *)
(* also for the keys recommended from their current value                  *)
(* (manager_test.go:160-166).                                              *)
Idempotent ==
  [][\A p \in Proc :
       Ends(p, "applied") \/ Ends(p, "unchanged")
         => Host' = Target(BuildPlan(mem[p].plan.input, live'))]_vars

(* Every command ends, whatever fails under it, so that the lock does not  *)
(* stay taken (the lock is LOCK_NB and the loops go on after errors).      *)
CommandsEnd == \A p \in Proc : pc[p] # "idle" ~> pc[p] = "idle"
=============================================================================
