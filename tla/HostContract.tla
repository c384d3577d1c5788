---------------------------- MODULE HostContract ----------------------------
(***************************************************************************)
(* What the commands of the manager promise to whoever runs them, without  *)
(* a word about how: the host changes in one step, at the moment the       *)
(* command answers, and the answer says what became of it.  There are no   *)
(* locks, no order of calls and no half-done work that anyone could see    *)
(* while a command is running.  Module ManagerRefinement shows that       *)
(* Manager keeps this promise.                                             *)
(***************************************************************************)
EXTENDS HostPlan

CONSTANT Proc   \* invocations of sshappy-tune running as root

VARIABLES
  host,     \* the sysctls and the managed files
  saved,    \* the host each snapshot holds, None if there is no such snapshot
  latest,   \* the snapshot a rollback takes by default, None at first
  asked,    \* what each process was asked and has not answered, or None
  answer,   \* the last answer of each process
  faults    \* how often the world outside has intervened

vars == <<host, saved, latest, asked, answer, faults>>

Requests == [op : {"apply", "reconcile", "rollback", "verify"},
             input : Inputs \cup {None}, id : Ids \cup {None}]

Init ==
  /\ host \in HostStates
  /\ saved = [i \in Ids |-> None]
  /\ latest = None
  /\ asked = [p \in Proc |-> None]
  /\ answer = [p \in Proc |-> None]
  /\ faults = 0

-----------------------------------------------------------------------------

Applies(p) == asked[p].op \in {"apply", "reconcile"}

(* Where a command may take the host: an Apply to the recommendation for   *)
(* its input, whatever backlogs it found; a rollback to one snapshot.      *)
Goals(p) ==
  IF Applies(p)
    THEN {Target(BuildPlan(asked[p].input, seen)) : seen \in [Keys -> Vals \cup {None}]}
  ELSE IF asked[p].op = "rollback"
    THEN {saved[i] : i \in {IF asked[p].id = None THEN latest ELSE asked[p].id} \ {None}}
           \ {None}
  ELSE {}

(* A host of which every sysctl and every file is as in g or as in h.      *)
Between(n, g, h) ==
  /\ \A k \in Keys : n.sysctls[k] \in {g.sysctls[k], h.sysctls[k]}
  /\ \A f \in Files : n.files[f] \in {g.files[f], h.files[f]}

(* An Apply may only change the host once the latest snapshot holds it.    *)
CanUndo(p) == Applies(p) => latest # None /\ saved[latest] = host

-----------------------------------------------------------------------------

Ask(p) ==
  /\ UNCHANGED <<faults, latest, saved, host>>
  /\ answer' = [answer EXCEPT ![p] = "running"]
  /\ asked[p] = None
  /\ asked'[p] \in Requests
  /\ asked' = [asked EXCEPT ![p] = asked'[p]]

(* An Apply under way saves the host and makes that the latest snapshot.   *)
Save(p) ==
  /\ UNCHANGED <<faults, answer, latest, asked, host>>
  /\ asked[p] # None /\ Applies(p)
  /\ \E i \in Ids : saved[i] = None /\ saved' = [saved EXCEPT ![i] = host]

Point(p) ==
  /\ UNCHANGED <<faults, answer, saved, asked, host>>
  /\ asked[p] # None /\ Applies(p)
  /\ \E i \in Ids : saved[i] = host /\ latest' = i

Answers(p, r) ==
  /\ answer' = [answer EXCEPT ![p] = r]
  /\ UNCHANGED <<latest, saved>>
  /\ asked[p] # None
  /\ asked' = [asked EXCEPT ![p] = None]

(* Nothing was done, or everything was undone.                             *)
Nothing(p) ==
  /\ \/ Answers(p, "refused")
     \/ Answers(p, "unchanged") /\ asked[p].op = "reconcile"
     \/ \E r \in {"verified", "drifted"} : Answers(p, r) /\ asked[p].op = "verify"
     \/ Answers(p, "reverted") /\ CanUndo(p) /\ Applies(p)
  /\ UNCHANGED host

(* Everything was done.                                                    *)
Done(p) ==
  /\ \/ Answers(p, "applied") /\ CanUndo(p) /\ Applies(p)
     \/ Answers(p, "restored") /\ asked[p].op = "rollback"
  /\ host' \in Goals(p)

(* The command could not finish or was cut short: some of it was done.  No *)
(* sysctl and no file is other than before or as intended, and the host as *)
(* it was before an Apply is in the latest snapshot.                       *)
Partly(p, r) ==
  /\ Answers(p, r)
  /\ \/ UNCHANGED host
     \/ CanUndo(p) /\ \E g \in Goals(p) : Between(host', g, host)

(* Someone else changes one sysctl or one file.                            *)
Disturb ==
  /\ faults' > faults
  /\ UNCHANGED <<answer, latest, saved, asked>>
  /\ \/ UNCHANGED host
     \/ \E k \in Keys, v \in Vals : host' = [host EXCEPT !.sysctls[k] = v]
     \/ \E f \in Files, c \in FileVals \ Rendered : host' = [host EXCEPT !.files[f] = c]

(* A reboot cuts every command short; the sysctls are those of the file.   *)
Reboot ==
  /\ faults' > faults
  /\ answer' = [p \in Proc |-> IF asked[p] = None THEN answer[p] ELSE "killed"]
  /\ asked' = [p \in Proc |-> None]
  /\ LET files == host'.files
     IN /\ host' \in HostStates
        /\ host'.sysctls = IF files["sysctl"] \in Rendered THEN files["sysctl"].values
                           ELSE [k \in Keys |-> Default]
        /\ \/ files = host.files
           \/ \E p \in Proc : \E g \in IF asked[p] = None THEN {} ELSE Goals(p) :
                /\ CanUndo(p)
                /\ \A f \in Files : files[f] \in {g.files[f], host.files[f]}
  /\ UNCHANGED <<saved, latest>>

Next ==
  \/ \E p \in Proc :
       \/ Ask(p) \/ Save(p) \/ Point(p)
       \/ Nothing(p) /\ faults' >= faults
       \/ Done(p) /\ UNCHANGED faults
       \/ Partly(p, "dirty") /\ faults' >= faults
       \/ Partly(p, "killed") /\ faults' > faults
  \/ Disturb
  \/ Reboot

Spec == Init /\ [][Next]_vars
=============================================================================
