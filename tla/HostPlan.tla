------------------------------ MODULE HostPlan ------------------------------
(***************************************************************************)
(* The data every sshappy-tune command works on: the managed sysctl keys,  *)
(* the two files the manager owns, the recommendation computed for a host, *)
(* the plan built from it, and the snapshot that undoes it.                *)
(*                                                                         *)
(* A sysctl value is a natural number.  A key in Backlog (somaxconn and    *)
(* tcp_max_syn_backlog in the code) is only ever raised to Floor; the      *)
(* value of every other key is a function of the input (bandwidth, RTT,    *)
(* role) alone, given by the constant Tuned.  module Recommend has the     *)
(* arithmetic behind Tuned.                                                *)
(***************************************************************************)
EXTENDS Naturals, FiniteSets

CONSTANTS
  Keys,         \* the managed sysctls, each named by its rank in sorted order
  Backlog,      \* the keys recommended as the larger of Floor and the current value
  Vals,         \* sysctl values
  Default,      \* the value every key has after a boot without the managed file
  Floor,        \* minimumBacklog
  Inputs,       \* the inputs the operator or the saved profile may give
  Tuned,        \* Tuned[i][k]: the value recommended for k under input i
  Builtin,      \* the values verify expects of some keys without a managed file
  Ids,          \* snapshot IDs (nanosecond timestamps)
  Absent,       \* a file that does not exist
  Foreign,      \* a regular file with content this tool did not write
  Irregular,    \* a symlink, a directory, a device
  ModulesLine,  \* the content "tcp_bbr\n" of the modules file
  None          \* no value: an empty string, a nil error, a missing snapshot

ASSUME KeysAssumption ==
  /\ Keys \subseteq Nat
  /\ IsFiniteSet(Keys)
  /\ Backlog \subseteq Keys

ASSUME ValsAssumption ==
  /\ Vals \subseteq Nat
  /\ Default \in Vals
  /\ Floor \in Vals
  /\ Tuned \in [Inputs -> [Keys \ Backlog -> Vals]]

ASSUME BuiltinAssumption ==
  /\ DOMAIN Builtin \subseteq Keys
  /\ \A k \in DOMAIN Builtin : Builtin[k] \in Vals

ASSUME NoneAssumption ==
  /\ None \notin Vals
  /\ None \notin Ids
  /\ None \notin Inputs

-----------------------------------------------------------------------------

(* The managed files, in the order sort.Strings gives their paths:         *)
(* /etc/modules-load.d/... before /etc/sysctl.d/...                        *)
Files == {"modules", "sysctl"}

(* The managed sysctl file as RenderSysctl writes it: the header comment   *)
(* names the input, the body has one assignment per key.                   *)
Rendered == [header : Inputs, values : [Keys -> Vals]]

FileVals == Rendered \cup {Absent, Foreign, Irregular, ModulesLine}

(* What the manager can change of a host.                                  *)
HostStates == [sysctls : [Keys -> Vals], files : [Files -> FileVals]]

Snapshots == [id : Ids, sysctls : [Keys -> Vals], files : [Files -> FileVals]]

Plans == [input : Inputs, sysctls : [Keys -> Vals]]

ASSUME FilesAssumption ==
  /\ {Absent, Foreign, Irregular, ModulesLine} \cap Rendered = {}
  /\ Irregular \notin {Absent, Foreign, ModulesLine}
  /\ None \notin HostStates
  /\ None \notin Snapshots

-----------------------------------------------------------------------------

(* Variants of the operators below, each a slip the checks must notice.    *)
MaxParsedKeepsEmpty(v) == IF v # None /\ v < Floor THEN Floor ELSE v
MaxParsedLowers(v) == Floor
VerifySomeKey(actual, expected) ==
  expected = actual \/ \E k \in DOMAIN expected : actual[k] = expected[k]
RestoredUnlessAbsent(current, saved) == IF saved = Absent THEN current ELSE saved

(* maxParsed: a value that cannot be read or parsed counts as too small.   *)
MaxParsed(v) == IF v = None \/ v < Floor THEN Floor ELSE v

(* Recommend: seen holds the sysctls read by Detect, None for a key that   *)
(* could not be read.                                                      *)
Recommended(i, seen) ==
  [k \in Keys |-> IF k \in Backlog THEN MaxParsed(seen[k]) ELSE Tuned[i][k]]

(* BuildPlan.  Changes is recomputed where NeedsApply reads it.            *)
BuildPlan(i, seen) == [input |-> i, sysctls |-> Recommended(i, seen)]

(* RenderSysctl, the SysctlConfig of a plan.                               *)
RenderSysctl(plan) == [header |-> plan.input, values |-> plan.sysctls]

(* The host as a successful Apply of the plan leaves it.                   *)
Target(plan) ==
  [sysctls |-> plan.sysctls,
   files   |-> [f \in Files |->
                  IF f = "sysctl" THEN RenderSysctl(plan) ELSE ModulesLine]]

(* verifyMaps: every expected key has the expected value.                  *)
VerifyMaps(actual, expected) ==
  \A k \in DOMAIN expected : actual[k] = expected[k]

(* What Verify expects: ParseSysctlConfig reads back what RenderSysctl      *)
(* wrote, and without a file a few values are expected of every host.      *)
Expected(content) == IF content \in Rendered THEN content.values ELSE Builtin

(* restoreFile: what a path holds afterwards.  A file the snapshot says    *)
(* did not exist is removed, any other is written again.                   *)
RestoredFile(current, saved) == saved

(* The part of a snapshot that restoreSnapshot puts back.                  *)
Saved(snapshot) == [sysctls |-> snapshot.sysctls, files |-> snapshot.files]
=============================================================================
