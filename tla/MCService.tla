----------------------------- MODULE MCService -----------------------------
(* Instances of Service for TLC.                                           *)
EXTENDS Service, MCHost

(* The other contents of the managed files before the first command are    *)
(* the business of the runs of Manager.                                    *)
MCInit == SInit /\ \A f \in Files : file[f] = Absent

(* IDs are times: of the unused ones, the least is taken.  An ID is only   *)
(* ever compared with another, so no behaviour is lost.                    *)
IdsInOrder ==
  \A p \in Proc : mem[p].snap # None =>
    \A i \in Ids : i < mem[p].snap.id => snaps[i] # None

(* The first command is one of the service, and of a given process, as     *)
(* processes are alike.  Two commands of the manager are the business of   *)
(* its own runs.                                                           *)
ServiceFirst == ops < ops' /\ ops = 0 => ipc'[CHOOSE p \in Proc : TRUE] = "preflight"

MCNext == SNext /\ IdsInOrder' /\ ServiceFirst

MCSpec == MCInit /\ [][MCNext]_svars /\ SFairness
=============================================================================
