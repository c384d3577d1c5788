-------------------------- MODULE ManagerRefinement --------------------------
(***************************************************************************)
(* Manager implements HostContract.  To the outside the host is what it    *)
(* was when the lock was taken until the lock is released; the history     *)
(* variable base remembers it.                                             *)
(***************************************************************************)
EXTENDS Manager

VARIABLE base   \* the host when the lock was taken, None while it is free

RInit == Init /\ base = None

RNext ==
  /\ Next
  /\ base' = IF lock' = Free THEN None ELSE IF lock = Free THEN Host ELSE base

RSpec == RInit /\ [][RNext]_<<vars, base>>

-----------------------------------------------------------------------------
(* The variables of the contract.                                          *)

Visible == IF base = None THEN Host ELSE base

Archive == [i \in Ids |-> IF snaps[i] = None THEN None ELSE Saved(snaps[i])]

Asked ==
  [p \in Proc |-> IF result[p] = "running"
                    THEN [op |-> mem[p].op, input |-> mem[p].input, id |-> mem[p].id]
                    ELSE None]

Contract ==
  INSTANCE HostContract WITH
    host <- Visible, saved <- Archive, asked <- Asked, answer <- result

(* None is nothing a process can be asked.                                 *)
ASSUME RequestsAssumption == None \notin Contract!Requests

(* Every behaviour of the manager is one of the contract: a command takes  *)
(* effect as a whole at the moment it returns, whatever other invocations  *)
(* do meanwhile; one that fails changes nothing, or leaves each sysctl and *)
(* file as it was or as intended with the host before it in the snapshot   *)
(* `latest` (manager.go Apply and Rollback, the flock around them).        *)
ImplementsContract == Contract!Spec
=============================================================================
