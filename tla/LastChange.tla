----------------------------- MODULE LastChange -----------------------------
(***************************************************************************)
(* Manager with a history variable: the host before the last Apply that    *)
(* ended well, which is what README.md:151 says a rollback without         *)
(* --snapshot brings back.                                                 *)
(***************************************************************************)
EXTENDS Manager

VARIABLE before

LInit == Init /\ before = None

LNext ==
  /\ Next
  /\ before' = IF \E p \in Proc : Ends(p, "applied")
                 THEN Saved(mem[CHOOSE p \in Proc : Ends(p, "applied")].snap)
                 ELSE before

LSpec == LInit /\ [][LNext]_<<vars, before>>

(* README.md:151-155: `rollback --confirm` restores the values and files   *)
(* from before the last modification, whichever process made it.           *)
RollbackUndoesLastApply ==
  [][\A p \in Proc :
       Ends(p, "restored") /\ mem[p].id = None /\ before # None
         => Host' = before]_<<vars, before>>
=============================================================================
