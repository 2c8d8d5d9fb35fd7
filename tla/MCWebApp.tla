------------------------------ MODULE MCWebApp ------------------------------
(* One user and one account (users meet only in the registry, which has a run *)
(* of its own).  The topic holds a message that does not decode between two   *)
(* about the account.                                                         *)
EXTENDS WebApp, TLC

CONSTANTS u1, a1

MCUsers == {u1}
MCAccounts == {a1}
MCAccountOf == 1 :> a1 @@ 2 :> Malformed @@ 3 :> a1
=============================================================================
