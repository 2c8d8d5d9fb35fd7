-------------------------- MODULE MCWatchRegistry --------------------------
(* Two users, two accounts, and two messages: one about an account and one  *)
(* that does not decode.                                                    *)
EXTENDS WatchRegistry, TLC

CONSTANTS u1, u2, a1, a2, m1, m2

MCUsers == {u1, u2}
MCAccounts == {a1, a2}
MCMessages == {m1, m2}
MCAccountOf == m1 :> a1 @@ m2 :> Malformed

UserSymmetry == Permutations(MCUsers)
=============================================================================
