----------------------------- MODULE AlertBoard -----------------------------
(***************************************************************************)
(* What the web application promises its users, with none of its data      *)
(* structures: a user states an interest in single accounts or in          *)
(* everything, and each fraud message that arrives is posted to the users  *)
(* whose interest covers its account at that moment, once for each         *)
(* interest that covers it.  WatchRegistry is shown to implement this.     *)
(***************************************************************************)
EXTENDS Naturals

CONSTANTS
    Users,      \* people known to the identity provider, named by e-mail
    Accounts,   \* account addresses
    Messages,   \* fraud messages that may arrive
    AccountOf,  \* the account a message is about, or Malformed
    Malformed   \* a message that names no account

VARIABLES
    interest,    \* the pairs <<user, account>> that are being watched
    everything,  \* the users who asked for every message
    board        \* how many times each message is posted to each user

vars == <<interest, everything, board>>

EmptyBoard == [u \in Users |-> [m \in Messages |-> 0]]

InterestsOf(u) == {u} \X Accounts

Init ==
    /\ interest = {}
    /\ everything = {}
    /\ board = EmptyBoard

Watch(u, a) ==
    /\ interest' = interest \cup {<<u, a>>}
    /\ UNCHANGED <<everything, board>>

Unwatch(u, a) ==
    /\ interest' = interest \ {<<u, a>>}
    /\ UNCHANGED <<everything, board>>

\* Asking for everything replaces the interest in single accounts.
WatchEverything(u) ==
    /\ interest' = interest \ InterestsOf(u)
    /\ everything' = everything \cup {u}
    /\ UNCHANGED board

UnwatchEverything(u) ==
    /\ everything' = everything \ {u}
    /\ UNCHANGED <<interest, board>>

\* The copies of message m that its arrival posts to user u.
CopiesDue(u, m) ==
    (IF <<u, AccountOf[m]>> \in interest THEN 1 ELSE 0)
      + (IF u \in everything THEN 1 ELSE 0)

Post(m) ==
    /\ AccountOf[m] # Malformed
    /\ board' = [u \in Users |-> [board[u] EXCEPT ![m] = @ + CopiesDue(u, m)]]
    /\ UNCHANGED <<interest, everything>>

\* Nothing is kept across a restart.
Forget ==
    /\ interest' = {}
    /\ everything' = {}
    /\ board' = EmptyBoard

Next ==
    \/ \E u \in Users, a \in Accounts : Watch(u, a) \/ Unwatch(u, a)
    \/ \E u \in Users : WatchEverything(u) \/ UnwatchEverything(u)
    \/ \E m \in Messages : Post(m)
    \/ Forget

Spec == Init /\ [][Next]_vars
=============================================================================
