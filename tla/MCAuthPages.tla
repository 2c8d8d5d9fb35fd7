----------------------------- MODULE MCAuthPages -----------------------------
(* Two tabs of one browser, an old account and an address nobody has yet.      *)
EXTENDS AuthPages, TLC

CONSTANTS t1, t2

MCEmails == {"a@x", "b@x"}
MCLowerCase == [e \in MCEmails |-> e]
MCPasswords == {"p", ""}
MCTrim == [p \in MCPasswords |-> p]
MCOldUsers == <<[email |-> "a@x", password |-> "p"]>>
MCBrowserOf == [t \in Tabs |-> CHOOSE b \in Browsers : TRUE]
MCVisited == t1 :> Forms \cup {"home"} @@ t2 :> {"login", "home"}
=============================================================================
