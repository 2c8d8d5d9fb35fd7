--------------------------- MODULE AccountPromise ---------------------------
(***************************************************************************)
(* What the account mutations of the Blitz application promise, without    *)
(* their database calls: who may set a password, and whom a session is     *)
(* opened for.  A caller shows the password of an account and then holds a *)
(* claim on it; a reset link is good for one new password of its account.  *)
(* AuthMutations is shown to implement this.                               *)
(***************************************************************************)
EXTENDS Naturals, Sequences

CONSTANTS
    Callers,    \* who calls, one mutation at a time
    Emails,     \* the texts an e-mail address is written as
    LowerCase,  \* the text in lower case
    Passwords,  \* password texts
    Names       \* what links and sessions are told apart by

VARIABLES
    accounts,  \* the accounts in the order of their sign-up: e-mail and password
    claims,    \* per caller the claims it holds: account and password shown
    links,     \* the open links, each with its account
    members    \* the sessions, each with its account

vars == <<accounts, claims, links, members>>

Claim(u, p) == [user |-> u, password |-> p]

Init ==
    /\ accounts \in Seq([email : Emails, password : Passwords])
    /\ claims = [c \in Callers |-> {}]
    /\ links = {} /\ members = {}

SignUp(c) ==
    \E e \in Emails, p \in Passwords :
        /\ \A u \in DOMAIN accounts : accounts[u].email # e
        /\ accounts' = Append(accounts, [email |-> e, password |-> p])
        /\ claims' = [claims EXCEPT ![c] = {Claim(Len(accounts) + 1, p)}]
        /\ UNCHANGED <<links, members>>

\* The password shown is the account's at this moment.
Show(c) ==
    \E u \in DOMAIN accounts :
        /\ claims' = [claims EXCEPT ![c] = {Claim(u, accounts[u].password)}]
        /\ UNCHANGED <<accounts, links, members>>

\* A session for the account of the claim.
Enter(c) ==
    \E x \in claims[c], h \in Names :
        /\ h \notin {m.handle : m \in members}
        /\ members' = members \cup {[handle |-> h, user |-> x.user]}
        /\ claims' = [claims EXCEPT ![c] = {}]
        /\ UNCHANGED <<accounts, links>>

\* The shown password is stored once more, the claim is kept.
Store(c) ==
    \E x \in claims[c] :
        /\ accounts' = [accounts EXCEPT ![x.user].password = x.password]
        /\ UNCHANGED <<claims, links, members>>

\* A password is looked up under the address in lower case: the account whose
\* password vouches for account u has that text, u itself may have another spelling.
Vouches(v, u) == accounts[v].email = LowerCase[accounts[u].email]

\* Another password for an account the account of the claim vouches for.
Change(c) ==
    \E x \in claims[c], u \in DOMAIN accounts, p \in Passwords :
        /\ Vouches(x.user, u)
        /\ accounts' = [accounts EXCEPT ![u].password = p]
        /\ claims' = [claims EXCEPT ![c] = {}]
        /\ UNCHANGED <<links, members>>

GiveUp(c) ==
    /\ claims' = [claims EXCEPT ![c] = {}]
    /\ UNCHANGED <<accounts, links, members>>

\* A link is made for an account.
Issue ==
    \E u \in DOMAIN accounts, l \in Names :
        /\ l \notin {k.link : k \in links}
        /\ links' = links \cup {[link |-> l, user |-> u]}
        /\ UNCHANGED <<accounts, claims, members>>

Withdraw ==
    /\ links' \in SUBSET links
    /\ UNCHANGED <<accounts, claims, members>>

\* The link is gone with the first password it sets.
Redeem ==
    \E k \in links, p \in Passwords :
        /\ links' = links \ {k}
        /\ accounts' = [accounts EXCEPT ![k.user].password = p]
        /\ UNCHANGED <<claims, members>>

Leave ==
    /\ members' \in SUBSET members
    /\ UNCHANGED <<accounts, claims, links>>

Next ==
    \/ \E c \in Callers :
         SignUp(c) \/ Show(c) \/ Enter(c) \/ Store(c) \/ Change(c) \/ GiveUp(c)
    \/ Issue \/ Withdraw \/ Redeem \/ Leave

Spec == Init /\ [][Next]_vars
=============================================================================
