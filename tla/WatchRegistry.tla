--------------------------- MODULE WatchRegistry ---------------------------
(***************************************************************************)
(* The in-memory state of the web application: python-app/app.py (request  *)
(* handlers), models.py (User, UserTimeline) and the fan-out of            *)
(* kafka_consumer.py (process_message).                                    *)
(*                                                                         *)
(* Everything runs on one asyncio event loop.  A handler touches the state *)
(* only after its last await (the identity lookup of get_current_user, and *)
(* request.json() in set_register_for_all), and process_message awaits     *)
(* nothing, so each of them is one atomic action.                          *)
(***************************************************************************)
EXTENDS Naturals

CONSTANTS
    Users,         \* e-mail addresses the identity provider returns
    Accounts,      \* account addresses
    Messages,      \* Kafka messages, each with an identity of its own
    AccountOf,     \* the account_id in a message, or Malformed
    Malformed,     \* value that does not decode or does not validate
    MaxCopies,     \* bound: entries for one account in one watch list
    MaxDeliveries  \* bound: times one message reaches process_message

ASSUME RegistryAssumption ==
    /\ Malformed \notin Accounts
    /\ AccountOf \in [Messages -> Accounts \cup {Malformed}]
    /\ MaxCopies \in Nat
    /\ MaxDeliveries \in Nat

VARIABLES
    userDb,           \* keys of user_db
    watchlist,        \* User.accounts, a list: entries per account
    registerForAll,   \* User.register_for_all
    accountsToUsers,  \* accounts_to_users, {} where there is no key
    indexKeys,        \* keys of the defaultdict accounts_to_users
    starredUsers,     \* starred_users
    timeline,         \* User.timeline: copies of each message
    deliveries        \* history: runs of process_message per message

vars == <<userDb, watchlist, registerForAll, accountsToUsers, indexKeys,
          starredUsers, timeline, deliveries>>

NoAccounts == [a \in Accounts |-> 0]

TypeOK ==
    /\ userDb \subseteq Users
    /\ watchlist \in [Users -> [Accounts -> Nat]]
    /\ registerForAll \in [Users -> BOOLEAN]
    /\ accountsToUsers \in [Accounts -> SUBSET Users]
    /\ indexKeys \subseteq Accounts
    /\ starredUsers \subseteq Users
    /\ timeline \in [Users -> [Messages -> Nat]]
    /\ deliveries \in [Messages -> Nat]

Init ==
    /\ userDb = {}
    /\ watchlist = [u \in Users |-> NoAccounts]
    /\ registerForAll = [u \in Users |-> FALSE]
    /\ accountsToUsers = [a \in Accounts |-> {}]
    /\ indexKeys = {}
    /\ starredUsers = {}
    /\ timeline = [u \in Users |-> [m \in Messages |-> 0]]
    /\ deliveries = [m \in Messages |-> 0]

(***************************************************************************)
(* Request handlers.                                                       *)
(***************************************************************************)

\* GET /dashboard creates the User on a first visit and only reads otherwise.
Dashboard(u) ==
    /\ userDb' = userDb \cup {u}
    /\ UNCHANGED <<watchlist, registerForAll, accountsToUsers, indexKeys,
                   starredUsers, timeline, deliveries>>

\* POST /add_account.  The list takes a second entry for the same account,
\* the index is a set; register_for_all is not looked at.
AddAccount(u, a) ==
    /\ watchlist[u][a] < MaxCopies
    /\ userDb' = userDb \cup {u}
    /\ watchlist' = [watchlist EXCEPT ![u][a] = @ + 1]
    /\ accountsToUsers' = [accountsToUsers EXCEPT ![a] = @ \cup {u}]
    /\ indexKeys' = indexKeys \cup {a}
    /\ UNCHANGED <<registerForAll, starredUsers, timeline, deliveries>>

\* Mutant: the membership test before list.remove is dropped.
RemoveUnchecked(n) == n - 1

\* list.remove of the first matching entry, when there is one.
EntriesAfterRemove(n) == IF n > 0 THEN n - 1 ELSE n

\* Mutant: the whole index entry goes, whoever else is in it.
DiscardEveryone(a, u) == [accountsToUsers EXCEPT ![a] = {}]

\* The index entry of account a once user u is discarded from it.
DiscardUser(a, u) == [accountsToUsers EXCEPT ![a] = @ \ {u}]

\* POST /delete_account removes one list entry but always the index entry,
\* and the key when no user is left under it.
DeleteAccount(u, a) ==
    /\ userDb' = userDb \cup {u}
    /\ watchlist' = [watchlist EXCEPT ![u][a] = EntriesAfterRemove(@)]
    /\ accountsToUsers' = DiscardUser(a, u)
    /\ indexKeys' = IF accountsToUsers[a] \subseteq {u}
                    THEN indexKeys \ {a} ELSE indexKeys
    /\ UNCHANGED <<registerForAll, starredUsers, timeline, deliveries>>

\* The accounts that appear in the user's list.
Listed(u) == {a \in Accounts : watchlist[u][a] > 0}

\* Mutant: the list is cleared and the index is left as it was.
KeepListed(u) == accountsToUsers

\* The index once u is discarded from every account in u's list.
DiscardListed(u) ==
    [a \in Accounts |-> IF a \in Listed(u) THEN accountsToUsers[a] \ {u}
                                            ELSE accountsToUsers[a]]

\* POST /set_register_for_all {true}.  Reading accounts_to_users[account]
\* creates the key where it is missing.  A user that user_db does not hold
\* gets an AttributeError and changes nothing.
StartRegisterForAll(u) ==
    /\ u \in userDb
    /\ registerForAll' = [registerForAll EXCEPT ![u] = TRUE]
    /\ accountsToUsers' = DiscardListed(u)
    /\ indexKeys' = indexKeys \cup Listed(u)
    /\ watchlist' = [watchlist EXCEPT ![u] = NoAccounts]
    /\ starredUsers' = starredUsers \cup {u}
    /\ UNCHANGED <<userDb, timeline, deliveries>>

\* Mutant: the flag is cleared and the user stays in starred_users.
StopRegisterKeepsStar(u) ==
    /\ u \in userDb
    /\ registerForAll' = [registerForAll EXCEPT ![u] = FALSE]
    /\ UNCHANGED <<userDb, watchlist, accountsToUsers, indexKeys,
                   starredUsers, timeline, deliveries>>

\* POST /set_register_for_all {false}
StopRegisterForAll(u) ==
    /\ u \in userDb
    /\ registerForAll' = [registerForAll EXCEPT ![u] = FALSE]
    /\ starredUsers' = starredUsers \ {u}
    /\ UNCHANGED <<userDb, watchlist, accountsToUsers, indexKeys,
                   timeline, deliveries>>

(***************************************************************************)
(* Fan-out of one Kafka message to the timelines.                          *)
(***************************************************************************)

\* Mutant: only the account's own users are looked at.
CopiesIndexed(u, m) == IF u \in accountsToUsers[AccountOf[m]] THEN 1 ELSE 0

\* Copies of m appended to u's timeline: one by the loop over the account's
\* users, one more by the loop over starred_users.
CopiesFor(u, m) ==
    (IF u \in accountsToUsers[AccountOf[m]] THEN 1 ELSE 0)
      + (IF u \in starredUsers THEN 1 ELSE 0)

\* process_message.  Looking the account up in the defaultdict leaves a key;
\* a message that fails to decode or validate is logged and dropped.
ProcessMessage(m) ==
    /\ deliveries' = [deliveries EXCEPT ![m] = @ + 1]
    /\ IF AccountOf[m] = Malformed
       THEN UNCHANGED <<indexKeys, timeline>>
       ELSE /\ indexKeys' = indexKeys \cup {AccountOf[m]}
            /\ timeline' = [u \in Users |->
                              [timeline[u] EXCEPT ![m] = @ + CopiesFor(u, m)]]
    /\ UNCHANGED <<userDb, watchlist, registerForAll,
                   accountsToUsers, starredUsers>>

\* The process ends and is started again: module globals start out empty.
Restart ==
    /\ userDb' = {}
    /\ watchlist' = [u \in Users |-> NoAccounts]
    /\ registerForAll' = [u \in Users |-> FALSE]
    /\ accountsToUsers' = [a \in Accounts |-> {}]
    /\ indexKeys' = {}
    /\ starredUsers' = {}
    /\ timeline' = [u \in Users |-> [m \in Messages |-> 0]]
    /\ deliveries' = [m \in Messages |-> 0]

HandleRequest ==
    \E u \in Users :
      \/ Dashboard(u)
      \/ \E a \in Accounts : AddAccount(u, a) \/ DeleteAccount(u, a)
      \/ StartRegisterForAll(u)
      \/ StopRegisterForAll(u)

Next ==
    \/ HandleRequest
    \/ \E m \in Messages : deliveries[m] < MaxDeliveries /\ ProcessMessage(m)
    \/ Restart

Spec == Init /\ [][Next]_vars

(***************************************************************************)
(* What holds of the three structures together.                            *)
(***************************************************************************)

\* What AlertBoard calls an interest is an entry of the index.
Interest == {p \in Users \X Accounts : p[1] \in accountsToUsers[p[2]]}

Registered == {u \in Users : registerForAll[u]}

\* Nobody is indexed under an account that the dashboard does not list for
\* them: what add_account, delete_account and set_register_for_all do to
\* User.accounts and to accounts_to_users stays in step in this direction.
IndexedIsWatched ==
    \A u \in Users, a \in Accounts :
        u \in accountsToUsers[a] => watchlist[u][a] > 0

\* starred_users, which the fan-out reads, and User.register_for_all, which
\* the dashboard's toggle shows, name the same people.
StarredIsRegistered == starredUsers = Registered

\* Every entry a step adds to a timeline is one its owner's settings ask for.
AlertsAreRequested ==
    \A u \in Users, m \in Messages :
        timeline'[u][m] > timeline[u][m] =>
          registerForAll[u] \/ AccountOf[m] \in Listed(u)

\* A timeline entry arrives only for a user whose own settings, as the
\* dashboard shows them when process_message runs, ask for its account.
NoUnrequestedAlert == [][AlertsAreRequested]_vars

\* Whoever a step takes out of the index loses entries of the list as well.
LossesShortenLists ==
    \A u \in Users, a \in Accounts :
        u \in accountsToUsers[a] \ accountsToUsers'[a] =>
          watchlist'[u][a] < watchlist[u][a]

\* Only a request of the user's own, one that also shortens the user's list,
\* takes the user out of the index: delete_account by one watcher of an
\* account leaves its other watchers indexed.
LosesOnlyOwn == [][LossesShortenLists]_vars

\* A delivery of a well-formed message reaches all who are registered.
DeliveriesReachRegistered ==
    \A u \in Users, m \in Messages :
        /\ deliveries'[m] > deliveries[m]
        /\ AccountOf[m] # Malformed
        /\ registerForAll[u]
        => timeline'[u][m] > timeline[u][m]

\* Whoever the dashboard shows as registered for everything gets a timeline
\* entry for every well-formed message process_message handles.
MonitorAllNeverMisses == [][DeliveriesReachRegistered]_vars

\* However the settings change between deliveries, one delivery leaves at most
\* two entries in a timeline: one by account and one for being registered.
CopiesBounded ==
    \A u \in Users, m \in Messages : timeline[u][m] <= 2 * deliveries[m]

Board == INSTANCE AlertBoard
    WITH interest <- Interest, everything <- Registered, board <- timeline

\* The dictionaries, the flags and the fan-out together keep the promise of
\* AlertBoard, including that registering for everything replaces all of the
\* interest in single accounts.
ImplementsBoard == Board!Spec

(***************************************************************************)
(* What the comments of app.py say and the handlers do not keep.           *)
(***************************************************************************)

\* app.py:104: accounts_to_users is the "Reverse mapping from account_address
\* to list of interested users", so whoever lists an account is under it.
WatchedIsIndexed ==
    \A u \in Users, a \in Accounts :
        watchlist[u][a] > 0 => u \in accountsToUsers[a]
=============================================================================
