------------------------ MODULE WatchRegistryProofs ------------------------
(***************************************************************************)
(* WatchRegistry for any users, accounts, messages and bounds.  IInv is    *)
(* inductive: the types, the two relations between what a user sees and    *)
(* what the fan-out reads, and the bound on copies.  Each of the last three *)
(* needs the types; none needs another, but the action properties and the  *)
(* refinement of AlertBoard need the two relations.                        *)
(***************************************************************************)
EXTENDS WatchRegistry, TLAPS

Inv == TypeOK /\ IndexedIsWatched /\ StarredIsRegistered /\ CopiesBounded

-----------------------------------------------------------------------------

\* The copies one delivery appends: 0, 1 or 2.
LEMMA CopiesForRange ==
    ASSUME NEW u \in Users, NEW m \in Messages
    PROVE  CopiesFor(u, m) \in {0, 1, 2}
BY DEF CopiesFor

\* Removing an entry never leaves a negative count, and shortens a list that
\* has the entry.
LEMMA EntriesAfterRemoveIsNat ==
    ASSUME NEW n \in Nat
    PROVE  /\ EntriesAfterRemove(n) \in Nat
           /\ n > 0 => EntriesAfterRemove(n) < n
BY DEF EntriesAfterRemove

\* Every step keeps each variable in its type: in particular delete_account
\* never removes an entry that is not there.
LEMMA TypeStep ==
    ASSUME TypeOK, [Next]_vars
    PROVE  TypeOK'
<1> USE RegistryAssumption DEF TypeOK
<1>1. ASSUME NEW u \in Users, Dashboard(u)
      PROVE  TypeOK'
  BY <1>1 DEF Dashboard
<1>2. ASSUME NEW u \in Users, NEW a \in Accounts, AddAccount(u, a)
      PROVE  TypeOK'
  BY <1>2 DEF AddAccount
<1>3. ASSUME NEW u \in Users, NEW a \in Accounts, DeleteAccount(u, a)
      PROVE  TypeOK'
  <2>1. watchlist' \in [Users -> [Accounts -> Nat]]
    BY <1>3, EntriesAfterRemoveIsNat DEF DeleteAccount
  <2>2. accountsToUsers' \in [Accounts -> SUBSET Users]
    BY <1>3 DEF DeleteAccount, DiscardUser
  <2>3. QED
    BY <1>3, <2>1, <2>2 DEF DeleteAccount
<1>4. ASSUME NEW u \in Users, StartRegisterForAll(u)
      PROVE  TypeOK'
  BY <1>4 DEF StartRegisterForAll, DiscardListed, Listed, NoAccounts
<1>5. ASSUME NEW u \in Users, StopRegisterForAll(u)
      PROVE  TypeOK'
  BY <1>5 DEF StopRegisterForAll
<1>6. ASSUME NEW m \in Messages, ProcessMessage(m)
      PROVE  TypeOK'
  <2>1. deliveries' \in [Messages -> Nat]
    BY <1>6 DEF ProcessMessage
  <2>2. /\ indexKeys' \subseteq Accounts
        /\ timeline' \in [Users -> [Messages -> Nat]]
    <3>1. CASE AccountOf[m] = Malformed
      BY <1>6, <3>1 DEF ProcessMessage
    <3>2. CASE AccountOf[m] # Malformed
      <4>1. timeline' = [u \in Users |->
                           [timeline[u] EXCEPT ![m] = @ + CopiesFor(u, m)]]
        BY <1>6, <3>2 DEF ProcessMessage
      <4>2. ASSUME NEW u \in Users
            PROVE  [timeline[u] EXCEPT ![m] = @ + CopiesFor(u, m)]
                     \in [Messages -> Nat]
        <5>1. timeline[u][m] + CopiesFor(u, m) \in Nat
          BY CopiesForRange
        <5>2. QED
          BY <5>1
      <4>3. QED
        BY <1>6, <3>2, <4>1, <4>2 DEF ProcessMessage
    <3>3. QED
      BY <3>1, <3>2
  <2>3. QED
    BY <1>6, <2>1, <2>2 DEF ProcessMessage
<1>7. CASE Restart
  BY <1>7 DEF Restart, NoAccounts
<1>8. CASE UNCHANGED vars
  BY <1>8 DEF vars
<1>9. QED
  BY <1>1, <1>2, <1>3, <1>4, <1>5, <1>6, <1>7, <1>8 DEF Next, HandleRequest

\* The index stays within the lists: a handler that shortens a list drops the
\* same user from the index entry of the same account.
LEMMA IndexedStep ==
    ASSUME TypeOK, IndexedIsWatched, [Next]_vars
    PROVE  IndexedIsWatched'
<1> SUFFICES ASSUME NEW v \in Users, NEW b \in Accounts,
                    v \in accountsToUsers'[b]
             PROVE  watchlist'[v][b] > 0
  BY DEF IndexedIsWatched
<1> USE DEF TypeOK
<1>0. v \in accountsToUsers[b] => watchlist[v][b] > 0
  BY DEF IndexedIsWatched
<1>1. ASSUME NEW u \in Users, Dashboard(u)
      PROVE  watchlist'[v][b] > 0
  BY <1>0, <1>1 DEF Dashboard
<1>2. ASSUME NEW u \in Users, NEW a \in Accounts, AddAccount(u, a)
      PROVE  watchlist'[v][b] > 0
  <2>1. CASE u = v /\ a = b
    BY <1>2, <2>1 DEF AddAccount
  <2>2. CASE ~(u = v /\ a = b)
    <3>1. watchlist'[v][b] = watchlist[v][b]
      BY <1>2, <2>2 DEF AddAccount
    <3>2. v \in accountsToUsers[b]
      BY <1>2, <2>2 DEF AddAccount
    <3>3. QED
      BY <1>0, <3>1, <3>2
  <2>3. QED
    BY <2>1, <2>2
<1>3. ASSUME NEW u \in Users, NEW a \in Accounts, DeleteAccount(u, a)
      PROVE  watchlist'[v][b] > 0
  <2>1. ~(u = v /\ a = b) /\ v \in accountsToUsers[b]
    BY <1>3 DEF DeleteAccount, DiscardUser
  <2>2. watchlist'[v][b] = watchlist[v][b]
    BY <1>3, <2>1 DEF DeleteAccount
  <2>3. QED
    BY <1>0, <2>1, <2>2
<1>4. ASSUME NEW u \in Users, StartRegisterForAll(u)
      PROVE  watchlist'[v][b] > 0
  <2>1. v \in accountsToUsers[b]
    BY <1>4 DEF StartRegisterForAll, DiscardListed
  <2>2. v # u
    BY <1>0, <1>4, <2>1 DEF StartRegisterForAll, DiscardListed, Listed
  <2>3. QED
    BY <1>0, <1>4, <2>1, <2>2 DEF StartRegisterForAll
<1>5. ASSUME NEW u \in Users, StopRegisterForAll(u)
      PROVE  watchlist'[v][b] > 0
  BY <1>0, <1>5 DEF StopRegisterForAll
<1>6. ASSUME NEW m \in Messages, ProcessMessage(m)
      PROVE  watchlist'[v][b] > 0
  BY <1>0, <1>6 DEF ProcessMessage
<1>7. CASE Restart
  BY <1>7 DEF Restart
<1>8. CASE UNCHANGED vars
  BY <1>0, <1>8 DEF vars
<1>9. QED
  BY <1>1, <1>2, <1>3, <1>4, <1>5, <1>6, <1>7, <1>8 DEF Next, HandleRequest

\* starred_users follows the flag in both directions of set_register_for_all.
LEMMA StarredStep ==
    ASSUME TypeOK, StarredIsRegistered, [Next]_vars
    PROVE  StarredIsRegistered'
<1> USE DEF TypeOK, StarredIsRegistered, Registered
<1>1. ASSUME UNCHANGED <<registerForAll, starredUsers>>
      PROVE  StarredIsRegistered'
  BY <1>1
<1>2. ASSUME NEW u \in Users, StartRegisterForAll(u)
      PROVE  StarredIsRegistered'
  BY <1>2 DEF StartRegisterForAll
<1>3. ASSUME NEW u \in Users, StopRegisterForAll(u)
      PROVE  StarredIsRegistered'
  BY <1>3 DEF StopRegisterForAll
<1>4. CASE Restart
  BY <1>4 DEF Restart
<1>5. QED
  BY <1>1, <1>2, <1>3, <1>4
  DEF Next, HandleRequest, Dashboard, AddAccount, DeleteAccount,
      ProcessMessage, vars

\* Each delivery raises the bound by two and a timeline by at most two.
LEMMA CopiesStep ==
    ASSUME TypeOK, CopiesBounded, [Next]_vars
    PROVE  CopiesBounded'
<1> SUFFICES ASSUME NEW v \in Users, NEW n \in Messages
             PROVE  timeline'[v][n] <= 2 * deliveries'[n]
  BY DEF CopiesBounded
<1> USE DEF TypeOK
<1>0. timeline[v][n] <= 2 * deliveries[n]
  BY DEF CopiesBounded
<1>1. CASE UNCHANGED <<timeline, deliveries>>
  BY <1>0, <1>1
<1>2. ASSUME NEW m \in Messages, ProcessMessage(m)
      PROVE  timeline'[v][n] <= 2 * deliveries'[n]
  <2>1. \/ timeline'[v][n] = timeline[v][n]
        \/ n = m /\ timeline'[v][n] = timeline[v][n] + CopiesFor(v, n)
    <3>1. CASE AccountOf[m] = Malformed
      BY <1>2, <3>1 DEF ProcessMessage
    <3>2. CASE AccountOf[m] # Malformed
      <4>1. timeline'[v] = [timeline[v] EXCEPT ![m] = @ + CopiesFor(v, m)]
        BY <1>2, <3>2 DEF ProcessMessage
      <4>2. QED
        BY <4>1
    <3>3. QED
      BY <3>1, <3>2
  <2>2. /\ deliveries'[n] \in Nat
        /\ deliveries'[n] >= deliveries[n]
        /\ n = m => deliveries'[n] = deliveries[n] + 1
    BY <1>2 DEF ProcessMessage
  <2>3. timeline[v][n] \in Nat /\ deliveries[n] \in Nat
    OBVIOUS
  <2>4. QED
    BY <1>0, <2>1, <2>2, <2>3, CopiesForRange
<1>3. CASE Restart
  BY <1>3 DEF Restart
<1>4. QED
  BY <1>1, <1>2, <1>3
  DEF Next, HandleRequest, Dashboard, AddAccount, DeleteAccount,
      StartRegisterForAll, StopRegisterForAll, vars

-----------------------------------------------------------------------------

\* The initial state, empty dictionaries, satisfies all of them.
LEMMA InitInv == Init => Inv
BY DEF Init, Inv, TypeOK, NoAccounts, IndexedIsWatched, StarredIsRegistered,
       Registered, CopiesBounded

\* Inv is inductive.
THEOREM Invariance == Spec => []Inv
<1>1. Inv /\ [Next]_vars => Inv'
  BY TypeStep, IndexedStep, StarredStep, CopiesStep DEF Inv
<1>2. QED
  BY InitInv, <1>1, PTL DEF Spec

\* The types of the application's dictionaries, for every number of users,
\* accounts and messages; no list of accounts has a negative number of entries.
THEOREM TypeCorrect == Spec => []TypeOK
BY Invariance, PTL DEF Inv

\* Nobody is indexed under an account their dashboard does not list.
THEOREM IndexedIsWatchedHolds == Spec => []IndexedIsWatched
BY Invariance, PTL DEF Inv

\* The fan-out's set of users and the dashboard's flag agree.
THEOREM StarredIsRegisteredHolds == Spec => []StarredIsRegistered
BY Invariance, PTL DEF Inv

\* At most two entries for a delivery.
THEOREM CopiesBoundedHolds == Spec => []CopiesBounded
BY Invariance, PTL DEF Inv

-----------------------------------------------------------------------------

\* What one step may do to a timeline: nothing, start over, or take the copies
\* of the one message that is delivered.
LEMMA TimelineStep ==
    ASSUME TypeOK, [Next]_vars, NEW v \in Users, NEW n \in Messages
    PROVE  \/ timeline'[v][n] = timeline[v][n] /\ deliveries'[n] = deliveries[n]
           \/ timeline'[v][n] = 0 /\ deliveries'[n] = 0
           \/ /\ deliveries'[n] = deliveries[n] + 1
              /\ timeline'[v][n] = IF AccountOf[n] = Malformed
                                   THEN timeline[v][n]
                                   ELSE timeline[v][n] + CopiesFor(v, n)
<1> USE DEF TypeOK
<1>1. CASE UNCHANGED <<timeline, deliveries>>
  BY <1>1
<1>2. ASSUME NEW m \in Messages, ProcessMessage(m)
      PROVE  IF n = m
             THEN /\ deliveries'[n] = deliveries[n] + 1
                  /\ timeline'[v][n] = IF AccountOf[n] = Malformed
                                       THEN timeline[v][n]
                                       ELSE timeline[v][n] + CopiesFor(v, n)
             ELSE timeline'[v][n] = timeline[v][n] /\ deliveries'[n] = deliveries[n]
  <2>1. deliveries'[n] = IF n = m THEN deliveries[n] + 1 ELSE deliveries[n]
    BY <1>2 DEF ProcessMessage
  <2>2. CASE AccountOf[m] = Malformed
    BY <1>2, <2>1, <2>2 DEF ProcessMessage
  <2>3. CASE AccountOf[m] # Malformed
    <3>1. timeline'[v] = [timeline[v] EXCEPT ![m] = @ + CopiesFor(v, m)]
      BY <1>2, <2>3 DEF ProcessMessage
    <3>2. QED
      BY <2>1, <2>3, <3>1
  <2>4. QED
    BY <2>2, <2>3
<1>3. CASE Restart
  BY <1>3 DEF Restart
<1>4. QED
  BY <1>1, <1>2, <1>3
  DEF Next, HandleRequest, Dashboard, AddAccount, DeleteAccount,
      StartRegisterForAll, StopRegisterForAll, vars

\* No user sees an alert their own settings did not ask for: what the fan-out
\* reads (index and starred_users) is covered by what the dashboard shows.
THEOREM NoUnrequestedAlertHolds == Spec => NoUnrequestedAlert
<1>1. Inv /\ [Next]_vars => AlertsAreRequested
  <2> SUFFICES ASSUME Inv, [Next]_vars,
                      NEW u \in Users, NEW m \in Messages,
                      timeline'[u][m] > timeline[u][m]
               PROVE  registerForAll[u] \/ AccountOf[m] \in Listed(u)
    BY DEF AlertsAreRequested
  <2>1. AccountOf[m] \in Accounts /\ CopiesFor(u, m) # 0
    BY TimelineStep, RegistryAssumption DEF Inv, TypeOK
  <2>2. u \in accountsToUsers[AccountOf[m]] \/ u \in starredUsers
    BY <2>1 DEF CopiesFor
  <2>3. QED
    BY <2>1, <2>2
    DEF Inv, IndexedIsWatched, StarredIsRegistered, Registered, Listed
<1>2. QED
  BY <1>1, Invariance, PTL DEF Spec, NoUnrequestedAlert

\* Whoever is registered for everything gets every well-formed message that is
\* delivered, whatever they and others did to their settings before.
THEOREM MonitorAllHolds == Spec => MonitorAllNeverMisses
<1>1. Inv /\ [Next]_vars => DeliveriesReachRegistered
  <2> SUFFICES ASSUME Inv, [Next]_vars,
                      NEW u \in Users, NEW m \in Messages,
                      deliveries'[m] > deliveries[m],
                      AccountOf[m] # Malformed,
                      registerForAll[u]
               PROVE  timeline'[u][m] > timeline[u][m]
    BY DEF DeliveriesReachRegistered
  <2>1. timeline'[u][m] = timeline[u][m] + CopiesFor(u, m)
    BY TimelineStep DEF Inv, TypeOK
  <2>2. CopiesFor(u, m) \in {1, 2}
    BY DEF Inv, StarredIsRegistered, Registered, CopiesFor
  <2>3. timeline[u][m] \in Nat
    BY DEF Inv, TypeOK
  <2>4. QED
    BY <2>1, <2>2, <2>3
<1>2. QED
  BY <1>1, Invariance, PTL DEF Spec, MonitorAllNeverMisses

\* One user's requests never take another user out of the index.
THEOREM LosesOnlyOwnHolds == Spec => LosesOnlyOwn
<1>1. Inv /\ [Next]_vars => LossesShortenLists
  <2> SUFFICES ASSUME Inv, [Next]_vars,
                      NEW v \in Users, NEW b \in Accounts,
                      v \in accountsToUsers[b], v \notin accountsToUsers'[b]
               PROVE  watchlist'[v][b] < watchlist[v][b]
    BY DEF LossesShortenLists
  <2> USE DEF Inv, TypeOK
  <2>0. watchlist[v][b] \in Nat /\ watchlist[v][b] > 0
    BY DEF IndexedIsWatched
  <2>1. ASSUME NEW u \in Users, NEW a \in Accounts, AddAccount(u, a)
        PROVE  FALSE
    BY <2>1 DEF AddAccount
  <2>2. ASSUME NEW u \in Users, NEW a \in Accounts, DeleteAccount(u, a)
        PROVE  watchlist'[v][b] < watchlist[v][b]
    <3>1. u = v /\ a = b
      BY <2>2 DEF DeleteAccount, DiscardUser
    <3>2. watchlist'[v][b] = EntriesAfterRemove(watchlist[v][b])
      BY <2>2, <3>1 DEF DeleteAccount
    <3>3. QED
      BY <2>0, <3>2, EntriesAfterRemoveIsNat
  <2>3. ASSUME NEW u \in Users, StartRegisterForAll(u)
        PROVE  watchlist'[v][b] < watchlist[v][b]
    <3>1. u = v
      BY <2>3 DEF StartRegisterForAll, DiscardListed
    <3>2. watchlist'[v][b] = 0
      BY <2>3, <3>1 DEF StartRegisterForAll, NoAccounts
    <3>3. QED
      BY <2>0, <3>2
  <2>4. CASE Restart
    BY <2>0, <2>4 DEF Restart, NoAccounts
  <2>5. CASE UNCHANGED accountsToUsers
    BY <2>5
  <2>6. QED
    BY <2>1, <2>2, <2>3, <2>4, <2>5
    DEF Next, HandleRequest, Dashboard, StopRegisterForAll, ProcessMessage, vars
<1>2. QED
  BY <1>1, Invariance, PTL DEF Spec, LosesOnlyOwn

-----------------------------------------------------------------------------
(***************************************************************************)
(* WatchRegistry implements AlertBoard: every step of the handlers and of  *)
(* the fan-out is a step of the board or changes nothing the board has.    *)
(***************************************************************************)

\* The empty dictionaries are the empty board.
LEMMA InitRefines == Init => Board!Init
<1> SUFFICES ASSUME Init PROVE Board!Init
  OBVIOUS
<1>1. Interest = {}
  BY DEF Init, Interest
<1>2. Registered = {}
  BY DEF Init, Registered
<1>3. timeline = Board!EmptyBoard
  BY DEF Init, Board!EmptyBoard
<1>4. QED
  BY <1>1, <1>2, <1>3 DEF Board!Init

\* add_account watches, delete_account unwatches one account.
LEMMA ListRefines ==
    ASSUME TypeOK, NEW u \in Users, NEW a \in Accounts
    PROVE  /\ AddAccount(u, a) => Board!Watch(u, a)
           /\ DeleteAccount(u, a) => Board!Unwatch(u, a)
<1> USE DEF TypeOK, Interest, Registered
<1>1. ASSUME AddAccount(u, a)
      PROVE  Board!Watch(u, a)
  <2>1. Interest' = Interest \cup {<<u, a>>}
    BY <1>1 DEF AddAccount
  <2>2. QED
    BY <1>1, <2>1 DEF AddAccount, Board!Watch
<1>2. ASSUME DeleteAccount(u, a)
      PROVE  Board!Unwatch(u, a)
  <2>1. Interest' = Interest \ {<<u, a>>}
    BY <1>2 DEF DeleteAccount, DiscardUser
  <2>2. QED
    BY <1>2, <2>1 DEF DeleteAccount, Board!Unwatch
<1>3. QED
  BY <1>1, <1>2

\* set_register_for_all takes the user out of every index entry, also of the
\* accounts its loop does not visit: the user is in no such entry.
LEMMA RegisterRefines ==
    ASSUME Inv, NEW u \in Users
    PROVE  /\ StartRegisterForAll(u) => Board!WatchEverything(u)
           /\ StopRegisterForAll(u) => Board!UnwatchEverything(u)
<1> USE DEF Inv, TypeOK
<1>1. ASSUME StartRegisterForAll(u)
      PROVE  Board!WatchEverything(u)
  <2>1. \A a \in Accounts : accountsToUsers'[a] = accountsToUsers[a] \ {u}
    BY <1>1 DEF StartRegisterForAll, DiscardListed, Listed, IndexedIsWatched
  <2>2. Interest' = Interest \ Board!InterestsOf(u)
    BY <2>1 DEF Interest, Board!InterestsOf
  <2>3. Registered' = Registered \cup {u}
    BY <1>1 DEF StartRegisterForAll, Registered
  <2>4. QED
    BY <1>1, <2>2, <2>3 DEF StartRegisterForAll, Board!WatchEverything
<1>2. ASSUME StopRegisterForAll(u)
      PROVE  Board!UnwatchEverything(u)
  <2>1. Registered' = Registered \ {u}
    BY <1>2 DEF StopRegisterForAll, Registered
  <2>2. QED
    BY <1>2, <2>1 DEF StopRegisterForAll, Board!UnwatchEverything, Interest
<1>3. QED
  BY <1>1, <1>2

\* The fan-out posts exactly the copies that are due.
LEMMA DeliveryRefines ==
    ASSUME Inv, NEW m \in Messages, ProcessMessage(m)
    PROVE  \/ Board!Post(m)
           \/ UNCHANGED <<Interest, Registered, timeline>>
<1> USE DEF Inv, TypeOK
<1>1. UNCHANGED <<Interest, Registered>>
  BY DEF ProcessMessage, Interest, Registered
<1>2. CASE AccountOf[m] = Malformed
  BY <1>1, <1>2 DEF ProcessMessage
<1>3. CASE AccountOf[m] # Malformed
  <2>1. AccountOf[m] \in Accounts
    BY <1>3, RegistryAssumption
  <2>2. ASSUME NEW u \in Users
        PROVE  CopiesFor(u, m) = Board!CopiesDue(u, m)
    <3>1. u \in accountsToUsers[AccountOf[m]] <=> <<u, AccountOf[m]>> \in Interest
      BY <2>1 DEF Interest
    <3>2. u \in starredUsers <=> u \in Registered
      BY DEF StarredIsRegistered
    <3>3. QED
      BY <3>1, <3>2 DEF CopiesFor, Board!CopiesDue
  <2>3. timeline' = [u \in Users |->
                       [timeline[u] EXCEPT ![m] = @ + CopiesFor(u, m)]]
    BY <1>3 DEF ProcessMessage
  <2>4. timeline' = [u \in Users |->
                       [timeline[u] EXCEPT ![m] = @ + Board!CopiesDue(u, m)]]
    BY <2>2, <2>3
  <2>5. QED
    BY <1>1, <1>3, <2>4 DEF Board!Post
<1>4. QED
  BY <1>2, <1>3

\* A restart forgets everything the board holds.
LEMMA RestartRefines == Restart => Board!Forget
<1> SUFFICES ASSUME Restart PROVE Board!Forget
  OBVIOUS
<1>1. Interest' = {}
  BY DEF Restart, Interest
<1>2. Registered' = {}
  BY DEF Restart, Registered
<1>3. timeline' = Board!EmptyBoard
  BY DEF Restart, Board!EmptyBoard
<1>4. QED
  BY <1>1, <1>2, <1>3 DEF Board!Forget

\* The three data structures and the fan-out together keep the promise of
\* AlertBoard: interests, registrations and posts, for any number of each.
THEOREM RegistryImplementsBoard == Spec => ImplementsBoard
<1>1. Inv /\ [Next]_vars => [Board!Next]_(Board!vars)
  <2> SUFFICES ASSUME Inv, [Next]_vars
               PROVE  Board!Next \/ UNCHANGED <<Interest, Registered, timeline>>
    BY DEF Board!vars
  <2>1. ASSUME NEW u \in Users, NEW a \in Accounts,
               AddAccount(u, a) \/ DeleteAccount(u, a)
        PROVE  Board!Next
    BY <2>1, ListRefines DEF Inv, Board!Next
  <2>2. ASSUME NEW u \in Users, StartRegisterForAll(u) \/ StopRegisterForAll(u)
        PROVE  Board!Next
    BY <2>2, RegisterRefines DEF Board!Next
  <2>3. ASSUME NEW m \in Messages, ProcessMessage(m)
        PROVE  Board!Next \/ UNCHANGED <<Interest, Registered, timeline>>
    BY <2>3, DeliveryRefines DEF Board!Next
  <2>4. CASE Restart
    BY <2>4, RestartRefines DEF Board!Next
  <2>5. ASSUME UNCHANGED <<accountsToUsers, registerForAll, timeline>>
        PROVE  UNCHANGED <<Interest, Registered, timeline>>
    BY <2>5 DEF Interest, Registered
  <2>6. QED
    BY <2>1, <2>2, <2>3, <2>4, <2>5 DEF Next, HandleRequest, Dashboard, vars
<1>2. QED
  BY InitRefines, Invariance, <1>1, PTL DEF Spec, ImplementsBoard, Board!Spec

=============================================================================
