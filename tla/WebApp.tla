------------------------------- MODULE WebApp -------------------------------
(***************************************************************************)
(* The web application as one process: the request handlers and the state  *)
(* of WatchRegistry, fed by the task of AlertConsumer.  A turn of "async   *)
(* for" is Consume of the one and ProcessMessage of the other in the same  *)
(* step; the module globals live as long as the process, the committed     *)
(* offset outlives it.                                                     *)
(***************************************************************************)
EXTENDS AlertConsumer

CONSTANTS
    Users, Accounts, AccountOf, Malformed, MaxCopies,  \* as in WatchRegistry
    MaxSetbacks  \* bound: rebalances whose commit fails, in the life of a process

ASSUME AppAssumption ==
    /\ Malformed \notin Accounts
    /\ AccountOf \in [1..MaxLog -> Accounts \cup {Malformed}]
    /\ MaxCopies \in Nat /\ MaxSetbacks \in Nat

VARIABLES
    userDb, watchlist, registerForAll, accountsToUsers, indexKeys,
    starredUsers, timeline, deliveries,  \* as in WatchRegistry
    setbacks     \* history: rebalances that moved the position back since the start

\* Messages are their places in the topic; a place is delivered to a process
\* once, and once more for each rebalance that moves the position back at most.
Registry == INSTANCE WatchRegistry
    WITH Messages <- 1..MaxLog, MaxDeliveries <- MaxSetbacks + 1

registryVars == <<userDb, watchlist, registerForAll, accountsToUsers,
                  indexKeys, starredUsers, timeline, deliveries>>
vars == <<consumerVars, registryVars, setbacks>>

TypeOK == ConsumerTypeOK /\ Registry!TypeOK /\ setbacks \in 0..MaxSetbacks

Init == ConsumerInit /\ Registry!Init /\ setbacks = 0

\* Requests are served while the process is up, whatever became of the task:
\* uvicorn serves once lifespan has created it.
Serve ==
    /\ task # "off"
    /\ Registry!HandleRequest
    /\ UNCHANGED <<consumerVars, setbacks>>

\* One turn of the consumer's loop.
Deliver ==
    /\ Consume
    /\ Registry!ProcessMessage(position + 1)
    /\ UNCHANGED setbacks

\* Everything the task, Kafka and the processor do apart from a delivery and a
\* rebalance.
Background ==
    /\ Publish \/ Connect \/ ConnectFails \/ AutoCommit \/ Fails \/ Ends
    /\ UNCHANGED <<registryVars, setbacks>>

\* A rebalance that commits moves nothing back and may happen any number of times.
Rebalance ==
    /\ Rejoin
    /\ setbacks' = IF position' < position THEN setbacks + 1 ELSE setbacks
    /\ setbacks' <= MaxSetbacks
    /\ UNCHANGED registryVars

\* Mutant: the registry outlives the process that held it.
StartRemembers == Boot /\ setbacks' = 0 /\ UNCHANGED registryVars

\* Mutant: the index of the process before is still there.
StartKeepsIndex ==
    /\ Boot
    /\ setbacks' = 0
    /\ userDb' = {}
    /\ watchlist' = [u \in Users |-> [a \in Accounts |-> 0]]
    /\ registerForAll' = [u \in Users |-> FALSE]
    /\ starredUsers' = {}
    /\ timeline' = [u \in Users |-> [m \in 1..MaxLog |-> 0]]
    /\ deliveries' = [m \in 1..MaxLog |-> 0]
    /\ UNCHANGED <<accountsToUsers, indexKeys>>

\* A new process imports app.py and starts with empty globals.
Start == Boot /\ Registry!Restart /\ setbacks' = 0

Next == Serve \/ Deliver \/ Background \/ Rebalance \/ Start

\* The fairness of AlertConsumer but for that of commits, which the bound on
\* setbacks stands for; no user has to do anything.
Fairness ==
    /\ WF_vars((Connect \/ ConnectFails) /\ UNCHANGED <<registryVars, setbacks>>)
    /\ WF_vars(Deliver)

Spec == Init /\ [][Next]_vars /\ Fairness

(***************************************************************************)
(* Properties                                                              *)
(***************************************************************************)

\* A process handles a message once, and once more only for a rebalance whose
\* commit failed: nothing else, no other rebalance either, delivers a message to
\* the same timelines twice.
DeliveriesExplained ==
    \A m \in 1..MaxLog : deliveries[m] <= 1 + setbacks

\* Fed by the task, the registry still behaves as WatchRegistry says, with a
\* bound on deliveries that only the number of setbacks sets.
ImplementsRegistry == Registry!Spec

Ended == task \in {"off", "dead"}

\* While somebody is registered for everything, a well-formed message still to
\* be read gets into their timeline, unless they unregister or the task ends.
\* Rebalances fail to commit finitely often here (MaxSetbacks); AlertConsumer
\* shows what becomes of a task without that bound.
RegisteredGetsAlerts ==
    \A u \in Users, m \in {k \in 1..MaxLog : AccountOf[k] # Malformed} :
        (task = "running" /\ registerForAll[u] /\ position < m /\ m <= logEnd)
          ~> (timeline[u][m] > 0 \/ ~registerForAll[u] \/ Ended)
=============================================================================
