---------------------------- MODULE WebAppProofs ----------------------------
(***************************************************************************)
(* The consumer task on its own, and the web application composed of the   *)
(* task and the registry.                                                  *)
(*                                                                         *)
(* AlertConsumer, for any length of topic and any number of restarts and   *)
(* rebalances: what is committed was handled.  This is inductive only      *)
(* together with what a running task knows, namely that everything up to   *)
(* its position was handled and that the commit is not ahead of it.        *)
(*                                                                         *)
(* WebApp: a message is delivered again only where the position went back, *)
(* and only a rebalance moves it back, when its commit fails: so a message *)
(* beyond the position was delivered at most once per such setback, and    *)
(* one behind it once more.                                                *)
(* This bound is what lets the registry be studied on its own, with        *)
(* MaxDeliveries = MaxSetbacks + 1; all that WatchRegistryProofs shows of   *)
(* the registry then holds of the application.                             *)
(***************************************************************************)
EXTENDS WebApp, TLAPS

PositionIsHandled == \A k \in 1..position : k \in handled

RunningIsAhead ==
    task = "running" => PositionIsHandled /\ committed <= position

ConsumerInv ==
    /\ ConsumerTypeOK
    /\ CommittedIsHandled
    /\ HandledInOrder
    /\ RunningIsAhead

-----------------------------------------------------------------------------

\* Every step keeps the types; in particular no position and no commit gets
\* past the end of the topic.
LEMMA ConsumerTypeStep ==
    ASSUME ConsumerTypeOK, RunningIsAhead, [ConsumerNext]_consumerVars
    PROVE  ConsumerTypeOK'
<1> USE ConsumerAssumption DEF ConsumerTypeOK, TaskStates
<1>1. CASE Publish
  BY <1>1 DEF Publish
<1>2. CASE Boot
  BY <1>2 DEF Boot
<1>3. CASE Connect
  BY <1>3 DEF Connect, StartOffset
<1>4. CASE ConnectFails
  BY <1>4 DEF ConnectFails
<1>5. CASE Consume
  BY <1>5 DEF Consume
<1>6. CASE AutoCommit
  BY <1>6 DEF AutoCommit
<1>7. CASE Rejoin
  BY <1>7 DEF Rejoin, LastCommit
<1>8. CASE Fails
  BY <1>8 DEF Fails, LastCommit
<1>9. CASE Shutdown
  BY <1>9 DEF Shutdown, LastCommit
<1>10. CASE Crash
  BY <1>10 DEF Crash
<1>11. CASE UNCHANGED consumerVars
  BY <1>11 DEF consumerVars
<1>12. QED
  BY <1>1, <1>2, <1>3, <1>4, <1>5, <1>6, <1>7, <1>8, <1>9, <1>10, <1>11
  DEF ConsumerNext, Ends

\* Only Consume handles a message, and it is the one after the position.
LEMMA HandledStep ==
    ASSUME [ConsumerNext]_consumerVars
    PROVE  UNCHANGED handled \/ Consume
BY DEF ConsumerNext, Ends, Publish, Boot, Connect, ConnectFails, AutoCommit,
       Rejoin, Fails, Shutdown, Crash, consumerVars

\* What is committed next is what was committed or what a running task has
\* reached.
LEMMA CommitStep ==
    ASSUME [ConsumerNext]_consumerVars
    PROVE  committed' = committed \/ (task = "running" /\ committed' = position)
BY DEF ConsumerNext, Ends, Publish, Boot, Connect, ConnectFails, Consume,
       AutoCommit, Rejoin, Fails, Shutdown, Crash, LastCommit, consumerVars

\* At-least-once and in order, step by step.
LEMMA ConsumerStep ==
    ASSUME ConsumerInv, [ConsumerNext]_consumerVars
    PROVE  ConsumerInv'
<1>0. ConsumerTypeOK'
  BY ConsumerTypeStep DEF ConsumerInv
<1> USE DEF ConsumerInv, ConsumerTypeOK
<1>1. handled \subseteq handled'
  BY HandledStep DEF Consume
<1>2. CommittedIsHandled'
  <2>1. CASE committed' = committed
    BY <1>1, <2>1 DEF CommittedIsHandled
  <2>2. CASE task = "running" /\ committed' = position
    BY <1>1, <2>2 DEF CommittedIsHandled, RunningIsAhead, PositionIsHandled
  <2>3. QED
    BY CommitStep, <2>1, <2>2
<1>3. HandledInOrder'
  <2>1. CASE UNCHANGED handled
    BY <2>1 DEF HandledInOrder
  <2>2. CASE Consume
    <3>1. 1..position \subseteq handled
      BY <2>2 DEF Consume, RunningIsAhead, PositionIsHandled
    <3>2. 1..(position + 1) \subseteq handled'
      BY <2>2, <3>1 DEF Consume
    <3>3. ASSUME NEW k \in handled PROVE 1..k \subseteq handled'
      BY <1>1, <3>3 DEF HandledInOrder
    <3>4. QED
      BY <2>2, <3>2, <3>3 DEF Consume, HandledInOrder
  <2>3. QED
    BY HandledStep, <2>1, <2>2
<1>4. RunningIsAhead'
  <2> USE DEF RunningIsAhead, PositionIsHandled
  <2>1. CASE Connect
    BY <2>1 DEF Connect, StartOffset, CommittedIsHandled
  <2>2. CASE Consume
    BY <2>2 DEF Consume
  <2>3. CASE AutoCommit
    BY <2>3 DEF AutoCommit
  <2>4. CASE Rejoin
    BY <1>0, <1>1, <1>2, <2>4 DEF Rejoin, CommittedIsHandled
  <2>5. CASE Publish \/ UNCHANGED consumerVars
    BY <2>5 DEF Publish, consumerVars
  <2>6. CASE Boot \/ ConnectFails \/ Fails \/ Ends
    BY <2>6 DEF Boot, ConnectFails, Fails, Ends, Shutdown, Crash
  <2>7. QED
    BY <2>1, <2>2, <2>3, <2>4, <2>5, <2>6 DEF ConsumerNext
<1>5. QED
  BY <1>0, <1>2, <1>3, <1>4

-----------------------------------------------------------------------------

LEMMA ConsumerInitInv == ConsumerInit => ConsumerInv
BY ConsumerAssumption
DEF ConsumerInit, ConsumerInv, ConsumerTypeOK, TaskStates, CommittedIsHandled,
    HandledInOrder, RunningIsAhead

\* ConsumerInv is inductive; the fairness conditions play no part.
THEOREM ConsumerInvariance == ConsumerSpec => []ConsumerInv
BY ConsumerInitInv, ConsumerStep, PTL DEF ConsumerSpec

\* The client's position and the group's commit stay within the topic.
THEOREM ConsumerTypeCorrect == ConsumerSpec => []ConsumerTypeOK
BY ConsumerInvariance, PTL DEF ConsumerInv

\* At-least-once: whatever crashes and rebalances happen, an offset is
\* committed only after all messages below it went through process_message.
THEOREM AtLeastOnce == ConsumerSpec => []CommittedIsHandled
BY ConsumerInvariance, PTL DEF ConsumerInv

\* Messages are first handled in the order of the topic, with no gaps.
THEOREM InOrder == ConsumerSpec => []HandledInOrder
BY ConsumerInvariance, PTL DEF ConsumerInv

\* The group's commit never goes back, so no process repeats what an earlier
\* one had committed.
THEOREM CommitsAdvanceHolds == ConsumerSpec => CommitsAdvance
<1>1. ConsumerInv /\ [ConsumerNext]_consumerVars => committed' >= committed
  BY CommitStep DEF ConsumerInv, ConsumerTypeOK, RunningIsAhead
<1>2. QED
  BY <1>1, ConsumerInvariance, PTL DEF ConsumerSpec, CommitsAdvance

-----------------------------------------------------------------------------
(***************************************************************************)
(* The application                                                         *)
(***************************************************************************)

DeliveriesType == deliveries \in [1..MaxLog -> Nat]

DeliveriesByPosition ==
    \A m \in 1..MaxLog :
        deliveries[m] <= IF m <= position THEN 1 + setbacks ELSE setbacks

NothingYet == task = "starting" => \A m \in 1..MaxLog : deliveries[m] = 0

SetbacksType == setbacks \in 0..MaxSetbacks

AppInv ==
    /\ ConsumerInv /\ SetbacksType /\ DeliveriesType
    /\ DeliveriesByPosition /\ NothingYet

\* Of the task's variables every step of the application is one of the task's.
LEMMA AppStepsTheTask ==
    ASSUME [Next]_vars
    PROVE  [ConsumerNext]_consumerVars
BY DEF Next, vars, Serve, Deliver, Background, Rebalance, Start, ConsumerNext

\* Requests do not deliver anything.
LEMMA RequestsDeliverNothing == Registry!HandleRequest => UNCHANGED deliveries
BY DEF Registry!HandleRequest, Registry!Dashboard, Registry!AddAccount,
       Registry!DeleteAccount, Registry!StartRegisterForAll,
       Registry!StopRegisterForAll

\* The bound by position is kept by every step.
LEMMA AppStep ==
    ASSUME AppInv, [Next]_vars
    PROVE  AppInv'
<1>0. ConsumerInv'
  BY AppStepsTheTask, ConsumerStep DEF AppInv
<1>00. ConsumerTypeOK /\ ConsumerTypeOK'
  BY <1>0 DEF AppInv, ConsumerInv
<1> USE AppAssumption
    DEF AppInv, ConsumerInv, ConsumerTypeOK, SetbacksType, DeliveriesType,
        DeliveriesByPosition, NothingYet
<1>1. CASE Serve
  BY <1>0, <1>00, <1>1, RequestsDeliverNothing DEF Serve, consumerVars
<1>2. CASE Deliver
  <2>1. deliveries' = [deliveries EXCEPT ![position + 1] = @ + 1]
    BY <1>2 DEF Deliver, Registry!ProcessMessage
  <2>2. /\ position + 1 \in 1..MaxLog
        /\ position' = position + 1 /\ UNCHANGED <<task, setbacks>>
        /\ task = "running"
    BY <1>00, <1>2, ConsumerAssumption DEF Deliver, Consume
  <2>3. ASSUME NEW m \in 1..MaxLog
        PROVE  deliveries'[m] <= IF m <= position' THEN 1 + setbacks' ELSE setbacks'
    BY <1>00, <2>1, <2>2
  <2>4. QED
    BY <1>0, <1>00, <2>1, <2>2, <2>3
<1>3. CASE Background
  <2>1. UNCHANGED deliveries
    BY <1>3 DEF Background, registryVars
  <2>2. UNCHANGED setbacks
    BY <1>3 DEF Background
  <2>3. CASE Connect
    BY <1>0, <1>00, <2>1, <2>2, <2>3 DEF Connect
  <2>4. CASE Publish \/ ConnectFails \/ AutoCommit \/ Fails \/ Ends
    BY <1>0, <1>00, <2>1, <2>2, <2>4
    DEF Publish, ConnectFails, AutoCommit, Fails, Ends, Shutdown, Crash
  <2>5. QED
    BY <1>3, <2>3, <2>4 DEF Background
<1>4. CASE Start
  BY <1>0, <1>00, <1>4 DEF Start, Boot, Registry!Restart
<1>5. CASE Rebalance
  <2>1. /\ UNCHANGED <<deliveries, task>> /\ task = "running"
        /\ setbacks' = IF position' < position THEN setbacks + 1 ELSE setbacks
        /\ setbacks' <= MaxSetbacks
        /\ position' <= position
    BY <1>00, <1>5
    DEF Rebalance, Rejoin, LastCommit, registryVars, RunningIsAhead
  <2>2. ASSUME NEW m \in 1..MaxLog
        PROVE  deliveries'[m] <= IF m <= position' THEN 1 + setbacks' ELSE setbacks'
    BY <1>00, <2>1, <2>2
  <2>3. QED
    BY <1>0, <1>00, <2>1, <2>2
<1>6. QED
  <2>1. CASE UNCHANGED vars
    BY <1>0, <1>00, <2>1 DEF vars, consumerVars, registryVars
  <2>2. QED
    BY <1>1, <1>2, <1>3, <1>4, <1>5, <2>1 DEF Next

LEMMA AppInit == Init => AppInv
<1> SUFFICES ASSUME Init PROVE AppInv
  OBVIOUS
<1>1. ConsumerInv
  BY ConsumerInitInv DEF Init
<1>2. QED
  BY <1>1, AppAssumption
  DEF Init, ConsumerInit, Registry!Init, AppInv, SetbacksType, DeliveriesType,
      DeliveriesByPosition, NothingYet

\* AppInv is inductive.
THEOREM AppInvariance == Spec => []AppInv
BY AppInit, AppStep, PTL DEF Spec

\* A process delivers a message once, and once more at most for each rebalance
\* whose commit failed.
THEOREM DeliveriesExplainedHolds == Spec => []DeliveriesExplained
<1>1. AppInv => DeliveriesExplained
  BY AppAssumption
  DEF AppInv, ConsumerInv, ConsumerTypeOK, SetbacksType, DeliveriesType,
      DeliveriesByPosition, DeliveriesExplained
<1>2. QED
  BY <1>1, AppInvariance, PTL

\* A poll takes a log position the process has not delivered too often: the
\* bound WatchRegistry puts on deliveries is never what stops a poll.
LEMMA DeliverIsRegistryStep == AppInv /\ Deliver => Registry!Next
<1> SUFFICES ASSUME AppInv, Deliver PROVE Registry!Next
  OBVIOUS
<1> DEFINE next == position + 1
<1>position. next \in 1..MaxLog
  BY ConsumerAssumption DEF AppInv, ConsumerInv, ConsumerTypeOK, Deliver, Consume
<1>budget. deliveries[next] < MaxSetbacks + 1
  BY <1>position, ConsumerAssumption, AppAssumption
  DEF AppInv, ConsumerInv, ConsumerTypeOK, SetbacksType, DeliveriesByPosition,
      DeliveriesType
<1> QED
  BY <1>position, <1>budget DEF Deliver, Registry!Next

\* A step of the application is a step of the registry (a request, a delivery,
\* a start of the process) or happens in the consumer alone.
LEMMA AppStepIsRegistryStep ==
    AppInv /\ [Next]_vars => Registry!Next \/ UNCHANGED registryVars
<1>user. Serve \/ Start => Registry!Next
  BY DEF Serve, Start, Registry!Next
<1>consumer. Background \/ Rebalance \/ UNCHANGED vars => UNCHANGED registryVars
  BY DEF Background, Rebalance, vars
<1> QED
  BY <1>user, <1>consumer, DeliverIsRegistryStep DEF Next

\* The composition implements WatchRegistry: what is proved of the registry
\* alone holds of the application, for MaxDeliveries = MaxSetbacks + 1.
THEOREM AppImplementsRegistry == Spec => ImplementsRegistry
<1>start. Init => Registry!Init
  BY DEF Init
<1>step. AppInv /\ [Next]_vars => [Registry!Next]_(Registry!vars)
  BY AppStepIsRegistryStep DEF registryVars, Registry!vars
<1> QED
  BY <1>start, <1>step, AppInvariance, PTL
  DEF Spec, ImplementsRegistry, Registry!Spec

\* The application commits a message only after the registry got it: across
\* crashes of the whole process nothing is skipped.
THEOREM AppAtLeastOnce == Spec => [](CommittedIsHandled /\ HandledInOrder)
<1>1. AppInv => CommittedIsHandled /\ HandledInOrder
  BY DEF AppInv, ConsumerInv
<1>2. QED
  BY <1>1, AppInvariance, PTL

-----------------------------------------------------------------------------
(***************************************************************************)
(* What is proved of the registry on its own holds of the application.     *)
(***************************************************************************)

RegistryProofs == INSTANCE WatchRegistryProofs
    WITH Messages <- 1..MaxLog, MaxDeliveries <- MaxSetbacks + 1

LEMMA RegistryParameters == RegistryProofs!RegistryAssumption
BY ConsumerAssumption, AppAssumption DEF RegistryProofs!RegistryAssumption

\* The two instances are the same specification.
LEMMA SameRegistry == ImplementsRegistry => RegistryProofs!Spec
<1>1. Registry!Init => RegistryProofs!Init
  BY DEF Registry!Init, RegistryProofs!Init, Registry!NoAccounts,
         RegistryProofs!NoAccounts
<1>2. Registry!HandleRequest => RegistryProofs!HandleRequest
  <2>1. ASSUME NEW u \in Users
        PROVE  /\ Registry!Dashboard(u) => RegistryProofs!Dashboard(u)
               /\ Registry!StartRegisterForAll(u)
                    => RegistryProofs!StartRegisterForAll(u)
               /\ Registry!StopRegisterForAll(u)
                    => RegistryProofs!StopRegisterForAll(u)
    <3>1. /\ Registry!DiscardListed(u) = RegistryProofs!DiscardListed(u)
          /\ Registry!Listed(u) = RegistryProofs!Listed(u)
          /\ Registry!NoAccounts = RegistryProofs!NoAccounts
      BY DEF Registry!DiscardListed, RegistryProofs!DiscardListed,
             Registry!Listed, RegistryProofs!Listed,
             Registry!NoAccounts, RegistryProofs!NoAccounts
    <3>2. QED
      BY <3>1
      DEF Registry!Dashboard, RegistryProofs!Dashboard,
          Registry!StartRegisterForAll, RegistryProofs!StartRegisterForAll,
          Registry!StopRegisterForAll, RegistryProofs!StopRegisterForAll
  <2>2. ASSUME NEW u \in Users, NEW a \in Accounts
        PROVE  /\ Registry!AddAccount(u, a) => RegistryProofs!AddAccount(u, a)
               /\ Registry!DeleteAccount(u, a)
                    => RegistryProofs!DeleteAccount(u, a)
    BY DEF Registry!AddAccount, RegistryProofs!AddAccount,
           Registry!DeleteAccount, RegistryProofs!DeleteAccount,
           Registry!DiscardUser, RegistryProofs!DiscardUser,
           Registry!EntriesAfterRemove, RegistryProofs!EntriesAfterRemove
  <2>3. QED
    BY <2>1, <2>2 DEF Registry!HandleRequest, RegistryProofs!HandleRequest
<1>3. ASSUME NEW m \in 1..MaxLog
      PROVE  Registry!ProcessMessage(m) => RegistryProofs!ProcessMessage(m)
  BY DEF Registry!ProcessMessage, RegistryProofs!ProcessMessage,
         Registry!CopiesFor, RegistryProofs!CopiesFor
<1>4. Registry!Restart => RegistryProofs!Restart
  BY DEF Registry!Restart, RegistryProofs!Restart, Registry!NoAccounts,
         RegistryProofs!NoAccounts
<1>5. [Registry!Next]_(Registry!vars) => [RegistryProofs!Next]_(RegistryProofs!vars)
  BY <1>2, <1>3, <1>4
  DEF Registry!Next, RegistryProofs!Next, Registry!vars, RegistryProofs!vars
<1>6. QED
  BY <1>1, <1>5, PTL DEF ImplementsRegistry, Registry!Spec, RegistryProofs!Spec

LEMMA AppIsRegistry == Spec => RegistryProofs!Spec
BY AppImplementsRegistry, SameRegistry

\* The application's state is of its type: the task's place in the topic and the
\* dictionaries of the registry it feeds.
THEOREM AppTypeCorrect == Spec => []TypeOK
<1>1. RegistryProofs!TypeOK => Registry!TypeOK
  BY DEF RegistryProofs!TypeOK, Registry!TypeOK
<1>2. AppInv => ConsumerTypeOK /\ setbacks \in 0..MaxSetbacks
  BY DEF AppInv, ConsumerInv, SetbacksType
<1>3. RegistryProofs!Spec => []RegistryProofs!TypeOK
  BY RegistryParameters, RegistryProofs!TypeCorrect
<1>4. QED
  BY <1>1, <1>2, <1>3, AppIsRegistry, AppInvariance, PTL DEF TypeOK

\* The index, the lists, the flags and the timelines stay consistent when Kafka
\* drives the fan-out, with what rebalances and restarts it brings.
THEOREM AppKeepsTheRegistry == Spec => []RegistryProofs!Inv
BY RegistryParameters, AppIsRegistry, RegistryProofs!Invariance

\* In the running application no user gets an alert their settings did not ask for,
\* nobody registered for everything misses one, and no request takes another user
\* out of the index.
THEOREM AppKeepsTheGuarantees ==
    Spec => /\ RegistryProofs!NoUnrequestedAlert
            /\ RegistryProofs!MonitorAllNeverMisses
            /\ RegistryProofs!LosesOnlyOwn
BY RegistryParameters, AppIsRegistry, RegistryProofs!NoUnrequestedAlertHolds,
   RegistryProofs!MonitorAllHolds, RegistryProofs!LosesOnlyOwnHolds

\* The application keeps the promise of AlertBoard.
THEOREM AppImplementsBoard == Spec => RegistryProofs!ImplementsBoard
BY RegistryParameters, AppIsRegistry, RegistryProofs!RegistryImplementsBoard
=============================================================================
