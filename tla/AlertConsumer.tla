--------------------------- MODULE AlertConsumer ---------------------------
(***************************************************************************)
(* The background task of the web application that reads the fraud topic:  *)
(* kafka_consumer.py (AccountActivityConsumer.consume) and the lifespan    *)
(* handler of app.py that starts and cancels it.                           *)
(*                                                                         *)
(* The topic is one partition, an append-only log; its messages are the    *)
(* numbers 1..logEnd.  The Kafka client is external: it keeps a position,  *)
(* commits it in the background (enable_auto_commit), and after a          *)
(* rebalance goes back to what was last committed.                         *)
(***************************************************************************)
EXTENDS Naturals

CONSTANTS
    MaxLog,      \* bound: messages ever published
    MaxBoots     \* bound: times the process is started

ASSUME ConsumerAssumption == MaxLog \in Nat /\ MaxBoots \in Nat

VARIABLES
    logEnd,     \* messages in the topic
    task,       \* state of consumer_task, "off" while there is no process
    position,   \* messages the client has handed out, its next fetch offset
    committed,  \* offset committed for group account_activity_group
    handled,    \* history: messages process_message was ever called with
    boots       \* times the process was started

consumerVars == <<logEnd, task, position, committed, handled, boots>>

TaskStates == {"off", "starting", "running", "dead"}

ConsumerTypeOK ==
    /\ logEnd \in 0..MaxLog
    /\ task \in TaskStates
    /\ position \in 0..logEnd
    /\ committed \in 0..logEnd
    /\ handled \subseteq 1..logEnd
    /\ boots \in 0..MaxBoots

ConsumerInit ==
    /\ logEnd = 0
    /\ task = "off"
    /\ position = 0
    /\ committed = 0
    /\ handled = {}
    /\ boots = 0

\* The CDP processor appends to the topic, whoever reads it.
Publish ==
    /\ logEnd < MaxLog
    /\ logEnd' = logEnd + 1
    /\ UNCHANGED <<task, position, committed, handled, boots>>

\* uvicorn starts: lifespan creates the task before it serves a request.
Boot ==
    /\ task = "off"
    /\ boots < MaxBoots
    /\ boots' = boots + 1
    /\ task' = "starting"
    /\ position' = 0
    /\ UNCHANGED <<logEnd, committed, handled>>

\* Mutant: auto_offset_reset 'latest' for a group that committed nothing.
LatestOffset == IF committed = 0 THEN logEnd ELSE committed

\* Mutant: the committed offset is taken for that of the last message.
AfterCommitted == committed + 1

\* Where the group starts to read: what it committed, else the beginning
\* (auto_offset_reset='earliest').
StartOffset == committed

\* consumer.start() finds the brokers and joins the group.
Connect ==
    /\ task = "starting"
    /\ task' = "running"
    /\ position' = StartOffset
    /\ UNCHANGED <<logEnd, committed, handled, boots>>

\* consumer.start() raises.  It stands before the try of consume, the task ends,
\* and nothing looks at it before shutdown; requests are still served.
ConnectFails ==
    /\ task = "starting"
    /\ task' = "dead"
    /\ UNCHANGED <<logEnd, position, committed, handled, boots>>

\* Mutant: a message is handed out only when another one follows it.
ConsumeOneBehind ==
    /\ task = "running"
    /\ position + 1 < logEnd
    /\ position' = position + 1
    /\ handled' = handled \cup {position + 1}
    /\ UNCHANGED <<logEnd, task, committed, boots>>

\* One turn of "async for": the client advances its position, and
\* process_message runs to its end with no await in between, so that no commit
\* and no cancellation can fall between the two.
Consume ==
    /\ task = "running"
    /\ position < logEnd
    /\ position' = position + 1
    /\ handled' = handled \cup {position + 1}
    /\ UNCHANGED <<logEnd, task, committed, boots>>

\* The client's background commit of its position.
AutoCommit ==
    /\ task = "running"
    /\ committed' = position
    /\ UNCHANGED <<logEnd, task, position, handled, boots>>

\* What leaving the group may leave committed: the client's position, or no
\* more than before when the brokers cannot be reached.
LastCommit == committed' \in {committed, position}

\* A rebalance; nothing limits how many there are.  The client tries to commit
\* first; the member that comes back reads on from the offset committed then.
Rejoin ==
    /\ task = "running"
    /\ LastCommit
    /\ position' = committed'
    /\ UNCHANGED <<logEnd, task, handled, boots>>

\* An error the client does not recover from leaves "async for": the finally
\* clause stops the client, which tries a last commit, and the task is over.
Fails ==
    /\ task = "running"
    /\ task' = "dead"
    /\ LastCommit
    /\ UNCHANGED <<logEnd, position, handled, boots>>

\* lifespan's finally clause: cancel the task and wait for it.  A task that runs
\* catches CancelledError and stops the client.
Shutdown ==
    /\ task # "off"
    /\ task' = "off"
    /\ IF task = "running" THEN LastCommit ELSE UNCHANGED committed
    /\ UNCHANGED <<logEnd, position, handled, boots>>

\* The process is killed, nothing is committed.
Crash ==
    /\ task # "off"
    /\ task' = "off"
    /\ UNCHANGED <<logEnd, position, committed, handled, boots>>

Ends == Shutdown \/ Crash

ConsumerNext ==
    \/ Publish \/ Boot \/ Connect \/ ConnectFails \/ Consume \/ AutoCommit
    \/ Rejoin \/ Fails \/ Ends

\* A commit that gets through, in the background or at a rebalance.
Commits == (AutoCommit \/ Rejoin) /\ committed' = position

\* The event loop runs a task that can run.  Each rebalance takes away what there
\* was to commit, so the fairness of commits is strong: a client that has something
\* to commit again and again gets a commit through.  That brokers do not refuse
\* every commit for ever is assumed of them, the code only asks for the commits.
\* Nothing restarts the process.
ConsumerFairness ==
    /\ WF_consumerVars(Connect \/ ConnectFails)
    /\ WF_consumerVars(Consume)
    /\ SF_consumerVars(Commits)

ConsumerSpec ==
    ConsumerInit /\ [][ConsumerNext]_consumerVars /\ ConsumerFairness

(***************************************************************************)
(* Properties                                                              *)
(***************************************************************************)

\* At-least-once: an offset is committed only when every message below it went
\* through process_message, in whichever process that was; a crash, a rebalance
\* or a shutdown never makes the group skip a message.
CommittedIsHandled == 1..committed \subseteq handled

\* In order and without gaps: a message is handled only after all the earlier
\* ones, also across rebalances and restarts.
HandledInOrder == \A k \in handled : 1..k \subseteq handled

\* The committed offset of the group never goes back, so that no later process
\* starts before one the earlier ones had finished with.
CommitsAdvance == [][committed' >= committed]_consumerVars

\* Every published message is handled unless the task ends: however often the
\* group is rebalanced, and however many commits fail, a task that is alive gets
\* to it, provided that not every commit fails from some time on.
PublishedIsHandled ==
    \A k \in 1..MaxLog :
        (logEnd >= k) ~> (k \in handled \/ task \in {"off", "dead"})
=============================================================================
