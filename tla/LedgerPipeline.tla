--------------------------- MODULE LedgerPipeline ---------------------------
(***************************************************************************)
(* The CDP processor, cdp_processor/main.go: ledgers are streamed from the *)
(* latest archived one on (LedgerMetadataInboundAdapter.Run), each is      *)
(* searched for participants that the fraud data flags                     *)
(* (FraudDetectionTransformer.Process, GetFraudulentAccount), and a hit is *)
(* handed to the Kafka client (KafkaOutboundAdapter.Process), which sends  *)
(* in the background.                                                      *)
(*                                                                         *)
(* The network, the archive, the fraud data (written by another container) *)
(* and the Kafka client's queue are external.                              *)
(***************************************************************************)
EXTENDS Naturals, Sequences, FiniteSets, SequencesExt

CONSTANTS
    Accounts,    \* account addresses
    Activity,    \* per ledger: the participants, transaction by transaction
    MaxLedger,   \* bound: ledgers the network closes
    MaxRuns,     \* bound: times the process is started
    QueueLimit,  \* messages the Kafka client holds (queue.buffering.max)
    MaxResends,  \* bound: sends that fail for a while and are repeated
    MaxEdits     \* bound: changes of the fraud data

ASSUME PipelineAssumption ==
    /\ MaxLedger \in Nat /\ MaxRuns \in Nat /\ QueueLimit \in Nat
    /\ MaxResends \in Nat /\ MaxEdits \in Nat
    /\ Activity \in [1..MaxLedger -> Seq(Accounts)]

VARIABLES
    closed,     \* ledgers the network has closed
    archived,   \* last ledger of the latest checkpoint in the archive
    proc,       \* "down", "streaming" (between two ledgers) or "inspecting"
    runs,       \* times the process was started
    ledger,     \* the ledger being inspected, else the one to get next
    place,      \* the participant of that ledger to look up next
    flagged,    \* accounts with a record in the fraud data
    outbox,     \* the Kafka client's queue
    topic,      \* the fraud topic
    resends,    \* sends that were repeated
    edits,      \* changes of the fraud data
    lost,       \* history: events the process had and no longer sends
    detected,   \* history: events handed to the Kafka client
    inspected,  \* history: <<run, ledger>> that were inspected to the end
    steady,     \* history: accounts flagged from the beginning on
    everFlagged \* history: accounts that were ever flagged

network == <<closed, archived>>
fraudData == <<flagged, edits, steady, everFlagged>>
process == <<proc, runs, ledger, place, inspected>>
broker == <<topic, resends>>
vars == <<network, fraudData, process, broker, outbox, lost, detected>>

Ledgers == 1..MaxLedger

\* One FraudEvent: the participant at one place of a ledger, found by one run.
\* The place stands for account and transaction hash, the ledger for the time.
Events == [run : 1..MaxRuns, ledger : Ledgers, place : Nat]

AccountAt(l, p) == Activity[l][p]

TypeOK ==
    /\ closed \in 0..MaxLedger
    /\ archived \in 0..closed
    /\ proc \in {"down", "streaming", "inspecting"}
    /\ runs \in 0..MaxRuns
    /\ ledger \in 0..MaxLedger + 1
    /\ place \in Nat \ {0}
    /\ flagged \subseteq Accounts
    /\ outbox \in Seq(Events) /\ Len(outbox) <= QueueLimit
    /\ topic \in Seq(Events)
    /\ resends \in 0..MaxResends
    /\ edits \in 0..MaxEdits
    /\ lost \subseteq Events
    /\ detected \subseteq Events
    /\ inspected \subseteq (1..MaxRuns) \X Ledgers
    /\ steady \subseteq everFlagged /\ everFlagged \subseteq Accounts

Init ==
    /\ closed = 0 /\ archived = 0
    /\ proc = "down" /\ runs = 0 /\ ledger = 0 /\ place = 1 /\ inspected = {}
    /\ flagged \in SUBSET Accounts
    /\ steady = flagged /\ everFlagged = flagged /\ edits = 0
    /\ outbox = <<>> /\ topic = <<>> /\ resends = 0
    /\ lost = {} /\ detected = {}

(***************************************************************************)
(* The network and the fraud data.                                         *)
(***************************************************************************)

CloseLedger ==
    /\ closed < MaxLedger
    /\ closed' = closed + 1
    /\ UNCHANGED <<archived, fraudData, process, broker, outbox, lost, detected>>

\* A checkpoint is published; not every ledger is one.
PublishCheckpoint ==
    /\ archived < closed
    /\ archived' = closed
    /\ UNCHANGED <<closed, fraudData, process, broker, outbox, lost, detected>>

\* The feed, the test data or the account seeding write or delete a record,
\* in one LMDB transaction.
EditFraudData ==
    /\ edits < MaxEdits
    /\ edits' = edits + 1
    /\ \E a \in Accounts :
         \/ flagged' = flagged \cup {a}
         \/ flagged' = flagged \ {a}
    /\ steady' = steady \cap flagged'
    /\ everFlagged' = everFlagged \cup flagged'
    /\ UNCHANGED <<network, process, broker, outbox, lost, detected>>

(***************************************************************************)
(* The process.                                                            *)
(***************************************************************************)

\* The sequence Run streams from: that of the latest checkpoint.
FirstLedger == archived

\* main up to ApplyLedgerMetadata.  Where the fraud data cannot be opened or the
\* archive cannot be read main returns instead, and nothing has changed.
StartRun ==
    /\ proc = "down"
    /\ runs < MaxRuns
    /\ archived > 0
    /\ runs' = runs + 1
    /\ proc' = "streaming"
    /\ ledger' = FirstLedger
    /\ place' = 1
    /\ UNCHANGED <<network, fraudData, inspected, broker, outbox, lost, detected>>

\* A ledger is in the data store as soon as it has closed.
Exported == ledger <= closed

\* Mutant: the callback comes only once the next ledger has closed too.
GetLedgerLate ==
    /\ proc = "streaming"
    /\ ledger < closed
    /\ proc' = "inspecting"
    /\ place' = 1
    /\ UNCHANGED <<network, fraudData, runs, ledger, inspected, broker, outbox,
                   lost, detected>>

\* ApplyLedgerMetadata calls back with the next ledger once it is exported.
GetLedger ==
    /\ proc = "streaming"
    /\ Exported
    /\ proc' = "inspecting"
    /\ place' = 1
    /\ UNCHANGED <<network, fraudData, runs, ledger, inspected, broker, outbox,
                   lost, detected>>

\* The account at the current place, while there is one.
Inspecting == proc = "inspecting" /\ place <= Len(Activity[ledger])

\* Mutant: a record in the fraud data is not asked for.
FlaggedOrNot == TRUE

\* GetFraudulentAccount finds a record for the account.
IsFlagged == AccountAt(ledger, place) \in flagged

\* GetFraudulentAccount returns nil: "account not fraudulent!"
PassAccount ==
    /\ Inspecting
    /\ ~IsFlagged
    /\ place' = place + 1
    /\ UNCHANGED <<network, fraudData, proc, runs, ledger, inspected, broker,
                   outbox, lost, detected>>

\* Mutant: the client takes one message too many.
HasRoomForOneMore == Len(outbox) <= QueueLimit

\* Produce returns an error when the client's queue is full.
HasRoom == Len(outbox) < QueueLimit

\* Mutant: the newest event is put in front of the queue.
ReportFirst ==
    LET event == [run |-> runs, ledger |-> ledger, place |-> place]
    IN  /\ Inspecting
        /\ IsFlagged
        /\ detected' = detected \cup {event}
        /\ IF HasRoom
           THEN outbox' = <<event>> \o outbox /\ UNCHANGED lost
           ELSE lost' = lost \cup {event} /\ UNCHANGED outbox
        /\ place' = place + 1
        /\ UNCHANGED <<network, fraudData, proc, runs, ledger, inspected, broker>>

\* A FraudEvent is made and handed to every subscriber.  Produce takes it into
\* its queue or returns an error when the queue is full; Process of the
\* transformer does not look at what the subscriber returned.
ReportAccount ==
    LET event == [run |-> runs, ledger |-> ledger, place |-> place]
    IN  /\ Inspecting
        /\ IsFlagged
        /\ detected' = detected \cup {event}
        /\ IF HasRoom
           THEN outbox' = Append(outbox, event) /\ UNCHANGED lost
           ELSE lost' = lost \cup {event} /\ UNCHANGED outbox
        /\ place' = place + 1
        /\ UNCHANGED <<network, fraudData, proc, runs, ledger, inspected, broker>>

\* Mutant: the reader stops at the last participant.
AtLastPlace == place >= Len(Activity[ledger])

\* The reader has returned every transaction.
AtEndOfLedger == place > Len(Activity[ledger])

\* Mutant: a process that is behind goes on with the newest ledger.
SkipToNewest == IF ledger < closed THEN closed ELSE ledger + 1

\* Mutant: the same ledger comes again.
SameLedger == ledger

\* ApplyLedgerMetadata goes through its range one by one.
NextLedger == ledger + 1

\* The transaction reader is at io.EOF and the stream goes on.
FinishLedger ==
    /\ proc = "inspecting"
    /\ AtEndOfLedger
    /\ proc' = "streaming"
    /\ ledger' = NextLedger
    /\ inspected' = inspected \cup {<<runs, ledger>>}
    /\ UNCHANGED <<network, fraudData, runs, place, broker, outbox, lost, detected>>

\* The process ends: by an error of the lookup or of the transaction reader in
\* the middle of a ledger, by an interrupt between two, or because it is killed.
\* Close does not flush, so what is still queued is gone.
EndRun ==
    /\ proc # "down"
    /\ proc' = "down"
    /\ outbox' = <<>>
    /\ lost' = lost \cup ToSet(outbox)
    /\ UNCHANGED <<network, fraudData, runs, ledger, place, inspected, broker,
                   detected>>

(***************************************************************************)
(* The Kafka client: sends in the order of its queue, except that a send   *)
(* that fails for a while is repeated after others went through, or after  *)
(* it had arrived (enable.idempotence is off).                             *)
(***************************************************************************)

Send ==
    /\ outbox # <<>>
    /\ topic' = Append(topic, Head(outbox))
    /\ outbox' = Tail(outbox)
    /\ UNCHANGED <<network, fraudData, process, resends, lost, detected>>

\* The broker has the message, the client does not learn of it.
SendAgain ==
    /\ outbox # <<>>
    /\ resends < MaxResends
    /\ resends' = resends + 1
    /\ topic' = Append(topic, Head(outbox))
    /\ UNCHANGED <<network, fraudData, process, outbox, lost, detected>>

\* The message behind the first one gets through before it.
SendOvertakes ==
    /\ Len(outbox) > 1
    /\ resends < MaxResends
    /\ resends' = resends + 1
    /\ topic' = Append(topic, outbox[2])
    /\ outbox' = <<outbox[1]>> \o SubSeq(outbox, 3, Len(outbox))
    /\ UNCHANGED <<network, fraudData, process, lost, detected>>

\* The client gives up; the delivery report is printed and nothing else is done.
SendFails ==
    /\ outbox # <<>>
    /\ outbox' = Tail(outbox)
    /\ lost' = lost \cup {Head(outbox)}
    /\ UNCHANGED <<network, fraudData, process, broker, detected>>

Inspect == GetLedger \/ PassAccount \/ ReportAccount \/ FinishLedger

Next ==
    \/ CloseLedger \/ PublishCheckpoint \/ EditFraudData
    \/ StartRun \/ Inspect \/ EndRun
    \/ Send \/ SendAgain \/ SendOvertakes \/ SendFails

\* A process that is up goes on with a ledger that is there, and the client
\* sends or gives up.  Nothing restarts the process.
Fairness == WF_vars(Inspect) /\ WF_vars(Send \/ SendFails)

Spec == Init /\ [][Next]_vars /\ Fairness

(***************************************************************************)
(* Properties                                                              *)
(***************************************************************************)

EventOf(r, l, p) == [run |-> r, ledger |-> l, place |-> p]

\* An account that is flagged all along is reported for each transaction it
\* takes part in, in every ledger a run inspects to the end: the edits of the
\* fraud data between two lookups never hide another account.
SteadyAreReported ==
    \A run \in inspected :
      \A p \in DOMAIN Activity[run[2]] :
        AccountAt(run[2], p) \in steady => EventOf(run[1], run[2], p) \in detected

\* Nothing is published about an account that never was in the fraud data, and
\* nothing about a ledger the network had not closed.
OnlyFlaggedArePublished ==
    \A e \in ToSet(topic) :
        /\ e.ledger <= closed
        /\ e.place \in DOMAIN Activity[e.ledger]
        /\ AccountAt(e.ledger, e.place) \in everFlagged

\* Before any send was repeated the topic is in the order of the runs, within
\* one in the order of the ledgers, within one in the order of the transactions,
\* each event once.
Precedes(d, e) ==
    \/ d.run < e.run
    \/ d.run = e.run /\ d.ledger < e.ledger
    \/ d.run = e.run /\ d.ledger = e.ledger /\ d.place < e.place

TopicInOrder ==
    resends = 0 =>
      \A i, j \in DOMAIN topic : i < j => Precedes(topic[i], topic[j])

\* The alerts about one participant of one ledger: at most one per run, since a
\* restart goes back to the checkpoint, and one per repeated send.
CopiesOf(l, p) == {i \in DOMAIN topic : topic[i].ledger = l /\ topic[i].place = p}

RepeatsExplained ==
    \A l \in Ledgers : \A p \in DOMAIN Activity[l] :
        Cardinality(CopiesOf(l, p)) <= runs + resends

\* A run leaves out no ledger between the first and the last it inspects: gaps
\* come only from a restart after the archive went past the run before.
RunsAreContiguous ==
    \A r \in 1..runs : \A k, l, m \in Ledgers :
        (k <= l /\ l <= m /\ {<<r, k>>, <<r, m>>} \subseteq inspected)
          => <<r, l>> \in inspected

\* A process that stays up gets to every ledger the network closes.
LedgersAreInspected ==
    \A l \in Ledgers :
        (proc # "down" /\ ledger <= l /\ l <= closed)
          ~> (proc = "down" \/ \E r \in 1..MaxRuns : <<r, l>> \in inspected)

\* From the ledger to the topic: the activity of an account that stays flagged
\* is published, or given up by the Kafka client, or the process ends.
SteadyAreSettled ==
    \A l \in Ledgers : \A p \in DOMAIN Activity[l] :
        (proc = "streaming" /\ ledger <= l /\ l <= closed /\ AccountAt(l, p) \in steady)
          ~> \/ proc = "down" \/ AccountAt(l, p) \notin steady
             \/ \E r \in 1..MaxRuns : EventOf(r, l, p) \in ToSet(topic) \cup lost

(***************************************************************************)
(* What the comments of main.go say and the program does not do.           *)
(***************************************************************************)

\* main.go:325: the adapter "publishes application data model as messages to a
\* broker", so that while the process is up what it detects gets published.
DetectedIsPublished ==
    \A r \in 1..MaxRuns, l \in Ledgers : \A p \in DOMAIN Activity[l] :
        (EventOf(r, l, p) \in detected)
          ~> (EventOf(r, l, p) \in ToSet(topic) \/ proc = "down")
=============================================================================
