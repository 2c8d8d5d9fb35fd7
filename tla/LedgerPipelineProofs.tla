------------------------ MODULE LedgerPipelineProofs ------------------------
(***************************************************************************)
(* LedgerPipeline for any ledgers, any accounts and any bounds.  What is   *)
(* in the topic was detected, what was detected was flagged, and what stays *)
(* flagged is detected; a run inspects its ledgers without a gap.          *)
(***************************************************************************)
EXTENDS LedgerPipeline, FiniteSetTheorems, SequenceTheorems, TLAPS

\* A process that is up is in its latest run and at a ledger of the network.
UpIsSomewhere == proc # "down" => runs >= 1 /\ ledger >= 1

InspectsClosed == proc = "inspecting" => ledger <= closed

\* Looked up so far in the ledger at hand.
CurrentReported ==
    proc = "inspecting" =>
      \A p \in DOMAIN Activity[ledger] :
        p < place /\ AccountAt(ledger, p) \in steady
          => EventOf(runs, ledger, p) \in detected

SteadyIsFlagged == steady \subseteq flagged /\ flagged \subseteq everFlagged

\* What an event says is true: a participant of a closed ledger, once flagged.
Genuine(e) ==
    /\ e.ledger <= closed
    /\ e.place \in DOMAIN Activity[e.ledger]
    /\ AccountAt(e.ledger, e.place) \in everFlagged

DetectedIsGenuine == \A e \in detected : Genuine(e)

SentIsDetected == ToSet(topic) \subseteq detected /\ ToSet(outbox) \subseteq detected

\* The latest run has inspected, from its first ledger on, all up to its place
\* in the stream, and later runs have inspected nothing.
InspectedSoFar ==
    /\ \A r \in 1..MaxRuns, l \in Ledgers : <<r, l>> \in inspected => r <= runs
    /\ \A l \in Ledgers :
         <<runs, l>> \in inspected =>
           /\ l < ledger
           /\ \A m \in Ledgers : l <= m /\ m < ledger => <<runs, m>> \in inspected

\* Events come from the runs so far and, in the latest, from before its place.
DetectedBefore ==
    \A e \in detected :
        /\ e.run <= runs
        /\ proc = "streaming" /\ e.run = runs => e.ledger < ledger
        /\ proc = "inspecting" /\ e.run = runs =>
             e.ledger < ledger \/ (e.ledger = ledger /\ e.place < place)

\* Until a send is repeated, what is in the topic and then in the queue is one
\* line, in the order of detection.
InLine ==
    resends = 0 =>
      /\ \A i, j \in DOMAIN topic : i < j => Precedes(topic[i], topic[j])
      /\ \A i, j \in DOMAIN outbox : i < j => Precedes(outbox[i], outbox[j])
      /\ \A i \in DOMAIN topic, j \in DOMAIN outbox : Precedes(topic[i], outbox[j])

\* The runs that have an event about a participant in the client's queue, and
\* those that have detected one.
RunsQueued(l, p) == {r \in 1..MaxRuns : EventOf(r, l, p) \in ToSet(outbox)}
RunsDetected(l, p) == {r \in 1..MaxRuns : EventOf(r, l, p) \in detected}

\* Each event is in the client's queue at most once.
Once(s) == \A i, j \in DOMAIN s : s[i] = s[j] => i = j

\* The copies in the topic and the events still queued are paid for by the runs
\* that have detected the participant and by the repeated sends.
Counted(l, p) ==
    Cardinality(CopiesOf(l, p)) + Cardinality(RunsQueued(l, p))
      <= Cardinality(RunsDetected(l, p)) + resends

CopiesCounted == \A l \in Ledgers : \A p \in DOMAIN Activity[l] : Counted(l, p)

-----------------------------------------------------------------------------

\* What the sequence operations of the client's queue do to its elements.
LEMMA QueueElements ==
    ASSUME NEW S, NEW s \in Seq(S)
    PROVE  /\ \A e \in S : ToSet(Append(s, e)) = ToSet(s) \cup {e}
           /\ ToSet(s) \subseteq S
           /\ s # <<>> => /\ Head(s) \in ToSet(s)
                          /\ ToSet(Tail(s)) \subseteq ToSet(s)
                          /\ Tail(s) \in Seq(S) /\ Len(Tail(s)) < Len(s)
BY DEF ToSet

\* Taking out the second element leaves elements of the queue.
LEMMA QueueOvertake ==
    ASSUME NEW S, NEW s \in Seq(S), Len(s) > 1
    PROVE  /\ <<s[1]>> \o SubSeq(s, 3, Len(s)) \in Seq(S)
           /\ Len(<<s[1]>> \o SubSeq(s, 3, Len(s))) < Len(s)
           /\ ToSet(<<s[1]>> \o SubSeq(s, 3, Len(s))) \subseteq ToSet(s)
           /\ s[2] \in ToSet(s)
<1> DEFINE t == SubSeq(s, 3, Len(s))
           q == <<s[1]>> \o t
<1>1. /\ t \in Seq(S) /\ Len(t) = Len(s) - 2
      /\ \A i \in 1..Len(t) : t[i] = s[i + 2]
  <2>1. Len(s) \in Nat /\ \A i \in 3..Len(s) : s[i] \in S
    OBVIOUS
  <2>2. /\ t \in Seq(S)
        /\ Len(t) = IF 3 <= Len(s) THEN Len(s) - 3 + 1 ELSE 0
        /\ \A i \in 1..Len(s) - 3 + 1 : t[i] = s[3 + i - 1]
    BY <2>1, SubSeqProperties
  <2> HIDE DEF t
  <2>3. Len(t) = Len(s) - 2 /\ Len(s) - 3 + 1 = Len(t)
    <3>1. CASE 3 <= Len(s)
      <4>1. Len(t) = Len(s) - 3 + 1
        BY <2>2, <3>1
      <4>2. QED
        BY <2>1, <4>1
    <3>2. CASE Len(s) = 2
      <4>1. Len(t) = 0
        BY <2>2, <3>2
      <4>2. QED
        BY <3>2, <4>1
    <3>3. 3 <= Len(s) \/ Len(s) = 2
      <4>1. \A n \in Nat : n > 1 => 3 <= n \/ n = 2
        OBVIOUS
      <4>2. QED
        BY <2>1, <4>1
    <3>4. QED
      BY <3>1, <3>2, <3>3
  <2>4. ASSUME NEW i \in 1..Len(t) PROVE t[i] = s[i + 2]
    BY <2>1, <2>2, <2>3
  <2>5. QED
    BY <2>2, <2>3, <2>4
<1>2. <<s[1]>> \in Seq(S) /\ Len(<<s[1]>>) = 1 /\ <<s[1]>>[1] = s[1]
  OBVIOUS
<1>3. q \in Seq(S) /\ Len(q) = Len(s) - 1
  BY <1>1, <1>2
<1>4. \A i \in 1..Len(q) : \E j \in 1..Len(s) : q[i] = s[j]
  BY <1>1, <1>2, <1>3
<1>5. ToSet(q) \subseteq ToSet(s)
  BY <1>3, <1>4 DEF ToSet
<1>6. s[2] \in ToSet(s)
  BY DEF ToSet
<1>7. QED
  BY <1>3, <1>5, <1>6

\* Every step keeps the types; the client's queue never holds more than it may.
LEMMA PipelineTypeStep ==
    ASSUME TypeOK, UpIsSomewhere, InspectsClosed, [Next]_vars
    PROVE  TypeOK'
<1> USE PipelineAssumption DEF TypeOK
<1>1. CASE CloseLedger
  BY <1>1 DEF CloseLedger, fraudData, process, broker
<1>2. CASE PublishCheckpoint
  BY <1>2 DEF PublishCheckpoint, fraudData, process, broker
<1>3. CASE EditFraudData
  BY <1>3 DEF EditFraudData, network, process, broker
<1>4. CASE StartRun
  BY <1>4 DEF StartRun, FirstLedger, network, fraudData, broker
<1>5. CASE GetLedger
  BY <1>5 DEF GetLedger, network, fraudData, broker
<1>6. CASE PassAccount
  BY <1>6 DEF PassAccount, network, fraudData, broker
<1>7. CASE ReportAccount
  <2> DEFINE event == [run |-> runs, ledger |-> ledger, place |-> place]
  <2>1. event \in Events
    BY <1>7
    DEF ReportAccount, Inspecting, UpIsSomewhere, InspectsClosed, Events, Ledgers
  <2>2. outbox' \in Seq(Events) /\ Len(outbox') <= QueueLimit
    <3>1. CASE HasRoom
      <4>1. outbox' = Append(outbox, event)
        BY <1>7, <3>1 DEF ReportAccount
      <4>2. QED
        BY <2>1, <3>1, <4>1 DEF HasRoom
    <3>2. CASE ~HasRoom
      BY <1>7, <3>2 DEF ReportAccount
    <3>3. QED
      BY <3>1, <3>2
  <2>3. lost' \subseteq Events /\ detected' \subseteq Events
    BY <1>7, <2>1 DEF ReportAccount
  <2>4. QED
    BY <1>7, <2>2, <2>3 DEF ReportAccount, network, fraudData, broker
<1>8. CASE FinishLedger
  BY <1>8
  DEF FinishLedger, NextLedger, UpIsSomewhere, InspectsClosed, Ledgers,
      network, fraudData, broker
<1>9. CASE EndRun
  BY <1>9, QueueElements DEF EndRun, network, fraudData, broker
<1>10. CASE Send
  <2>1. topic' \in Seq(Events) /\ outbox' \in Seq(Events) /\ Len(outbox') <= QueueLimit
    BY <1>10 DEF Send
  <2>2. QED
    BY <1>10, <2>1 DEF Send, network, fraudData, process
<1>11. CASE SendAgain
  BY <1>11 DEF SendAgain, network, fraudData, process
<1>12. CASE SendOvertakes
  <2>1. outbox' \in Seq(Events) /\ Len(outbox') <= QueueLimit
    BY <1>12, QueueOvertake DEF SendOvertakes
  <2>2. topic' \in Seq(Events)
    BY <1>12 DEF SendOvertakes
  <2>3. QED
    BY <1>12, <2>1, <2>2 DEF SendOvertakes, network, fraudData, process
<1>13. CASE SendFails
  <2>1. outbox' \in Seq(Events) /\ Len(outbox') <= QueueLimit
    BY <1>13 DEF SendFails
  <2>2. lost' \subseteq Events
    BY <1>13, QueueElements DEF SendFails
  <2>3. QED
    BY <1>13, <2>1, <2>2 DEF SendFails, network, fraudData, process, broker
<1>14. CASE UNCHANGED vars
  BY <1>14 DEF vars, network, fraudData, process, broker
<1>15. QED
  BY <1>1, <1>2, <1>3, <1>4, <1>5, <1>6, <1>7, <1>8, <1>9, <1>10, <1>11,
     <1>12, <1>13, <1>14 DEF Next, Inspect

-----------------------------------------------------------------------------

\* A process that is up stays at ledgers the network has or will have.
LEMMA PlaceStep ==
    ASSUME TypeOK, UpIsSomewhere, InspectsClosed, [Next]_vars
    PROVE  UpIsSomewhere' /\ InspectsClosed'
<1> USE DEF TypeOK, UpIsSomewhere, InspectsClosed
<1>1. CASE CloseLedger
  BY <1>1 DEF CloseLedger, process
<1>2. CASE PublishCheckpoint \/ EditFraudData
  BY <1>2 DEF PublishCheckpoint, EditFraudData, network, process
<1>3. CASE StartRun
  BY <1>3 DEF StartRun, FirstLedger, network
<1>4. CASE GetLedger
  BY <1>4 DEF GetLedger, Exported, network
<1>5. CASE PassAccount \/ ReportAccount
  BY <1>5 DEF PassAccount, ReportAccount, network
<1>6. CASE FinishLedger
  BY <1>6 DEF FinishLedger, NextLedger, network
<1>7. CASE EndRun
  BY <1>7 DEF EndRun, network
<1>8. CASE Send \/ SendAgain \/ SendOvertakes \/ SendFails
  BY <1>8 DEF Send, SendAgain, SendOvertakes, SendFails, network, process
<1>9. CASE UNCHANGED vars
  BY <1>9 DEF vars, network, process
<1>10. QED
  BY <1>1, <1>2, <1>3, <1>4, <1>5, <1>6, <1>7, <1>8, <1>9 DEF Next, Inspect

\* Records come and go; what never went is still there.
LEMMA SteadyStep ==
    ASSUME TypeOK, SteadyIsFlagged, [Next]_vars
    PROVE  SteadyIsFlagged' /\ steady' \subseteq steady
                            /\ everFlagged \subseteq everFlagged'
<1> USE DEF TypeOK, SteadyIsFlagged
<1>1. CASE EditFraudData
  BY <1>1 DEF EditFraudData
<1>2. CASE UNCHANGED fraudData
  BY <1>2 DEF fraudData
<1>3. QED
  BY <1>1, <1>2
  DEF Next, Inspect, vars, CloseLedger, PublishCheckpoint, StartRun, GetLedger,
      PassAccount, ReportAccount, FinishLedger, EndRun, Send, SendAgain,
      SendOvertakes, SendFails

\* Only ReportAccount detects, and only the account it has just looked up.
LEMMA DetectedStep ==
    ASSUME TypeOK, [Next]_vars
    PROVE  \/ detected' = detected
           \/ /\ ReportAccount
              /\ detected' = detected \cup {EventOf(runs, ledger, place)}
BY DEF Next, Inspect, vars, CloseLedger, PublishCheckpoint, EditFraudData,
       StartRun, GetLedger, PassAccount, ReportAccount, FinishLedger, EndRun,
       Send, SendAgain, SendOvertakes, SendFails, EventOf

\* Only FinishLedger adds to what is inspected.
LEMMA InspectedStep ==
    ASSUME TypeOK, [Next]_vars
    PROVE  \/ inspected' = inspected
           \/ FinishLedger /\ inspected' = inspected \cup {<<runs, ledger>>}
BY DEF Next, Inspect, vars, process, CloseLedger, PublishCheckpoint,
       EditFraudData, StartRun, GetLedger, PassAccount, ReportAccount,
       FinishLedger, EndRun, Send, SendAgain, SendOvertakes, SendFails

\* The ledger at hand is one the network has.
LEMMA AtALedger ==
    ASSUME TypeOK, UpIsSomewhere, proc # "down", ledger <= closed
    PROVE  /\ ledger \in Ledgers
           /\ Activity[ledger] \in Seq(Accounts)
           /\ DOMAIN Activity[ledger] = 1..Len(Activity[ledger])
           /\ Len(Activity[ledger]) \in Nat
<1>1. ledger \in Ledgers
  BY PipelineAssumption DEF TypeOK, UpIsSomewhere, Ledgers
<1>2. Activity[ledger] \in Seq(Accounts)
  BY <1>1, PipelineAssumption DEF Ledgers
<1>3. QED
  BY <1>1, <1>2

\* Behind the place of the lookup every steady account is reported: at the place
\* itself a steady account has a record, so the lookup cannot pass it by.
LEMMA CurrentStep ==
    ASSUME TypeOK, UpIsSomewhere, InspectsClosed, SteadyIsFlagged,
           CurrentReported, [Next]_vars
    PROVE  CurrentReported'
<1>1. SteadyIsFlagged' /\ steady' \subseteq steady
  BY SteadyStep
<1>2. detected \subseteq detected'
  BY DetectedStep
<1>3. SUFFICES ASSUME proc' = "inspecting",
                      NEW p \in DOMAIN Activity[ledger'],
                      p < place', AccountAt(ledger', p) \in steady'
               PROVE  EventOf(runs', ledger', p) \in detected'
  BY DEF CurrentReported, AccountAt, EventOf
<1>4. CASE proc = "inspecting" /\ UNCHANGED <<runs, ledger, place>>
  BY <1>1, <1>2, <1>3, <1>4 DEF CurrentReported
<1>5. CASE GetLedger
  <2>1. ledger' = ledger /\ place' = 1 /\ proc = "streaming" /\ ledger <= closed
    BY <1>5 DEF GetLedger, Exported
  <2>2. p \in 1..Len(Activity[ledger])
    BY <1>3, <2>1, AtALedger
  <2>3. QED
    BY <1>3, <2>1, <2>2
<1>6. CASE PassAccount \/ ReportAccount
  <2>1. /\ proc = "inspecting" /\ ledger' = ledger /\ runs' = runs
        /\ place' = place + 1 /\ place \in Nat /\ ledger <= closed
    BY <1>6 DEF PassAccount, ReportAccount, Inspecting, InspectsClosed, TypeOK
  <2>2. p \in Nat /\ (p < place \/ p = place)
    BY <1>3, <2>1, AtALedger
  <2>3. CASE p < place
    BY <1>1, <1>2, <1>3, <2>1, <2>3 DEF CurrentReported
  <2>4. CASE p = place
    <3>1. IsFlagged
      BY <1>1, <1>3, <2>1, <2>4 DEF IsFlagged, SteadyIsFlagged
    <3>2. ReportAccount
      BY <1>6, <3>1 DEF PassAccount
    <3>3. EventOf(runs, ledger, place) \in detected'
      BY <3>2 DEF ReportAccount, EventOf
    <3>4. QED
      BY <2>1, <2>4, <3>3
  <2>5. QED
    BY <2>2, <2>3, <2>4
<1>7. QED
  BY <1>3, <1>4, <1>5, <1>6
  DEF Next, Inspect, vars, process, CloseLedger, PublishCheckpoint, EditFraudData,
      StartRun, FinishLedger, EndRun, Send, SendAgain, SendOvertakes, SendFails

\* A ledger is done when the place is past its end, so all of it was looked up.
LEMMA ReportedStep ==
    ASSUME TypeOK, UpIsSomewhere, InspectsClosed, SteadyIsFlagged,
           CurrentReported, SteadyAreReported, [Next]_vars
    PROVE  SteadyAreReported'
<1>1. steady' \subseteq steady
  BY SteadyStep
<1>2. detected \subseteq detected'
  BY DetectedStep
<1>3. CASE inspected' = inspected
  BY <1>1, <1>2, <1>3 DEF SteadyAreReported, AccountAt, EventOf
<1>4. CASE FinishLedger /\ inspected' = inspected \cup {<<runs, ledger>>}
  <2>1. ASSUME NEW p \in DOMAIN Activity[ledger], AccountAt(ledger, p) \in steady
        PROVE  EventOf(runs, ledger, p) \in detected
    <3>1. proc = "inspecting" /\ place \in Nat /\ ledger <= closed
      BY <1>4 DEF FinishLedger, InspectsClosed, TypeOK
    <3>2. p \in 1..Len(Activity[ledger]) /\ Len(Activity[ledger]) \in Nat
      BY <2>1, <3>1, AtALedger
    <3>3. place > Len(Activity[ledger])
      BY <1>4 DEF FinishLedger, AtEndOfLedger
    <3>4. p < place
      BY <3>1, <3>2, <3>3
    <3>5. QED
      BY <2>1, <3>1, <3>4 DEF CurrentReported
  <2>2. QED
    BY <1>1, <1>2, <1>4, <2>1 DEF SteadyAreReported, AccountAt, EventOf
<1>5. QED
  BY <1>3, <1>4, InspectedStep

\* The network goes on closing ledgers.
LEMMA ClosedGrows ==
    ASSUME TypeOK, [Next]_vars
    PROVE  closed <= closed'
BY DEF TypeOK, Next, Inspect, vars, network, CloseLedger, PublishCheckpoint,
       EditFraudData, StartRun, GetLedger, PassAccount, ReportAccount, FinishLedger,
       EndRun, Send, SendAgain, SendOvertakes, SendFails

\* A detected event names a participant that had a record when it was looked up.
LEMMA GenuineStep ==
    ASSUME TypeOK, TypeOK', UpIsSomewhere, InspectsClosed, SteadyIsFlagged,
           DetectedIsGenuine, [Next]_vars
    PROVE  DetectedIsGenuine'
<1>1. everFlagged \subseteq everFlagged' /\ closed <= closed'
  BY SteadyStep, ClosedGrows
<1>2. ASSUME NEW e \in Events, Genuine(e)
      PROVE  Genuine(e)'
  <2>1. closed \in Nat /\ closed' \in Nat /\ e.ledger \in Nat
    <3>1. closed \in 0..MaxLedger /\ closed' \in 0..MaxLedger /\ e.ledger \in 1..MaxLedger
      BY DEF TypeOK, Events, Ledgers
    <3>2. QED
      BY <3>1, PipelineAssumption
  <2>2. QED
    BY <1>1, <1>2, <2>1 DEF Genuine, AccountAt
<1>3. CASE detected' = detected
  BY <1>2, <1>3 DEF DetectedIsGenuine, TypeOK
<1>4. CASE ReportAccount /\ detected' = detected \cup {EventOf(runs, ledger, place)}
  <2>1. Genuine(EventOf(runs, ledger, place))
    <3>1. /\ proc = "inspecting" /\ ledger <= closed
          /\ place \in Nat /\ place >= 1 /\ place <= Len(Activity[ledger])
      BY <1>4 DEF ReportAccount, Inspecting, InspectsClosed, TypeOK
    <3>2. place \in DOMAIN Activity[ledger]
      BY <3>1, AtALedger
    <3>3. AccountAt(ledger, place) \in everFlagged
      BY <1>4 DEF ReportAccount, IsFlagged, SteadyIsFlagged
    <3>4. QED
      BY <3>1, <3>2, <3>3 DEF Genuine, EventOf
  <2>2. EventOf(runs, ledger, place) \in Events
    BY <1>4 DEF TypeOK
  <2>3. QED
    BY <1>2, <1>4, <2>1, <2>2 DEF DetectedIsGenuine, TypeOK
<1>5. QED
  BY <1>3, <1>4, DetectedStep

\* The client sends nothing it was not given.
LEMMA SentStep ==
    ASSUME TypeOK, TypeOK', SentIsDetected, [Next]_vars
    PROVE  SentIsDetected'
<1> USE DEF SentIsDetected
<1>1. /\ detected \subseteq detected' /\ detected' \subseteq Events
      /\ outbox \in Seq(Events) /\ topic \in Seq(Events)
  BY DetectedStep DEF TypeOK
<1>2. CASE UNCHANGED <<topic, outbox>>
  BY <1>1, <1>2 DEF ToSet
<1>3. CASE ReportAccount
  <2> DEFINE event == [run |-> runs, ledger |-> ledger, place |-> place]
  <2>1. event \in detected' /\ topic' = topic
    BY <1>3 DEF ReportAccount, broker
  <2>2. outbox' = Append(outbox, event) \/ outbox' = outbox
    BY <1>3 DEF ReportAccount
  <2>3. event \in Events
    BY <1>1, <2>1
  <2> HIDE DEF event
  <2>4. ToSet(outbox') \subseteq ToSet(outbox) \cup {event}
    BY <1>1, <2>2, <2>3, QueueElements
  <2>5. QED
    BY <1>1, <2>1, <2>4
<1>4. CASE EndRun
  BY <1>1, <1>4 DEF EndRun, broker, ToSet
<1>5. CASE Send
  <2>1. outbox # <<>> /\ topic' = Append(topic, Head(outbox))
    BY <1>5 DEF Send
  <2>2. Head(outbox) \in ToSet(outbox) /\ ToSet(outbox') \subseteq ToSet(outbox)
    BY <1>1, <1>5, <2>1, QueueElements DEF Send
  <2>3. Head(outbox) \in Events
    BY <1>1, <2>1
  <2>4. ToSet(topic') = ToSet(topic) \cup {Head(outbox)}
    BY <1>1, <2>1, <2>3, QueueElements
  <2>5. QED
    BY <1>1, <2>2, <2>4
<1>6. CASE SendAgain
  <2>1. outbox # <<>> /\ topic' = Append(topic, Head(outbox))
    BY <1>6 DEF SendAgain
  <2>2. Head(outbox) \in ToSet(outbox) /\ ToSet(outbox') \subseteq ToSet(outbox)
    BY <1>1, <1>6, <2>1, QueueElements DEF SendAgain
  <2>3. Head(outbox) \in Events
    BY <1>1, <2>1
  <2>4. ToSet(topic') = ToSet(topic) \cup {Head(outbox)}
    BY <1>1, <2>1, <2>3, QueueElements
  <2>5. QED
    BY <1>1, <2>2, <2>4
<1>7. CASE SendOvertakes
  <2>1. Len(outbox) > 1 /\ topic' = Append(topic, outbox[2])
    BY <1>7 DEF SendOvertakes
  <2>2. outbox[2] \in ToSet(outbox) /\ ToSet(outbox') \subseteq ToSet(outbox)
    BY <1>1, <1>7, <2>1, QueueOvertake DEF SendOvertakes
  <2>3. outbox[2] \in Events
    BY <1>1, <2>1
  <2>4. ToSet(topic') = ToSet(topic) \cup {outbox[2]}
    BY <1>1, <2>1, <2>3, QueueElements
  <2>5. QED
    BY <1>1, <2>2, <2>4
<1>8. CASE SendFails
  BY <1>1, <1>8, QueueElements DEF SendFails, broker
<1>9. QED
  BY <1>2, <1>3, <1>4, <1>5, <1>6, <1>7, <1>8
  DEF Next, Inspect, vars, broker, CloseLedger, PublishCheckpoint, EditFraudData,
      StartRun, GetLedger, PassAccount, FinishLedger

\* A run goes through its range one by one, and a new one starts with nothing.
LEMMA ContiguousStep ==
    ASSUME TypeOK, TypeOK', UpIsSomewhere, InspectsClosed, InspectedSoFar,
           RunsAreContiguous, [Next]_vars
    PROVE  InspectedSoFar' /\ RunsAreContiguous'
<1>1. /\ MaxRuns \in Nat /\ MaxLedger \in Nat /\ runs \in Nat /\ ledger \in Nat
      /\ runs \in 0..MaxRuns
  BY PipelineAssumption DEF TypeOK
<1>2. CASE UNCHANGED <<runs, ledger, inspected>>
  BY <1>2 DEF InspectedSoFar, RunsAreContiguous
<1>3. CASE StartRun
  <2>1. runs' = runs + 1 /\ inspected' = inspected
    BY <1>3 DEF StartRun
  <2>2. \A r \in 1..MaxRuns, l \in Ledgers :
          <<r, l>> \in inspected => r <= runs /\ r \in 1..runs
    BY <1>1 DEF InspectedSoFar
  <2>3. \A l \in Ledgers : <<runs', l>> \notin inspected
    BY <1>1, <2>1, <2>2 DEF TypeOK
  <2>4. InspectedSoFar'
    BY <1>1, <2>1, <2>2, <2>3 DEF InspectedSoFar
  <2>5. RunsAreContiguous'
    <3>1. \A r \in 1..runs' : r \in 1..runs \/ r = runs'
      BY <1>1, <2>1
    <3>2. QED
      BY <2>1, <2>3, <3>1 DEF RunsAreContiguous
  <2>6. QED
    BY <2>4, <2>5
<1>4. CASE FinishLedger
  <2>1. /\ runs' = runs /\ ledger' = ledger + 1
        /\ inspected' = inspected \cup {<<runs, ledger>>}
    BY <1>4 DEF FinishLedger, NextLedger
  <2>2. runs \in 1..MaxRuns /\ ledger \in Ledgers
    <3>1. proc = "inspecting" /\ runs >= 1 /\ ledger <= closed
      BY <1>4 DEF FinishLedger, UpIsSomewhere, InspectsClosed
    <3>2. QED
      BY <1>1, <3>1, AtALedger
  <2>3. \A l \in Ledgers : l \in Nat /\ (l < ledger + 1 => l < ledger \/ l = ledger)
    BY <1>1 DEF Ledgers
  <2>4. InspectedSoFar'
    <3>1. \A r \in 1..MaxRuns, l \in Ledgers : <<r, l>> \in inspected' => r <= runs'
      BY <1>1, <2>1 DEF InspectedSoFar
    <3>2. ASSUME NEW l \in Ledgers, <<runs, l>> \in inspected'
          PROVE  /\ l < ledger'
                 /\ \A m \in Ledgers : l <= m /\ m < ledger' => <<runs, m>> \in inspected'
      <4>1. CASE l = ledger
        BY <1>1, <2>1, <2>3, <4>1
      <4>2. CASE <<runs, l>> \in inspected
        BY <1>1, <2>1, <2>3, <4>2 DEF InspectedSoFar
      <4>3. QED
        BY <2>1, <3>2, <4>1, <4>2
    <3>3. QED
      BY <2>1, <3>1, <3>2 DEF InspectedSoFar
  <2>5. RunsAreContiguous'
    <3>1. SUFFICES ASSUME NEW r \in 1..runs', NEW k \in Ledgers, NEW l \in Ledgers,
                          NEW m \in Ledgers, k <= l, l <= m,
                          <<r, k>> \in inspected', <<r, m>> \in inspected'
                   PROVE  <<r, l>> \in inspected'
      BY DEF RunsAreContiguous
    <3>2. CASE r = runs
      <4>1. m < ledger'
        BY <2>1, <2>4, <3>1, <3>2 DEF InspectedSoFar
      <4>2. l < ledger'
        BY <1>1, <2>1, <2>3, <3>1, <4>1
      <4>3. QED
        BY <2>1, <2>4, <3>1, <3>2, <4>2 DEF InspectedSoFar
    <3>3. CASE r # runs
      BY <2>1, <3>1, <3>3 DEF RunsAreContiguous
    <3>4. QED
      BY <3>2, <3>3
  <2>6. QED
    BY <2>4, <2>5
<1>5. QED
  BY <1>2, <1>3, <1>4
  DEF Next, Inspect, vars, process, CloseLedger, PublishCheckpoint, EditFraudData,
      GetLedger, PassAccount, ReportAccount, EndRun, Send, SendAgain,
      SendOvertakes, SendFails

\* The place of the lookup only moves on, and events are made at it.
LEMMA BeforeStep ==
    ASSUME TypeOK, UpIsSomewhere, DetectedBefore, [Next]_vars
    PROVE  DetectedBefore'
<1>1. /\ runs \in Nat /\ ledger \in Nat /\ place \in Nat
      /\ \A e \in detected : e.run \in Nat /\ e.ledger \in Nat /\ e.place \in Nat
  BY PipelineAssumption DEF TypeOK, Events, Ledgers
<1>2. CASE UNCHANGED <<proc, runs, ledger, place, detected>>
  BY <1>2 DEF DetectedBefore
<1>3. CASE StartRun
  BY <1>1, <1>3 DEF StartRun, DetectedBefore
<1>4. CASE GetLedger
  BY <1>1, <1>4 DEF GetLedger, DetectedBefore
<1>5. CASE PassAccount
  BY <1>1, <1>5 DEF PassAccount, Inspecting, DetectedBefore
<1>6. CASE ReportAccount
  <2>1. /\ proc = "inspecting" /\ UNCHANGED <<proc, runs, ledger>> /\ place' = place + 1
        /\ detected' = detected \cup {EventOf(runs, ledger, place)}
    BY <1>6 DEF ReportAccount, Inspecting, EventOf
  <2>2. QED
    BY <1>1, <2>1 DEF DetectedBefore, EventOf
<1>7. CASE FinishLedger
  BY <1>1, <1>7 DEF FinishLedger, NextLedger, DetectedBefore
<1>8. CASE EndRun
  BY <1>1, <1>8 DEF EndRun, DetectedBefore
<1>9. QED
  BY <1>2, <1>3, <1>4, <1>5, <1>6, <1>7, <1>8
  DEF Next, Inspect, vars, process, CloseLedger, PublishCheckpoint, EditFraudData,
      Send, SendAgain, SendOvertakes, SendFails

\* What is detected joins the queue at its end, behind all that was detected
\* before; what is sent or given up leaves it at its front.
LEMMA InLineStep ==
    ASSUME TypeOK, SentIsDetected, DetectedBefore, InLine, [Next]_vars
    PROVE  InLine'
<1>1. /\ outbox \in Seq(Events) /\ topic \in Seq(Events) /\ resends \in Nat
      /\ Len(outbox) \in Nat /\ Len(topic) \in Nat
  BY PipelineAssumption DEF TypeOK
<1>2. CASE UNCHANGED <<topic, outbox, resends>>
  BY <1>2 DEF InLine
<1>3. CASE SendAgain \/ SendOvertakes
  <2>1. resends' = resends + 1
    BY <1>3 DEF SendAgain, SendOvertakes
  <2>2. resends' # 0
    BY <1>1, <2>1
  <2>3. QED
    BY <2>2 DEF InLine
<1>4. CASE ReportAccount /\ ~UNCHANGED outbox
  <2> DEFINE event == EventOf(runs, ledger, place)
  <2>1. /\ outbox' = Append(outbox, event) /\ topic' = topic /\ resends' = resends
        /\ proc = "inspecting" /\ event \in detected'
    BY <1>4 DEF ReportAccount, Inspecting, EventOf, broker
  <2>2. ASSUME NEW d \in detected PROVE Precedes(d, event)
    <3>1. /\ d.run \in Nat /\ runs \in Nat /\ d.run <= runs
          /\ d.run = runs => d.ledger < ledger \/ (d.ledger = ledger /\ d.place < place)
      BY <2>1, PipelineAssumption DEF DetectedBefore, TypeOK, Events
    <3>2. QED
      BY <3>1 DEF Precedes, EventOf
  <2>3. /\ \A i \in DOMAIN topic : topic[i] \in detected
        /\ \A i \in DOMAIN outbox : outbox[i] \in detected
    BY DEF SentIsDetected, ToSet
  <2> HIDE DEF event
  <2>4. /\ DOMAIN outbox' = 1..Len(outbox) + 1 /\ outbox'[Len(outbox) + 1] = event
        /\ \A i \in 1..Len(outbox) : outbox'[i] = outbox[i]
        /\ DOMAIN outbox = 1..Len(outbox)
    BY <1>1, <2>1
  <2>5. \A i \in DOMAIN outbox' : i \in DOMAIN outbox \/ i = Len(outbox) + 1
    BY <1>1, <2>4
  <2>6. ASSUME resends = 0, NEW i \in DOMAIN outbox', NEW j \in DOMAIN outbox', i < j
        PROVE  Precedes(outbox'[i], outbox'[j])
    <3>1. i \in DOMAIN outbox
      BY <1>1, <2>4, <2>6
    <3>2. CASE j \in DOMAIN outbox
      BY <2>4, <2>6, <3>1, <3>2 DEF InLine
    <3>3. CASE j = Len(outbox) + 1
      BY <2>2, <2>3, <2>4, <3>1, <3>3
    <3>4. QED
      BY <2>5, <3>2, <3>3
  <2>7. ASSUME resends = 0, NEW i \in DOMAIN topic, NEW j \in DOMAIN outbox'
        PROVE  Precedes(topic[i], outbox'[j])
    <3>1. CASE j \in DOMAIN outbox
      BY <2>4, <2>7, <3>1 DEF InLine
    <3>2. CASE j = Len(outbox) + 1
      BY <2>2, <2>3, <2>4, <3>2
    <3>3. QED
      BY <2>5, <3>1, <3>2
  <2>8. QED
    BY <2>1, <2>6, <2>7 DEF InLine
<1>5. CASE EndRun
  BY <1>5 DEF EndRun, broker, InLine
<1>6. ASSUME outbox # <<>>, outbox' = Tail(outbox)
      PROVE  /\ DOMAIN outbox' = 1..Len(outbox) - 1
             /\ \A i \in DOMAIN outbox' :
                  i \in Nat /\ i + 1 \in DOMAIN outbox /\ i + 1 > 1 /\ outbox'[i] = outbox[i + 1]
             /\ 1 \in DOMAIN outbox /\ Head(outbox) = outbox[1]
  BY <1>1, <1>6
<1>7. CASE SendFails
  <2>1. outbox # <<>> /\ outbox' = Tail(outbox) /\ topic' = topic /\ resends' = resends
    BY <1>7 DEF SendFails, broker
  <2>2. QED
    BY <1>6, <2>1 DEF InLine
<1>8. CASE Send
  <2>1. /\ outbox # <<>> /\ outbox' = Tail(outbox) /\ resends' = resends
        /\ topic' = Append(topic, outbox[1])
    BY <1>1, <1>6, <1>8 DEF Send
  <2>2. /\ DOMAIN topic' = 1..Len(topic) + 1 /\ topic'[Len(topic) + 1] = outbox[1]
        /\ \A i \in 1..Len(topic) : topic'[i] = topic[i]
        /\ DOMAIN topic = 1..Len(topic)
    BY <1>1, <1>6, <2>1
  <2>3. \A i \in DOMAIN topic' : i \in DOMAIN topic \/ i = Len(topic) + 1
    BY <1>1, <2>2
  <2>4. ASSUME resends = 0, NEW i \in DOMAIN topic', NEW j \in DOMAIN topic', i < j
        PROVE  Precedes(topic'[i], topic'[j])
    <3>1. i \in DOMAIN topic
      BY <1>1, <2>2, <2>4
    <3>2. CASE j \in DOMAIN topic
      BY <2>2, <2>4, <3>1, <3>2 DEF InLine
    <3>3. CASE j = Len(topic) + 1
      BY <1>6, <2>1, <2>2, <2>4, <3>1, <3>3 DEF InLine
    <3>4. QED
      BY <2>3, <3>2, <3>3
  <2>5. ASSUME resends = 0, NEW i \in DOMAIN outbox', NEW j \in DOMAIN outbox', i < j
        PROVE  Precedes(outbox'[i], outbox'[j])
    BY <1>6, <2>1, <2>5 DEF InLine
  <2>6. ASSUME resends = 0, NEW i \in DOMAIN topic', NEW j \in DOMAIN outbox'
        PROVE  Precedes(topic'[i], outbox'[j])
    BY <1>6, <2>1, <2>2, <2>3, <2>6 DEF InLine
  <2>7. QED
    BY <2>1, <2>4, <2>5, <2>6 DEF InLine
<1>9. QED
  BY <1>2, <1>3, <1>4, <1>5, <1>7, <1>8
  DEF Next, Inspect, vars, broker, CloseLedger, PublishCheckpoint, EditFraudData,
      StartRun, GetLedger, PassAccount, ReportAccount, FinishLedger

-----------------------------------------------------------------------------

LEMMA OnceAppend ==
    ASSUME NEW S, NEW s \in Seq(S), NEW e \in S, Once(s), e \notin ToSet(s)
    PROVE  Once(Append(s, e))
<1> DEFINE q == Append(s, e)
<1>1. /\ Len(s) \in Nat /\ DOMAIN s = 1..Len(s) /\ DOMAIN q = 1..Len(s) + 1
      /\ q[Len(s) + 1] = e /\ \A i \in DOMAIN s : q[i] = s[i]
  OBVIOUS
<1>2. \A i \in DOMAIN s : s[i] # e
  BY DEF ToSet
<1>3. \A i \in DOMAIN q : i \in DOMAIN s \/ i = Len(s) + 1
  BY <1>1
<1> HIDE DEF q
<1>4. Once(q)
  BY <1>1, <1>2, <1>3 DEF Once
<1> QED BY <1>4 DEF q

LEMMA OnceTail ==
    ASSUME NEW S, NEW s \in Seq(S), s # <<>>, Once(s)
    PROVE  Once(Tail(s)) /\ ToSet(Tail(s)) \subseteq ToSet(s) \ {Head(s)}
<1> DEFINE q == Tail(s)
<1>1. /\ Len(s) \in Nat /\ DOMAIN s = 1..Len(s) /\ DOMAIN q = 1..Len(s) - 1
      /\ \A i \in DOMAIN q : i + 1 \in DOMAIN s /\ i + 1 # 1 /\ i \in Nat /\ q[i] = s[i + 1]
      /\ 1 \in DOMAIN s /\ Head(s) = s[1]
  OBVIOUS
<1> HIDE DEF q
<1>2. \A i, j \in DOMAIN q : i + 1 = j + 1 => i = j
  BY <1>1
<1>3. Once(q)
  BY <1>1, <1>2 DEF Once
<1>4. \A i \in DOMAIN q : q[i] # Head(s)
  BY <1>1 DEF Once
<1>5. ToSet(q) \subseteq ToSet(s) \ {Head(s)}
  BY <1>1, <1>4 DEF ToSet
<1> QED BY <1>3, <1>5 DEF q

LEMMA OnceOvertake ==
    ASSUME NEW S, NEW s \in Seq(S), Len(s) > 1, Once(s)
    PROVE  Once(<<s[1]>> \o SubSeq(s, 3, Len(s)))
<1> DEFINE t == SubSeq(s, 3, Len(s))
           q == <<s[1]>> \o t
<1>1. Len(s) \in Nat /\ \A i \in 3..Len(s) : s[i] \in S
  OBVIOUS
<1>2. /\ t \in Seq(S)
      /\ Len(t) = IF 3 <= Len(s) THEN Len(s) - 3 + 1 ELSE 0
      /\ \A i \in 1..Len(s) - 3 + 1 : t[i] = s[3 + i - 1]
  BY <1>1, SubSeqProperties
<1> HIDE DEF t
<1>3. Len(t) \in Nat /\ \A i \in 1..Len(t) : i + 2 \in DOMAIN s /\ t[i] = s[i + 2]
  <2>1. CASE 3 <= Len(s)
    <3>1. Len(t) = Len(s) - 3 + 1
      BY <1>2, <2>1
    <3>2. \A i \in 1..Len(t) : t[i] = s[3 + i - 1]
      BY <1>2, <3>1
    <3>3. \A i \in 1..Len(t) : 3 + i - 1 = i + 2 /\ i + 2 \in 1..Len(s)
      BY <1>1, <3>1
    <3> QED BY <1>1, <2>1, <3>1, <3>2, <3>3
  <2>2. CASE ~(3 <= Len(s))
    <3>1. Len(t) = 0
      BY <1>2, <2>2
    <3> QED BY <3>1
  <2> QED BY <2>1, <2>2
<1>4. /\ q \in Seq(S) /\ DOMAIN q = 1..Len(t) + 1
      /\ q[1] = s[1] /\ \A i \in 2..Len(t) + 1 : q[i] = t[i - 1]
  <2>1. <<s[1]>> \in Seq(S) /\ Len(<<s[1]>>) = 1 /\ <<s[1]>>[1] = s[1]
    BY <1>1
  <2> QED BY <1>2, <1>3, <2>1
<1> HIDE DEF q
<1>5. \A i \in DOMAIN q :
        \/ i = 1 /\ q[i] = s[1]
        \/ i \in Nat /\ i + 1 > 2 /\ i + 1 \in DOMAIN s /\ q[i] = s[i + 1]
  <2> SUFFICES ASSUME NEW i \in DOMAIN q, i # 1
               PROVE  i \in Nat /\ i + 1 > 2 /\ i + 1 \in DOMAIN s /\ q[i] = s[i + 1]
    BY <1>4
  <2>1. i \in 2..Len(t) + 1 /\ i \in Nat /\ i + 1 > 2 /\ (i - 1) + 2 = i + 1
        /\ i - 1 \in 1..Len(t)
    BY <1>3, <1>4
  <2> QED BY <1>3, <1>4, <2>1
<1>6. 1 \in DOMAIN s
  BY <1>1
<1>7. Once(q)
  <2> SUFFICES ASSUME NEW i \in DOMAIN q, NEW j \in DOMAIN q, q[i] = q[j] PROVE i = j
    BY DEF Once
  <2>1. CASE i = 1 /\ q[i] = s[1]
    BY <1>5, <1>6, <2>1 DEF Once
  <2>2. CASE i \in Nat /\ i + 1 > 2 /\ i + 1 \in DOMAIN s /\ q[i] = s[i + 1]
    <3>1. j # 1
      <4>1. i + 1 # 1 /\ s[i + 1] # s[1]
        BY <1>6, <2>2 DEF Once
      <4> QED BY <1>4, <2>2, <4>1
    <3>2. j \in Nat /\ j + 1 \in DOMAIN s /\ q[j] = s[j + 1]
      BY <1>5, <3>1
    <3>3. i + 1 = j + 1
      BY <2>2, <3>2 DEF Once
    <3> QED BY <2>2, <3>2, <3>3
  <2> QED BY <1>5, <2>1, <2>2
<1> QED BY <1>7 DEF q, t

\* The run has not been at this place of this ledger before.
LEMMA NewEvent ==
    ASSUME TypeOK, DetectedBefore, proc = "inspecting"
    PROVE  EventOf(runs, ledger, place) \notin detected
<1> DEFINE e == EventOf(runs, ledger, place)
<1>1. e.run = runs /\ e.ledger = ledger /\ e.place = place
  BY DEF EventOf
<1>2. ledger \in Nat /\ place \in Nat
  BY PipelineAssumption DEF TypeOK
<1>3. e \in detected => ledger < ledger \/ place < place
  BY <1>1 DEF DetectedBefore
<1> QED BY <1>2, <1>3

\* No event is queued twice: a detected event is new, and a repeated send takes
\* nothing back into the queue.
LEMMA OnceStep ==
    ASSUME TypeOK, TypeOK', SentIsDetected, DetectedBefore, Once(outbox), [Next]_vars
    PROVE  Once(outbox')
<1>1. outbox \in Seq(Events)
  BY DEF TypeOK
<1>2. CASE outbox' = outbox
  BY <1>2
<1>3. CASE ReportAccount /\ ~UNCHANGED outbox
  <2> DEFINE event == EventOf(runs, ledger, place)
  <2>1. /\ outbox' = Append(outbox, event) /\ proc = "inspecting" /\ event \in detected'
    BY <1>3 DEF ReportAccount, Inspecting, EventOf
  <2>2. event \notin ToSet(outbox)
    <3>1. event \notin detected
      BY <2>1, NewEvent
    <3> QED BY <3>1 DEF SentIsDetected
  <2>3. event \in Events
    BY <2>1 DEF TypeOK
  <2> HIDE DEF event
  <2> QED BY <1>1, <2>1, <2>2, <2>3, OnceAppend
<1>4. CASE EndRun
  BY <1>4 DEF EndRun, Once
<1>5. CASE Send \/ SendFails
  BY <1>1, <1>5, OnceTail DEF Send, SendFails
<1>6. CASE SendOvertakes
  BY <1>1, <1>6, OnceOvertake DEF SendOvertakes
<1> QED BY <1>2, <1>3, <1>4, <1>5, <1>6
  DEF Next, Inspect, vars, CloseLedger, PublishCheckpoint, EditFraudData, SendAgain,
      StartRun, GetLedger, PassAccount, ReportAccount, FinishLedger

-----------------------------------------------------------------------------

LEMMA CountsAreFinite ==
    ASSUME TypeOK, NEW l, NEW p
    PROVE  /\ IsFiniteSet(CopiesOf(l, p)) /\ Cardinality(CopiesOf(l, p)) \in Nat
           /\ IsFiniteSet(RunsQueued(l, p)) /\ Cardinality(RunsQueued(l, p)) \in Nat
           /\ IsFiniteSet(RunsDetected(l, p)) /\ Cardinality(RunsDetected(l, p)) \in Nat
           /\ resends \in Nat
<1>1. MaxRuns \in Nat /\ Len(topic) \in Nat /\ resends \in Nat
  BY PipelineAssumption DEF TypeOK
<1>2. IsFiniteSet(1..MaxRuns) /\ IsFiniteSet(1..Len(topic))
  BY <1>1, FS_Interval
<1>3. /\ CopiesOf(l, p) \subseteq 1..Len(topic)
      /\ RunsQueued(l, p) \subseteq 1..MaxRuns /\ RunsDetected(l, p) \subseteq 1..MaxRuns
  BY DEF CopiesOf, RunsQueued, RunsDetected, TypeOK
<1> QED BY <1>1, <1>2, <1>3, FS_Subset, FS_CardinalityType

\* A step leaves these sets finite.
LEMMA CountsStayFinite ==
    ASSUME TypeOK', NEW l, NEW p
    PROVE  /\ IsFiniteSet(CopiesOf(l, p)') /\ Cardinality(CopiesOf(l, p)') \in Nat
           /\ IsFiniteSet(RunsQueued(l, p)') /\ Cardinality(RunsQueued(l, p)') \in Nat
           /\ IsFiniteSet(RunsDetected(l, p)') /\ Cardinality(RunsDetected(l, p)') \in Nat
<1>1. MaxRuns \in Nat /\ Len(topic') \in Nat
  BY PipelineAssumption DEF TypeOK
<1>2. IsFiniteSet(1..MaxRuns) /\ IsFiniteSet(1..Len(topic'))
  BY <1>1, FS_Interval
<1>3. /\ CopiesOf(l, p)' \subseteq 1..Len(topic')
      /\ RunsQueued(l, p)' \subseteq 1..MaxRuns /\ RunsDetected(l, p)' \subseteq 1..MaxRuns
  BY DEF CopiesOf, RunsQueued, RunsDetected, TypeOK
<1> QED BY <1>1, <1>2, <1>3, FS_Subset, FS_CardinalityType

\* What is appended to the topic is at most one copy more, and none of another
\* participant.
LEMMA TopicAppend ==
    ASSUME TypeOK, TypeOK', NEW e \in Events, topic' = Append(topic, e), NEW l, NEW p
    PROVE  /\ Cardinality(CopiesOf(l, p)') <= Cardinality(CopiesOf(l, p)) + 1
           /\ e.ledger # l \/ e.place # p => CopiesOf(l, p)' = CopiesOf(l, p)
<1>1. topic \in Seq(Events) /\ Len(topic) \in Nat
  BY DEF TypeOK
<1>2. /\ DOMAIN topic' = 1..Len(topic) + 1 /\ topic'[Len(topic) + 1] = e
      /\ \A i \in 1..Len(topic) : topic'[i] = topic[i]
      /\ DOMAIN topic = 1..Len(topic)
  BY <1>1
<1>3. \A i \in DOMAIN topic' : i \in DOMAIN topic \/ i = Len(topic) + 1
  BY <1>1, <1>2
<1>4. \A i \in DOMAIN topic : i \in DOMAIN topic'
  BY <1>1, <1>2
<1>5. CopiesOf(l, p)' \subseteq CopiesOf(l, p) \cup {Len(topic) + 1}
  BY <1>2, <1>3 DEF CopiesOf
<1>6. e.ledger # l \/ e.place # p => CopiesOf(l, p)' = CopiesOf(l, p)
  BY <1>2, <1>3, <1>4 DEF CopiesOf
<1> DEFINE more == CopiesOf(l, p) \cup {Len(topic) + 1}
<1>7. /\ IsFiniteSet(more)
      /\ Cardinality(more) = Cardinality(CopiesOf(l, p))
           \/ Cardinality(more) = Cardinality(CopiesOf(l, p)) + 1
  BY CountsAreFinite, CountsStayFinite, FS_AddElement
<1> HIDE DEF more
<1>8. Cardinality(CopiesOf(l, p)') <= Cardinality(more)
  BY <1>5, <1>7, FS_Subset DEF more
<1>9. Cardinality(CopiesOf(l, p)') \in Nat /\ Cardinality(CopiesOf(l, p)) \in Nat
  BY CountsAreFinite, CountsStayFinite
<1> QED BY <1>6, <1>7, <1>8, <1>9

\* Nothing is sent, and the queue holds nothing new.
LEMMA QuietCounted ==
    ASSUME TypeOK, TypeOK', NEW l, NEW p, Counted(l, p), topic' = topic,
           resends' = resends, ToSet(outbox') \subseteq ToSet(outbox),
           detected \subseteq detected'
    PROVE  Counted(l, p)'
<1>1. /\ CopiesOf(l, p)' = CopiesOf(l, p)
      /\ RunsQueued(l, p)' \subseteq RunsQueued(l, p)
      /\ RunsDetected(l, p) \subseteq RunsDetected(l, p)'
  BY DEF CopiesOf, RunsQueued, RunsDetected, EventOf
<1>2. /\ Cardinality(RunsQueued(l, p)') <= Cardinality(RunsQueued(l, p))
      /\ Cardinality(RunsDetected(l, p)) <= Cardinality(RunsDetected(l, p)')
  BY <1>1, CountsAreFinite, CountsStayFinite, FS_Subset
<1> DEFINE q2 == Cardinality(RunsQueued(l, p)')
           d2 == Cardinality(RunsDetected(l, p)')
<1>3. q2 \in Nat /\ d2 \in Nat
  BY CountsAreFinite, CountsStayFinite
<1>4. q2 <= Cardinality(RunsQueued(l, p)) /\ Cardinality(RunsDetected(l, p)) <= d2
  BY <1>2
<1> HIDE DEF q2, d2
<1>5. Cardinality(CopiesOf(l, p)) + q2 <= d2 + resends
  BY <1>3, <1>4, CountsAreFinite, CountsStayFinite DEF Counted
<1> QED BY <1>1, <1>5 DEF Counted, q2, d2

\* A send that is repeated: one copy more, one repetition more.
LEMMA RepeatedCounted ==
    ASSUME TypeOK, TypeOK', NEW l, NEW p, Counted(l, p),
           NEW e \in Events, topic' = Append(topic, e), resends' = resends + 1,
           ToSet(outbox') \subseteq ToSet(outbox), detected' = detected
    PROVE  Counted(l, p)'
<1>1. /\ RunsQueued(l, p)' \subseteq RunsQueued(l, p)
      /\ RunsDetected(l, p)' = RunsDetected(l, p)
  BY DEF RunsQueued, RunsDetected, EventOf
<1> DEFINE c2 == Cardinality(CopiesOf(l, p)')
           q2 == Cardinality(RunsQueued(l, p)')
<1>2. c2 \in Nat /\ q2 \in Nat
  BY CountsAreFinite, CountsStayFinite
<1>3. q2 <= Cardinality(RunsQueued(l, p))
  BY <1>1, CountsAreFinite, CountsStayFinite, FS_Subset
<1>4. c2 <= Cardinality(CopiesOf(l, p)) + 1
  BY TopicAppend
<1> HIDE DEF c2, q2
<1>5. c2 + q2 <= Cardinality(RunsDetected(l, p)) + (resends + 1)
  BY <1>2, <1>3, <1>4, CountsAreFinite, CountsStayFinite DEF Counted
<1> QED BY <1>1, <1>5 DEF Counted, c2, q2

\* What leaves the queue for the topic is counted there from now on.
LEMMA SendCounted ==
    ASSUME TypeOK, TypeOK', Once(outbox), NEW l, NEW p, Counted(l, p), Send
    PROVE  Counted(l, p)'
<1> DEFINE e == Head(outbox)
<1>1. /\ outbox \in Seq(Events) /\ outbox # <<>> /\ outbox' = Tail(outbox)
      /\ topic' = Append(topic, e) /\ resends' = resends /\ detected' = detected
  BY DEF Send, TypeOK
<1>2. /\ e \in Events /\ e \in ToSet(outbox)
      /\ ToSet(outbox') \subseteq ToSet(outbox) \ {e}
  BY <1>1, QueueElements, OnceTail
<1> HIDE DEF e
<1>3. RunsDetected(l, p)' = RunsDetected(l, p)
  BY <1>1 DEF RunsDetected, EventOf
<1> DEFINE c2 == Cardinality(CopiesOf(l, p)')
           q2 == Cardinality(RunsQueued(l, p)')
<1>4. c2 \in Nat /\ q2 \in Nat
  BY CountsAreFinite, CountsStayFinite
<1>5. CASE e.ledger = l /\ e.place = p
  <2>1. e = EventOf(e.run, l, p) /\ e.run \in 1..MaxRuns
    BY <1>2, <1>5 DEF EventOf, Events
  <2>2. e.run \in RunsQueued(l, p) /\ RunsQueued(l, p)' \subseteq RunsQueued(l, p) \ {e.run}
    BY <1>2, <2>1 DEF RunsQueued, EventOf
  <2>3. /\ IsFiniteSet(RunsQueued(l, p) \ {e.run})
        /\ Cardinality(RunsQueued(l, p) \ {e.run}) = Cardinality(RunsQueued(l, p)) - 1
    BY <2>2, CountsAreFinite, CountsStayFinite, FS_RemoveElement
  <2>4. q2 <= Cardinality(RunsQueued(l, p)) - 1
    BY <2>2, <2>3, FS_Subset
  <2>5. c2 <= Cardinality(CopiesOf(l, p)) + 1
    BY <1>1, <1>2, TopicAppend
  <2> HIDE DEF c2, q2
  <2>6. c2 + q2 <= Cardinality(RunsDetected(l, p)) + resends
    BY <1>4, <2>4, <2>5, CountsAreFinite, CountsStayFinite DEF Counted
  <2> QED BY <1>1, <1>3, <2>6 DEF Counted, c2, q2
<1>6. CASE e.ledger # l \/ e.place # p
  <2>1. CopiesOf(l, p)' = CopiesOf(l, p)
    BY <1>1, <1>2, <1>6, TopicAppend
  <2>2. RunsQueued(l, p)' \subseteq RunsQueued(l, p)
    BY <1>2 DEF RunsQueued, EventOf
  <2>3. q2 <= Cardinality(RunsQueued(l, p))
    BY <2>2, CountsAreFinite, CountsStayFinite, FS_Subset
  <2> HIDE DEF q2
  <2>4. Cardinality(CopiesOf(l, p)) + q2 <= Cardinality(RunsDetected(l, p)) + resends
    BY <1>4, <2>3, CountsAreFinite, CountsStayFinite DEF Counted
  <2> QED BY <1>1, <1>3, <2>1, <2>4 DEF Counted, q2
<1> QED BY <1>5, <1>6

\* What a run detects it has not detected before.
LEMMA ReportCounted ==
    ASSUME TypeOK, TypeOK', DetectedBefore, NEW l, NEW p, Counted(l, p), ReportAccount
    PROVE  Counted(l, p)'
<1> DEFINE event == EventOf(runs, ledger, place)
<1>1. /\ proc = "inspecting" /\ topic' = topic /\ resends' = resends
      /\ detected' = detected \cup {event}
      /\ outbox' = Append(outbox, event) \/ outbox' = outbox
  BY DEF ReportAccount, Inspecting, EventOf, broker
<1>2. event \in Events /\ event \notin detected
  <2>1. event \in detected'
    BY <1>1
  <2> QED BY <1>1, <2>1, NewEvent DEF TypeOK
<1>3. /\ event.run = runs /\ event.ledger = ledger /\ event.place = place
      /\ \A r, k, q : EventOf(r, k, q) = event => r = runs /\ k = ledger /\ q = place
  BY DEF EventOf
<1> HIDE DEF event
<1>4. ToSet(outbox') \subseteq ToSet(outbox) \cup {event}
  <2>1. outbox \in Seq(Events)
    BY DEF TypeOK
  <2> QED BY <1>1, <1>2, <2>1, QueueElements
<1>5. CASE ledger = l /\ place = p
  <2> DEFINE q2 == Cardinality(RunsQueued(l, p)')
             d2 == Cardinality(RunsDetected(l, p)')
  <2>1. q2 \in Nat /\ d2 \in Nat
    BY CountsAreFinite, CountsStayFinite
  <2>2. event = EventOf(runs, l, p) /\ runs \in 1..MaxRuns
    BY <1>2, <1>3, <1>5 DEF EventOf, Events, event
  <2>3. /\ runs \notin RunsDetected(l, p)
        /\ RunsDetected(l, p)' = RunsDetected(l, p) \cup {runs}
        /\ RunsQueued(l, p)' \subseteq RunsQueued(l, p) \cup {runs}
    BY <1>1, <1>2, <1>3, <1>4, <2>2 DEF RunsDetected, RunsQueued, EventOf
  <2>4. d2 = Cardinality(RunsDetected(l, p)) + 1
    BY <2>3, CountsAreFinite, CountsStayFinite, FS_AddElement
  <2>5. /\ IsFiniteSet(RunsQueued(l, p) \cup {runs})
        /\ \/ Cardinality(RunsQueued(l, p) \cup {runs}) = Cardinality(RunsQueued(l, p))
           \/ Cardinality(RunsQueued(l, p) \cup {runs}) = Cardinality(RunsQueued(l, p)) + 1
    BY CountsAreFinite, CountsStayFinite, FS_AddElement
  <2>6. q2 <= Cardinality(RunsQueued(l, p) \cup {runs})
    BY <2>3, <2>5, FS_Subset
  <2> HIDE DEF q2, d2
  <2>7. q2 <= Cardinality(RunsQueued(l, p)) + 1
    BY <2>1, <2>5, <2>6, CountsAreFinite, CountsStayFinite
  <2>8. Cardinality(CopiesOf(l, p)) + q2 <= d2 + resends
    BY <2>1, <2>4, <2>7, CountsAreFinite, CountsStayFinite DEF Counted
  <2>9. CopiesOf(l, p)' = CopiesOf(l, p)
    BY <1>1 DEF CopiesOf
  <2> QED BY <1>1, <2>8, <2>9 DEF Counted, q2, d2
<1>6. CASE ledger # l \/ place # p
  <2>1. \A r : EventOf(r, l, p) # event
    BY <1>3, <1>6
  <2>2. /\ RunsQueued(l, p)' \subseteq RunsQueued(l, p)
        /\ RunsDetected(l, p)' = RunsDetected(l, p) /\ CopiesOf(l, p)' = CopiesOf(l, p)
    BY <1>1, <1>4, <2>1 DEF RunsDetected, RunsQueued, CopiesOf, EventOf
  <2> DEFINE q2 == Cardinality(RunsQueued(l, p)')
  <2>3. q2 \in Nat /\ q2 <= Cardinality(RunsQueued(l, p))
    BY <2>2, CountsAreFinite, CountsStayFinite, FS_Subset
  <2> HIDE DEF q2
  <2>4. Cardinality(CopiesOf(l, p)) + q2 <= Cardinality(RunsDetected(l, p)) + resends
    BY <2>3, CountsAreFinite, CountsStayFinite DEF Counted
  <2> QED BY <1>1, <2>2, <2>4 DEF Counted, q2
<1> QED BY <1>5, <1>6

LEMMA CountedStep ==
    ASSUME TypeOK, TypeOK', DetectedBefore, Once(outbox), CopiesCounted, [Next]_vars
    PROVE  CopiesCounted'
<1> SUFFICES ASSUME NEW l \in Ledgers, NEW p \in DOMAIN Activity[l], Counted(l, p)
             PROVE  Counted(l, p)'
  BY DEF CopiesCounted
<1>1. outbox \in Seq(Events) /\ detected \subseteq detected'
  BY DetectedStep DEF TypeOK
<1>2. CASE UNCHANGED <<topic, outbox, resends>>
  BY <1>1, <1>2, QuietCounted
<1>3. CASE ReportAccount
  BY <1>3, ReportCounted
<1>4. CASE EndRun
  <2>1. topic' = topic /\ resends' = resends /\ ToSet(outbox') \subseteq ToSet(outbox)
    BY <1>4 DEF EndRun, broker, ToSet
  <2> QED BY <1>1, <2>1, QuietCounted
<1>5. CASE SendFails
  <2>1. topic' = topic /\ resends' = resends /\ ToSet(outbox') \subseteq ToSet(outbox)
    BY <1>1, <1>5, QueueElements DEF SendFails, broker
  <2> QED BY <1>1, <2>1, QuietCounted
<1>6. CASE Send
  BY <1>6, SendCounted
<1>7. CASE SendAgain
  <2>1. /\ topic' = Append(topic, Head(outbox)) /\ resends' = resends + 1
        /\ outbox' = outbox /\ detected' = detected /\ Head(outbox) \in Events
    BY <1>1, <1>7 DEF SendAgain
  <2> QED BY <2>1, RepeatedCounted
<1>8. CASE SendOvertakes
  <2>1. /\ topic' = Append(topic, outbox[2]) /\ resends' = resends + 1
        /\ ToSet(outbox') \subseteq ToSet(outbox) /\ detected' = detected
        /\ outbox[2] \in Events
    BY <1>1, <1>8, QueueOvertake, QueueElements DEF SendOvertakes
  <2> QED BY <2>1, RepeatedCounted
<1> QED BY <1>2, <1>3, <1>4, <1>5, <1>6, <1>7, <1>8
  DEF Next, Inspect, vars, broker, CloseLedger, PublishCheckpoint, EditFraudData,
      StartRun, GetLedger, PassAccount, ReportAccount, FinishLedger

-----------------------------------------------------------------------------

\* The inductive invariant.
PipelineInv ==
    /\ TypeOK
    /\ UpIsSomewhere /\ InspectsClosed
    /\ SteadyIsFlagged /\ CurrentReported /\ SteadyAreReported
    /\ DetectedIsGenuine /\ SentIsDetected
    /\ InspectedSoFar /\ RunsAreContiguous
    /\ DetectedBefore /\ InLine
    /\ Once(outbox) /\ CopiesCounted

LEMMA PipelineInvInit == Init => PipelineInv
<1> SUFFICES ASSUME Init PROVE PipelineInv
  OBVIOUS
<1> USE PipelineAssumption DEF Init
<1>1. TypeOK
  BY DEF TypeOK
<1>2. UpIsSomewhere /\ InspectsClosed /\ SteadyIsFlagged /\ CurrentReported
  BY DEF UpIsSomewhere, InspectsClosed, SteadyIsFlagged, CurrentReported
<1>3. SteadyAreReported /\ InspectedSoFar /\ RunsAreContiguous
  BY DEF SteadyAreReported, InspectedSoFar, RunsAreContiguous
<1>4. DetectedIsGenuine /\ SentIsDetected /\ DetectedBefore /\ InLine
  BY DEF DetectedIsGenuine, SentIsDetected, DetectedBefore, InLine, ToSet
<1>5. Once(outbox)
  BY DEF Once
<1>6. ASSUME NEW l, NEW p PROVE Counted(l, p)
  <2>1. CopiesOf(l, p) = {} /\ RunsQueued(l, p) = {} /\ RunsDetected(l, p) = {}
    BY DEF CopiesOf, RunsQueued, RunsDetected, ToSet
  <2>2. Cardinality({}) = 0
    BY FS_EmptySet
  <2> QED BY <2>1, <2>2 DEF Counted
<1>7. QED
  BY <1>1, <1>2, <1>3, <1>4, <1>5, <1>6 DEF PipelineInv, CopiesCounted

LEMMA PipelineInvStep == PipelineInv /\ [Next]_vars => PipelineInv'
<1> SUFFICES ASSUME PipelineInv, [Next]_vars PROVE PipelineInv'
  OBVIOUS
<1>1. TypeOK' /\ UpIsSomewhere' /\ InspectsClosed'
  BY PipelineTypeStep, PlaceStep DEF PipelineInv
<1>2. SteadyIsFlagged' /\ CurrentReported' /\ SteadyAreReported'
  BY SteadyStep, CurrentStep, ReportedStep DEF PipelineInv
<1>3. DetectedIsGenuine' /\ SentIsDetected'
  BY <1>1, GenuineStep, SentStep DEF PipelineInv
<1>4. InspectedSoFar' /\ RunsAreContiguous'
  BY <1>1, ContiguousStep DEF PipelineInv
<1>5. DetectedBefore' /\ InLine'
  BY BeforeStep, InLineStep DEF PipelineInv
<1>6. Once(outbox)' /\ CopiesCounted'
  BY <1>1, OnceStep, CountedStep DEF PipelineInv
<1>7. QED
  BY <1>1, <1>2, <1>3, <1>4, <1>5, <1>6 DEF PipelineInv

LEMMA PipelineInvAlways == Spec => []PipelineInv
BY PipelineInvInit, PipelineInvStep, PTL DEF Spec

\* The processor's state is of its types and the Kafka client's queue never
\* holds more than its limit.
THEOREM PipelineTypeCorrect == Spec => []TypeOK
<1>1. PipelineInv => TypeOK
  BY DEF PipelineInv
<1>2. QED
  BY <1>1, PipelineInvAlways, PTL

\* In every ledger a run inspects to its end, each transaction of an account that
\* was flagged all along is handed to the Kafka client, whatever else is edited
\* in the fraud data between two lookups.
THEOREM PipelineReportsSteady == Spec => []SteadyAreReported
<1>1. PipelineInv => SteadyAreReported
  BY DEF PipelineInv
<1>2. QED
  BY <1>1, PipelineInvAlways, PTL

\* What is in the topic names a participant of a ledger that had closed and whose
\* account had a record in the fraud data.
THEOREM PipelinePublishesOnlyFlagged == Spec => []OnlyFlaggedArePublished
<1>1. PipelineInv => OnlyFlaggedArePublished
  BY DEF PipelineInv, DetectedIsGenuine, SentIsDetected, Genuine,
         OnlyFlaggedArePublished
<1>2. QED
  BY <1>1, PipelineInvAlways, PTL

\* A run leaves out no ledger between two it inspects.
THEOREM PipelineRunsContiguous == Spec => []RunsAreContiguous
<1>1. PipelineInv => RunsAreContiguous
  BY DEF PipelineInv
<1>2. QED
  BY <1>1, PipelineInvAlways, PTL

\* As long as no send is repeated the topic has the order of the ledgers and of
\* the transactions in them, run by run, and each event once.
THEOREM PipelineTopicInOrder == Spec => []TopicInOrder
<1>1. PipelineInv => TopicInOrder
  BY DEF PipelineInv, InLine, TopicInOrder
<1>2. QED
  BY <1>1, PipelineInvAlways, PTL

\* Of each participant of each ledger the topic has at most one event per run and
\* one per repeated send, although a restart goes back to the checkpoint and the
\* Kafka client may send what has arrived once more.
THEOREM PipelineRepeatsExplained == Spec => []RepeatsExplained
<1>1. PipelineInv => RepeatsExplained
  <2> SUFFICES ASSUME PipelineInv, NEW l \in Ledgers, NEW p \in DOMAIN Activity[l]
               PROVE  Cardinality(CopiesOf(l, p)) <= runs + resends
    BY DEF RepeatsExplained
  <2>1. TypeOK /\ DetectedBefore /\ Counted(l, p)
    BY DEF PipelineInv, CopiesCounted
  <2>2. runs \in Nat /\ MaxRuns \in Nat
    BY <2>1, PipelineAssumption DEF TypeOK
  <2>3. RunsDetected(l, p) \subseteq 1..runs
    BY <2>1, <2>2 DEF RunsDetected, DetectedBefore, EventOf
  <2>4. IsFiniteSet(1..runs) /\ Cardinality(1..runs) = runs
    BY <2>2, FS_Interval
  <2>5. Cardinality(RunsDetected(l, p)) <= runs
    BY <2>3, <2>4, FS_Subset
  <2> QED BY <2>1, <2>2, <2>5, CountsAreFinite DEF Counted
<1>2. QED
  BY <1>1, PipelineInvAlways, PTL
=============================================================================
