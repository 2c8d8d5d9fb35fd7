--------------------------- MODULE FraudFeedProofs ---------------------------
(***************************************************************************)
(* The fraud feed for any directory, any number of jobs and of failures.   *)
(* What the queue holds between jobs follows from two counts, kept at every *)
(* step of either thread: of the sentinels in the queue, against the       *)
(* failures, and for each batch of those behind it, against the jobs that  *)
(* came since.                                                             *)
(***************************************************************************)
EXTENDS FraudFeed, FiniteSetTheorems, TLAPS

\* The places of q after the n-th that hold a sentinel, and their number.
SentinelsIn(q, n) == {k \in n + 1..Len(q) : q[k] = Sentinel}
Count(q, n) == Cardinality(SentinelsIn(q, n))

\* The producer is neither through nor dead, though a request may hold it up.
Underway == producer \in {"fetching", "stalled"}

\* One while the producer still has its sentinel to put.
Owed == IF Underway THEN 1 ELSE 0

\* One while the main thread still has a sentinel to take.
Wanted == IF main = "writing" THEN 1 ELSE 0

\* Where the threads can be at the same time.
ThreadsAgree ==
    /\ BetweenJobs => ~Underway
    /\ Underway => jobs > 0

\* The balance of SentinelsBalance at every step of a job.
Balance ==
    main # "exited" => Count(queue, 0) + deaths + Owed = writeFails + Wanted

\* Every job since that of a batch has put a sentinel behind it, died, or owes it.
SentinelsBehind ==
    \A i \in DOMAIN queue :
        queue[i] # Sentinel =>
            Count(queue, i) + deaths + Owed > jobs - queue[i].job

FeedInv == TypeOK /\ ThreadsAgree /\ Balance /\ SentinelsBehind

-----------------------------------------------------------------------------

LEMMA CountType ==
    ASSUME NEW S, NEW q \in Seq(S), NEW n \in Nat
    PROVE  IsFiniteSet(SentinelsIn(q, n)) /\ Count(q, n) \in Nat
<1>1. IsFiniteSet(n + 1..Len(q))
  BY FS_Interval
<1>2. SentinelsIn(q, n) \in SUBSET (n + 1..Len(q))
  BY DEF SentinelsIn
<1>3. IsFiniteSet(SentinelsIn(q, n))
  BY <1>1, <1>2, FS_Subset
<1>4. QED
  BY <1>3, FS_CardinalityType DEF Count

\* An item that is put adds itself to what is counted.
LEMMA CountAppend ==
    ASSUME NEW S, NEW q \in Seq(S), NEW x, NEW n \in 0..Len(q)
    PROVE  Count(Append(q, x), n) = Count(q, n) + IF x = Sentinel THEN 1 ELSE 0
<1>1. IsFiniteSet(SentinelsIn(q, n)) /\ Count(q, n) \in Nat
  BY CountType
<1>2. CASE x = Sentinel
  <2>1. SentinelsIn(Append(q, x), n) = SentinelsIn(q, n) \cup {Len(q) + 1}
    BY <1>2 DEF SentinelsIn
  <2>2. Len(q) + 1 \notin SentinelsIn(q, n)
    BY DEF SentinelsIn
  <2>3. QED
    BY <1>1, <1>2, <2>1, <2>2, FS_AddElement DEF Count
<1>3. CASE x # Sentinel
  <2>1. SentinelsIn(Append(q, x), n) = SentinelsIn(q, n)
    BY <1>3 DEF SentinelsIn
  <2>2. QED
    BY <1>1, <1>3, <2>1 DEF Count
<1>4. QED
  BY <1>2, <1>3

\* What is behind a place stays behind it when the head is taken.
LEMMA CountTail ==
    ASSUME NEW S, NEW q \in Seq(S), q # <<>>, NEW n \in Nat
    PROVE  Count(Tail(q), n) = Count(q, n + 1)
<1> DEFINE A == SentinelsIn(q, n + 1)
           B == SentinelsIn(Tail(q), n)
           f == [k \in A |-> k - 1]
<1>1. Tail(q) \in Seq(S) /\ Len(Tail(q)) = Len(q) - 1 /\ Len(q) \in Nat
  OBVIOUS
<1>2. \A k \in 1..Len(q) - 1 : Tail(q)[k] = q[k + 1]
  OBVIOUS
<1>3. IsFiniteSet(A)
  BY CountType
<1>4. \A k \in A : k \in Nat /\ k - 1 \in B
  BY <1>1, <1>2 DEF SentinelsIn
<1>5. \A k \in B : k \in Nat /\ k + 1 \in A
  BY <1>1, <1>2 DEF SentinelsIn
<1>6. f \in Bijection(A, B)
  <2>1. f \in [A -> B]
    BY <1>4
  <2>2. \A j, k \in A : f[j] = f[k] => j = k
    BY <1>4
  <2>3. \A k \in B : \E j \in A : f[j] = k
    <3> SUFFICES ASSUME NEW k \in B PROVE \E j \in A : f[j] = k
      OBVIOUS
    <3>1. k + 1 \in A /\ f[k + 1] = k
      BY <1>5
    <3>2. QED
      BY <3>1
  <2>4. QED
    BY <2>1, <2>2, <2>3 DEF Bijection, Injection, IsInjective, Surjection
<1>7. ExistsBijection(A, B)
  BY <1>6 DEF ExistsBijection
<1>8. QED
  BY <1>3, <1>7, FS_Bijection DEF Count

\* The head counts for itself.
LEMMA CountHead ==
    ASSUME NEW S, NEW q \in Seq(S), q # <<>>
    PROVE  Count(q, 0) = Count(q, 1) + IF Head(q) = Sentinel THEN 1 ELSE 0
<1>1. IsFiniteSet(SentinelsIn(q, 1)) /\ Count(q, 1) \in Nat
  BY CountType
<1>2. CASE Head(q) = Sentinel
  <2>1. SentinelsIn(q, 0) = SentinelsIn(q, 1) \cup {1}
    BY <1>2 DEF SentinelsIn
  <2>2. 1 \notin SentinelsIn(q, 1)
    BY DEF SentinelsIn
  <2>3. QED
    BY <1>1, <1>2, <2>1, <2>2, FS_AddElement DEF Count
<1>3. CASE Head(q) # Sentinel
  <2>1. SentinelsIn(q, 0) = SentinelsIn(q, 1)
    BY <1>3 DEF SentinelsIn
  <2>2. QED
    BY <1>1, <1>3, <2>1 DEF Count
<1>4. QED
  BY <1>2, <1>3

\* There are at most as many sentinels behind a place as in the queue.
LEMMA CountBehind ==
    ASSUME NEW S, NEW q \in Seq(S), NEW n \in Nat
    PROVE  Count(q, n) <= Count(q, 0)
<1>1. IsFiniteSet(SentinelsIn(q, 0))
  BY CountType
<1>2. SentinelsIn(q, n) \in SUBSET SentinelsIn(q, 0)
  BY DEF SentinelsIn
<1>3. QED
  BY <1>1, <1>2, FS_Subset DEF Count

LEMMA CountEmpty == Count(<<>>, 0) = 0
BY FS_EmptySet DEF Count, SentinelsIn

-----------------------------------------------------------------------------

\* The step relation the proofs split.
FeedStep == Next \/ UNCHANGED vars

LEMMA PutType ==
    ASSUME NEW st \in [Addresses -> Origins], NEW s, NEW o \in Origins
    PROVE  Put(st, s, o) \in [Addresses -> Origins]
BY DEF Put

LEMMA ScriptType ==
    ASSUME store \in [Addresses -> Origins], NEW n \in 0..3
    PROVE  AfterScript(n) \in [Addresses -> Origins]
<1> DEFINE put  == IF n >= 1 THEN Put(store, Inserted, "inserted") ELSE store
           post == IF n >= 2
                   THEN Put(put, {a \in Updated : put[a] # "none"}, "updated")
                   ELSE put
<1>1. {"none", "inserted", "updated"} \subseteq Origins
  BY DEF Origins
<1>2. put \in [Addresses -> Origins]
  BY <1>1, PutType
<1>3. post \in [Addresses -> Origins]
  <2> HIDE DEF put
  <2>1. QED
    BY <1>1, <1>2, PutType
<1>4. AfterScript(n) = IF n = 3 THEN Put(post, Deleted, "none") ELSE post
  BY DEF AfterScript
<1>5. QED
  <2> HIDE DEF post
  <2>1. QED
    BY <1>1, <1>3, <1>4, PutType

\* What a producer puts is of the queue's type.
LEMMA BatchType ==
    ASSUME TypeOK, ThreadsAgree, producer = "fetching", page \in Pages
    PROVE  Batch \in Batches /\ Batch # Sentinel /\ Batch.job = jobs
<1>1. jobs \in 1..MaxJobs
  BY FeedAssumption DEF TypeOK, ThreadsAgree, Underway
<1>2. QED
  BY <1>1, SentinelAssumption DEF Batch, Batches

LEMMA QueueType ==
    ASSUME TypeOK
    PROVE  /\ \A b \in Batches \cup {Sentinel} :
                Append(queue, b) \in Seq(Batches \cup {Sentinel})
           /\ queue # <<>> => Tail(queue) \in Seq(Batches \cup {Sentinel})
<1> queue \in Seq(Batches \cup {Sentinel})
  BY DEF TypeOK
<1> QED
  OBVIOUS

LEMMA FeedTypeStep ==
    ASSUME TypeOK, ThreadsAgree, FeedStep
    PROVE  TypeOK'
<1> USE FeedAssumption
<1>1. CASE StartJob
  BY <1>1 DEF StartJob, TypeOK, FirstPage
<1>2. CASE FetchPage
  <2>1. Batch \in Batches
    BY <1>2, BatchType DEF FetchPage
  <2>2. page' \in 1..Len(Directory) + 1
    BY <1>2 DEF FetchPage, Pages, TypeOK
  <2>3. queue' \in Seq(Batches \cup {Sentinel})
    BY <1>2, <2>1, QueueType DEF FetchPage
  <2>4. QED
    BY <1>2, <2>2, <2>3 DEF FetchPage, TypeOK
<1>3. CASE FetchEnds \/ FetchFails
  <2>1. queue' \in Seq(Batches \cup {Sentinel})
    BY <1>3, QueueType DEF FetchEnds, FetchFails
  <2>2. QED
    BY <1>3, <2>1 DEF FetchEnds, FetchFails, TypeOK
<1>4. CASE ProducerDies
  <2>1. Batch \in Batches
    BY <1>4, BatchType DEF ProducerDies
  <2>2. queue' \in Seq(Batches \cup {Sentinel})
    BY <1>4, <2>1, QueueType DEF ProducerDies
  <2>3. deaths' \in 0..MaxDeaths
    BY <1>4 DEF ProducerDies, TypeOK
  <2>4. QED
    BY <1>4, <2>2, <2>3 DEF ProducerDies, TypeOK
<1>5. CASE WriteBatch
  <2>1. queue' \in Seq(Batches \cup {Sentinel})
    BY <1>5, QueueType DEF WriteBatch, BatchAtHead
  <2>2. store' \in [Addresses -> Origins]
    BY <1>5, PutType DEF WriteBatch, TypeOK, Origins
  <2>3. QED
    BY <1>5, <2>1, <2>2 DEF WriteBatch, TypeOK
<1>6. CASE WriteFails
  <2>1. queue' \in Seq(Batches \cup {Sentinel})
    BY <1>6, QueueType DEF WriteFails, BatchAtHead
  <2>2. writeFails' \in 0..MaxWriteFails
    BY <1>6 DEF WriteFails, TypeOK
  <2>3. QED
    BY <1>6, <2>1, <2>2 DEF WriteFails, TypeOK
<1>7. CASE ReadSentinel
  <2>1. queue' \in Seq(Batches \cup {Sentinel})
    BY <1>7, QueueType DEF ReadSentinel
  <2>2. QED
    BY <1>7, <2>1 DEF ReadSentinel, TypeOK
<1>8. CASE FetchStalls \/ JoinProducer \/ Exit
  BY <1>8 DEF FetchStalls, JoinProducer, Exit, TypeOK
<1>9. CASE RunScript
  <2>1. store' \in [Addresses -> Origins]
    BY <1>9, ScriptType DEF RunScript, TypeOK
  <2>2. QED
    BY <1>9, <2>1 DEF RunScript, TypeOK
<1>10. CASE UNCHANGED vars
  BY <1>10 DEF vars, TypeOK
<1>11. QED
  BY <1>1, <1>2, <1>3, <1>4, <1>5, <1>6, <1>7, <1>8, <1>9, <1>10
  DEF FeedStep, Next, Produce, Work

\* A job starts after the producer of the one before was joined.
LEMMA ThreadsAgreeStep ==
    ASSUME TypeOK, ThreadsAgree, FeedStep
    PROVE  ThreadsAgree'
<1> USE FeedAssumption DEF TypeOK, ThreadsAgree, Underway, BetweenJobs
<1>1. CASE StartJob
  BY <1>1 DEF StartJob
<1>2. CASE Produce
  BY <1>2 DEF Produce, FetchPage, FetchEnds, FetchFails, FetchStalls, ProducerDies
<1>3. CASE WriteBatch \/ WriteFails \/ ReadSentinel
  BY <1>3 DEF WriteBatch, WriteFails, ReadSentinel, BatchAtHead
<1>4. CASE JoinProducer \/ RunScript \/ Exit \/ UNCHANGED vars
  BY <1>4 DEF JoinProducer, RunScript, Exit, vars
<1>5. QED
  BY <1>1, <1>2, <1>3, <1>4 DEF FeedStep, Next, Work

-----------------------------------------------------------------------------

\* The balance survives each step: the producer's sentinel pays what it owes, the
\* main thread's is what it wants, a failure moves one to its side.
LEMMA BalanceStep ==
    ASSUME TypeOK, ThreadsAgree, Balance, FeedStep
    PROVE  Balance'
<1> DEFINE c == Count(queue, 0)
<1>0. /\ queue \in Seq(Batches \cup {Sentinel}) /\ 0 \in 0..Len(queue)
      /\ c \in Nat /\ deaths \in Nat /\ writeFails \in Nat
  BY CountType DEF TypeOK
<1> SUFFICES ASSUME main' # "exited", main # "exited"
             PROVE  Count(queue', 0) + deaths' + Owed' = writeFails' + Wanted'
  <2>1. main = "exited" => main' = "exited"
    BY DEF FeedStep, Next, Produce, Work, StartJob, FetchPage, FetchEnds,
           FetchFails, FetchStalls, ProducerDies, WriteBatch, WriteFails,
           ReadSentinel, BatchAtHead, JoinProducer, RunScript, Exit, vars
  <2>2. QED
    BY <2>1 DEF Balance, Count, SentinelsIn
<1>00. c + deaths + Owed = writeFails + Wanted
  BY DEF Balance
<1>1. CASE StartJob
  <2>1. Count(queue', 0) = c /\ UNCHANGED <<deaths, writeFails>>
    BY <1>1 DEF StartJob
  <2>2. Owed = 0 /\ Wanted = 0 /\ Owed' = 1 /\ Wanted' = 1
    BY <1>1 DEF StartJob, Owed, Underway, Wanted, ThreadsAgree, BetweenJobs
  <2>3. QED
    BY <1>0, <1>00, <2>1, <2>2
<1>2. CASE FetchPage
  <2>1. Batch # Sentinel
    BY <1>2, BatchType DEF FetchPage
  <2>2. Count(queue', 0) = c
    BY <1>0, <1>2, <2>1, CountAppend DEF FetchPage
  <2>3. QED
    BY <1>00, <1>2, <2>2 DEF FetchPage, Owed, Underway, Wanted
<1>3. CASE FetchEnds \/ FetchFails
  <2>1. Count(queue', 0) = c + 1
    BY <1>0, <1>3, CountAppend DEF FetchEnds, FetchFails
  <2>2. QED
    BY <1>0, <1>00, <1>3, <2>1 DEF FetchEnds, FetchFails, Owed, Underway, Wanted
<1>4. CASE ProducerDies
  <2>1. Batch # Sentinel
    BY <1>4, BatchType DEF ProducerDies
  <2>2. Count(queue', 0) = c
    BY <1>0, <1>4, <2>1, CountAppend DEF ProducerDies
  <2>3. QED
    BY <1>0, <1>00, <1>4, <2>2 DEF ProducerDies, Owed, Underway, Wanted
<1>5. CASE WriteBatch \/ WriteFails \/ ReadSentinel
  <2>1. queue # <<>> /\ queue' = Tail(queue)
    BY <1>5 DEF WriteBatch, WriteFails, ReadSentinel, BatchAtHead
  <2>2. Count(queue', 0) + (IF Head(queue) = Sentinel THEN 1 ELSE 0) = c
    <3>1. Count(queue, 1) \in Nat
      BY <1>0, CountType
    <3>2. Count(queue', 0) = Count(queue, 1)
      BY <1>0, <2>1, CountTail
    <3>3. QED
      BY <1>0, <2>1, <3>1, <3>2, CountHead
  <2>3. Count(queue', 0) \in Nat
    <3>1. queue' \in Seq(Batches \cup {Sentinel})
      BY <2>1, QueueType
    <3>2. QED
      BY <3>1, CountType
  <2>4. /\ Owed' = Owed /\ Owed \in Nat /\ deaths' = deaths
        /\ writeFails' + Wanted' + (IF Head(queue) = Sentinel THEN 1 ELSE 0)
             = writeFails + Wanted
        /\ writeFails' \in Nat /\ Wanted' \in Nat
    BY <1>0, <1>5
    DEF WriteBatch, WriteFails, ReadSentinel, BatchAtHead, Owed, Underway, Wanted
  <2>5. QED
    <3> DEFINE taken == IF Head(queue) = Sentinel THEN 1 ELSE 0
               c2 == Count(queue', 0)
               d2 == deaths'
               o2 == Owed'
               f2 == writeFails'
               w2 == Wanted'
    <3>1. /\ c2 + taken = c /\ f2 + w2 + taken = writeFails + Wanted
          /\ o2 = Owed /\ d2 = deaths /\ c2 \in Nat /\ taken \in Nat
          /\ f2 \in Nat /\ w2 \in Nat /\ Owed \in Nat /\ Wanted \in Nat
      BY <2>2, <2>3, <2>4 DEF Wanted
    <3> HIDE DEF taken, c, c2, d2, o2, f2, w2
    <3>2. c2 + d2 + o2 = f2 + w2
      BY <1>0, <1>00, <3>1
    <3>3. QED
      BY <3>2 DEF c2, d2, o2, f2, w2
<1>6. CASE FetchStalls \/ JoinProducer \/ RunScript \/ Exit \/ UNCHANGED vars
  <2>1. Count(queue', 0) = c /\ UNCHANGED <<deaths, writeFails>>
    BY <1>6 DEF FetchStalls, JoinProducer, RunScript, Exit, vars
  <2>2. Owed' = Owed /\ Wanted' = Wanted
    BY <1>6 DEF FetchStalls, JoinProducer, RunScript, Exit, vars, Owed, Underway, Wanted
  <2>3. QED
    BY <1>00, <2>1, <2>2
<1>7. QED
  BY <1>1, <1>2, <1>3, <1>4, <1>5, <1>6 DEF FeedStep, Next, Produce, Work

\* A batch that is put has nothing to account for but its own job's sentinel; the
\* account of one that waits is settled behind it.
LEMMA SentinelsBehindStep ==
    ASSUME TypeOK, ThreadsAgree, SentinelsBehind, FeedStep
    PROVE  SentinelsBehind'
<1>0. /\ queue \in Seq(Batches \cup {Sentinel})
      /\ deaths \in Nat /\ jobs \in Nat /\ Len(queue) \in Nat
  BY FeedAssumption DEF TypeOK
<1>00. \A i \in DOMAIN queue : queue[i] # Sentinel => queue[i].job \in Nat
  BY <1>0 DEF Batches
<1>01. \A n \in Nat : Count(queue, n) \in Nat
  BY <1>0, CountType
<1> SUFFICES ASSUME NEW i \in DOMAIN queue', queue'[i] # Sentinel
             PROVE  Count(queue', i) + deaths' + Owed' > jobs' - queue'[i].job
  BY DEF SentinelsBehind, Count, SentinelsIn
<1>1. CASE StartJob
  <2>1. UNCHANGED <<queue, deaths>> /\ jobs' = jobs + 1 /\ i \in Nat
    BY <1>0, <1>1 DEF StartJob
  <2>2. Owed = 0 /\ Owed' = 1
    BY <1>1 DEF StartJob, Owed, Underway, ThreadsAgree, BetweenJobs
  <2>3. queue[i].job \in Nat /\ Count(queue, i) \in Nat
    BY <1>00, <1>01, <2>1
  <2>4. Count(queue, i) + deaths + Owed > jobs - queue[i].job
    BY <2>1 DEF SentinelsBehind
  <2>5. Count(queue', i) = Count(queue, i)
    BY <2>1
  <2>6. QED
    BY <1>0, <2>1, <2>2, <2>3, <2>4, <2>5
<1>2. CASE FetchPage \/ FetchEnds \/ FetchFails \/ ProducerDies
  <2>1. PICK x \in Batches \cup {Sentinel} :
          /\ queue' = Append(queue, x) /\ jobs' = jobs /\ deaths' \in Nat
          /\ producer = "fetching"
          /\ deaths' + Owed' + (IF x = Sentinel THEN 1 ELSE 0) = deaths + 1
          /\ x # Sentinel => x.job = jobs
    <3>1. CASE FetchPage
      BY <1>0, <1>2, <3>1, BatchType DEF FetchPage, Owed, Underway
    <3>2. CASE FetchEnds \/ FetchFails
      BY <1>0, <1>2, <3>2 DEF FetchEnds, FetchFails, Owed, Underway
    <3>3. CASE ProducerDies
      BY <1>0, <1>2, <3>3, BatchType DEF ProducerDies, Owed, Underway
    <3>4. QED
      BY <1>2, <3>1, <3>2, <3>3
  <2>2. Owed = 1 /\ Owed' \in Nat
    BY <2>1 DEF Owed, Underway
  <2>3. CASE i \in DOMAIN queue
    <3>1. queue'[i] = queue[i] /\ i \in 0..Len(queue) /\ i \in Nat
      BY <1>0, <2>1, <2>3
    <3>2. Count(queue', i) = Count(queue, i) + IF x = Sentinel THEN 1 ELSE 0
      BY <1>0, <2>1, <3>1, CountAppend
    <3>3. Count(queue, i) + deaths + Owed > jobs - queue[i].job
      BY <2>3, <3>1 DEF SentinelsBehind
    <3>4. queue[i].job \in Nat /\ Count(queue, i) \in Nat
      BY <1>00, <1>01, <2>3, <3>1
    <3>5. /\ jobs' = jobs /\ deaths' \in Nat
          /\ deaths' + Owed' + (IF x = Sentinel THEN 1 ELSE 0) = deaths + Owed
      BY <2>1, <2>2
    <3>6. Count(queue', i) + deaths' + Owed' = Count(queue, i) + deaths + Owed
      <4> DEFINE put == IF x = Sentinel THEN 1 ELSE 0
                 c1 == Count(queue, i)
                 c2 == Count(queue', i)
                 d2 == deaths'
                 o2 == Owed'
      <4>1. /\ c2 = c1 + put /\ d2 + o2 + put = deaths + Owed
            /\ d2 \in Nat /\ o2 \in Nat /\ put \in Nat /\ Owed \in Nat
            /\ c1 \in Nat /\ deaths \in Nat
        BY <1>0, <2>2, <3>2, <3>4, <3>5
      <4> HIDE DEF put, c1, c2, d2, o2
      <4>2. c2 + d2 + o2 = c1 + deaths + Owed
        BY <4>1
      <4>3. QED
        BY <4>2 DEF c1, c2, d2, o2
    <3>7. QED
      BY <3>1, <3>3, <3>5, <3>6
  <2>4. CASE i \notin DOMAIN queue
    <3>1. queue'[i] = x /\ i \in Nat
      BY <1>0, <2>1, <2>4
    <3>2. Count(queue', i) \in Nat
      <4>1. queue' \in Seq(Batches \cup {Sentinel})
        BY <2>1, QueueType
      <4>2. QED
        BY <3>1, <4>1, CountType
    <3>3. QED
      BY <1>0, <2>1, <2>2, <3>1, <3>2
  <2>5. QED
    BY <2>3, <2>4
<1>3. CASE WriteBatch \/ WriteFails \/ ReadSentinel
  <2>1. /\ queue # <<>> /\ queue' = Tail(queue)
        /\ UNCHANGED <<jobs, deaths, producer>>
    BY <1>3 DEF WriteBatch, WriteFails, ReadSentinel, BatchAtHead
  <2>2. i + 1 \in DOMAIN queue /\ queue'[i] = queue[i + 1] /\ i \in Nat
    BY <1>0, <2>1
  <2>3. Count(queue', i) = Count(queue, i + 1)
    BY <1>0, <2>1, <2>2, CountTail
  <2>4. QED
    BY <2>1, <2>2, <2>3 DEF SentinelsBehind, Owed, Underway
<1>4. CASE FetchStalls \/ JoinProducer \/ RunScript \/ Exit \/ UNCHANGED vars
  BY <1>4
  DEF FetchStalls, JoinProducer, RunScript, Exit, vars, Owed, Underway,
      SentinelsBehind
<1>5. QED
  BY <1>1, <1>2, <1>3, <1>4 DEF FeedStep, Next, Produce, Work

-----------------------------------------------------------------------------

LEMMA FeedInit == Init => FeedInv
<1> SUFFICES ASSUME Init PROVE FeedInv
  OBVIOUS
<1>1. TypeOK
  <2>1. 1 \in 1..Len(Directory) + 1 /\ <<>> \in Seq(Batches \cup {Sentinel})
    BY FeedAssumption
  <2>2. 0 \in 0..MaxJobs /\ 0 \in 0..MaxWriteFails /\ 0 \in 0..MaxDeaths
    BY FeedAssumption
  <2>3. QED
    BY <2>1, <2>2 DEF Init, TypeOK, Origins
<1>2. Balance /\ SentinelsBehind
  BY CountEmpty DEF Init, Balance, SentinelsBehind, Owed, Underway, Wanted
<1>3. QED
  BY <1>1, <1>2 DEF Init, FeedInv, ThreadsAgree, Underway

\* FeedInv is inductive; the fairness of the two threads plays no part.
THEOREM FeedInvariance == Spec => []FeedInv
<1>1. FeedInv /\ [Next]_vars => FeedInv'
  BY FeedTypeStep, ThreadsAgreeStep, BalanceStep, SentinelsBehindStep
  DEF FeedInv, FeedStep
<1>2. QED
  BY <1>1, FeedInit, PTL DEF Spec

\* What is queued, counted and stored is of its type: a job numbers its batches
\* within the jobs that were started.
THEOREM FeedTypeCorrect == Spec => []TypeOK
BY FeedInvariance, PTL DEF FeedInv

\* Sentinels are what SentinelsIn counts from the start of the queue.
LEMMA SentinelsAreCounted ==
    ASSUME TypeOK
    PROVE  Sentinels = Count(queue, 0) /\ Count(queue, 0) \in Nat
<1>1. queue \in Seq(Batches \cup {Sentinel})
  BY DEF TypeOK
<1>2. {i \in DOMAIN queue : queue[i] = Sentinel} = SentinelsIn(queue, 0)
  BY <1>1 DEF SentinelsIn
<1>3. QED
  BY <1>1, <1>2, CountType DEF Sentinels, Count

\* Between jobs the queue holds a sentinel for every write that failed less those
\* that dead producers owe: consumer_write_data ends at the first it meets, so by so
\* many jobs the store is late for good.
THEOREM SentinelsBalanceHolds == Spec => []SentinelsBalance
<1>1. FeedInv => SentinelsBalance
  BY SentinelsAreCounted
  DEF FeedInv, TypeOK, ThreadsAgree, Underway, Balance, SentinelsBalance, BetweenJobs,
      Owed, Underway, Wanted
<1>2. QED
  BY <1>1, FeedInvariance, PTL

\* What waits between jobs was fetched by the last of them, no more jobs back than
\* transactions failed, whichever thread failed when.
THEOREM LeftoversAreRecentHolds == Spec => []LeftoversAreRecent
<1>1. FeedInv => LeftoversAreRecent
  <2> SUFFICES ASSUME FeedInv, BetweenJobs, NEW i \in DOMAIN queue,
                      queue[i] # Sentinel
               PROVE  queue[i].job + writeFails > jobs
    BY DEF LeftoversAreRecent
  <2>1. queue \in Seq(Batches \cup {Sentinel}) /\ i \in Nat
    BY DEF FeedInv, TypeOK
  <2>2. /\ queue[i].job \in Nat /\ jobs \in Nat /\ deaths \in Nat
        /\ writeFails \in Nat
    BY <2>1 DEF FeedInv, TypeOK, Batches
  <2>3. Count(queue, i) + deaths + Owed > jobs - queue[i].job
    BY DEF FeedInv, SentinelsBehind
  <2>4. Owed = 0 /\ Wanted = 0 /\ main # "exited"
    BY DEF FeedInv, ThreadsAgree, BetweenJobs, Owed, Underway, Wanted
  <2>5. Count(queue, 0) + deaths = writeFails
    BY <2>2, <2>4, <2>1, CountType DEF FeedInv, Balance
  <2>6. /\ Count(queue, i) <= Count(queue, 0)
        /\ Count(queue, i) \in Nat /\ Count(queue, 0) \in Nat
    BY <2>1, CountBehind, CountType
  <2>7. QED
    BY <2>2, <2>3, <2>4, <2>5, <2>6
<1>2. QED
  BY <1>1, FeedInvariance, PTL

\* FETCH_QUEUE.get() waits for ever only when a producer died without its
\* sentinel or a request of its producer has stalled.
THEOREM BlockedOnlyAfterDeathHolds == Spec => []BlockedOnlyAfterDeath
<1>1. FeedInv => BlockedOnlyAfterDeath
  BY CountEmpty
  DEF FeedInv, TypeOK, Balance, BlockedOnlyAfterDeath, Owed, Underway, Wanted
<1>2. QED
  BY <1>1, FeedInvariance, PTL
=============================================================================
