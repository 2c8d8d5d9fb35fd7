----------------------------- MODULE FraudFeed -----------------------------
(***************************************************************************)
(* The container that keeps the fraud data: fetch_and_store.py fetches the *)
(* directory of unsafe accounts page by page in a producer thread, hands   *)
(* the pages through FETCH_QUEUE to the main thread, which writes them to  *)
(* LMDB, and after the first job runs get_put_post_del.py, which puts,     *)
(* updates and deletes accounts of a test configuration.                   *)
(*                                                                         *)
(* FETCH_QUEUE is a global: what a job leaves in it the next one finds.    *)
(***************************************************************************)
EXTENDS Naturals, Sequences, FiniteSets, SequencesExt

CONSTANTS
    Addresses,     \* account addresses
    Directory,     \* the pages of the directory, each a set of addresses
    Inserted, Updated, Deleted,  \* put, post and delete of the test data
    Sentinel,      \* None in the queue
    MaxJobs,       \* bound: jobs that are started
    MaxWriteFails, \* bound: batches whose LMDB transaction raises
    MaxDeaths      \* bound: producers that die without a sentinel

ASSUME FeedAssumption ==
    /\ Directory \in Seq(SUBSET Addresses)
    /\ Inserted \subseteq Addresses /\ Updated \subseteq Addresses
    /\ Deleted \subseteq Addresses
    /\ MaxJobs \in Nat /\ MaxWriteFails \in Nat /\ MaxDeaths \in Nat

VARIABLES
    main,        \* where the main thread is
    producer,    \* state of the job's producer thread
    page,        \* the page the producer fetches next
    queue,       \* FETCH_QUEUE
    store,       \* LMDB: where the record of an address comes from
    runOnce,     \* RUN_ONCE_FLAG
    injected,    \* history: "Fraud Accts Injected" is in the log
    jobs,        \* history: jobs started
    writeFails,  \* history: transactions that raised
    deaths       \* history: producers that died without a sentinel

vars == <<main, producer, page, queue, store, runOnce, injected, jobs,
          writeFails, deaths>>

Pages == DOMAIN Directory

Batches == [job : 1..MaxJobs, page : Pages]

\* None is not a list of records.
ASSUME SentinelAssumption == Sentinel \notin Batches

Origins == {"none", "feed", "inserted", "updated"}

TypeOK ==
    /\ main \in {"idle", "writing", "joining", "injecting", "exited"}
    /\ producer \in {"none", "fetching", "stalled", "done", "dead"}
    /\ page \in 1..Len(Directory) + 1
    /\ queue \in Seq(Batches \cup {Sentinel})
    /\ store \in [Addresses -> Origins]
    /\ runOnce \in BOOLEAN /\ injected \in BOOLEAN
    /\ jobs \in 0..MaxJobs
    /\ writeFails \in 0..MaxWriteFails
    /\ deaths \in 0..MaxDeaths

Init ==
    /\ main = "idle" /\ producer = "none" /\ page = 1
    /\ queue = <<>>
    /\ store = [a \in Addresses |-> "none"]
    /\ runOnce = FALSE /\ injected = FALSE
    /\ jobs = 0 /\ writeFails = 0 /\ deaths = 0

\* Mutant: pages are counted from zero.
PageZero == 0

\* A job starts without a cursor.
FirstPage == 1

\* job: the producer thread is started and the main thread starts to write.
StartJob ==
    /\ main = "idle"
    /\ jobs < MaxJobs
    /\ jobs' = jobs + 1
    /\ producer' = "fetching"
    /\ page' = FirstPage
    /\ main' = "writing"
    /\ UNCHANGED <<queue, store, runOnce, injected, writeFails, deaths>>

(***************************************************************************)
(* producer_fetch_data                                                     *)
(***************************************************************************)

Batch == [job |-> jobs, page |-> page]

\* Mutant: the end is announced before the last page.
FetchAnnouncingEnd ==
    /\ producer = "fetching"
    /\ page \in Pages
    /\ queue' = IF page = Len(Directory)
                THEN queue \o <<Sentinel, Batch>> ELSE Append(queue, Batch)
    /\ page' = page + 1
    /\ UNCHANGED <<main, producer, store, runOnce, injected, jobs, writeFails, deaths>>

\* A page with records is queued and the producer goes on with the cursor of
\* its next link.
FetchPage ==
    /\ producer = "fetching"
    /\ page \in Pages
    /\ queue' = Append(queue, Batch)
    /\ page' = page + 1
    /\ UNCHANGED <<main, producer, store, runOnce, injected, jobs, writeFails, deaths>>

\* There is no next link, or the page it leads to is empty.
FetchEnds ==
    /\ producer = "fetching"
    /\ page = Len(Directory) + 1
    /\ queue' = Append(queue, Sentinel)
    /\ producer' = "done"
    /\ UNCHANGED <<main, page, store, runOnce, injected, jobs, writeFails, deaths>>

\* Mutant: the producer returns after an error without a sentinel.
FetchFailsSilently ==
    /\ producer = "fetching"
    /\ producer' = "done"
    /\ UNCHANGED <<main, page, queue, store, runOnce, injected, jobs,
                   writeFails, deaths>>

\* The request fails for good (fetch_batch returns no records) or the answer is
\* not what it should be (fetch_batch raises).
FetchFails ==
    /\ producer = "fetching"
    /\ queue' = Append(queue, Sentinel)
    /\ producer' = "done"
    /\ UNCHANGED <<main, page, store, runOnce, injected, jobs, writeFails, deaths>>

\* The server accepts the request and never answers: session.get has no timeout,
\* so nothing raises and the retries of requests_retry_session do not apply.
FetchStalls ==
    /\ producer = "fetching"
    /\ producer' = "stalled"
    /\ UNCHANGED <<main, page, queue, store, runOnce, injected, jobs,
                   writeFails, deaths>>

\* A next link without "cursor=": the IndexError is outside the try, the thread
\* dies after the page was queued.
ProducerDies ==
    /\ producer = "fetching"
    /\ page \in Pages
    /\ deaths < MaxDeaths
    /\ deaths' = deaths + 1
    /\ queue' = Append(queue, Batch)
    /\ producer' = "dead"
    /\ UNCHANGED <<main, page, store, runOnce, injected, jobs, writeFails>>

(***************************************************************************)
(* consumer_write_data, on the main thread                                 *)
(***************************************************************************)

\* The records of the addresses in s replaced by ones of the given origin.
Put(st, s, origin) == [a \in Addresses |-> IF a \in s THEN origin ELSE st[a]]

BatchAtHead == main = "writing" /\ queue # <<>> /\ Head(queue) # Sentinel

\* A batch is written in one transaction, whatever the store had before.
WriteBatch ==
    /\ BatchAtHead
    /\ store' = Put(store, Directory[Head(queue).page], "feed")
    /\ queue' = Tail(queue)
    /\ UNCHANGED <<main, producer, page, runOnce, injected, jobs, writeFails, deaths>>

\* The transaction raises and is rolled back; the loop is left, the rest of the
\* queue stays.
WriteFails ==
    /\ BatchAtHead
    /\ writeFails < MaxWriteFails
    /\ writeFails' = writeFails + 1
    /\ queue' = Tail(queue)
    /\ main' = "joining"
    /\ UNCHANGED <<producer, page, store, runOnce, injected, jobs, deaths>>

\* The loop ends at the first sentinel, whichever job put it there.
ReadSentinel ==
    /\ main = "writing"
    /\ queue # <<>> /\ Head(queue) = Sentinel
    /\ queue' = Tail(queue)
    /\ main' = "joining"
    /\ UNCHANGED <<producer, page, store, runOnce, injected, jobs, writeFails, deaths>>

\* producer_thread.join(), get_stats, and the test of RUN_ONCE_FLAG.
JoinProducer ==
    /\ main = "joining"
    /\ producer \in {"done", "dead"}
    /\ main' = IF runOnce THEN "idle" ELSE "injecting"
    /\ UNCHANGED <<producer, page, queue, store, runOnce, injected, jobs,
                   writeFails, deaths>>

(***************************************************************************)
(* get_put_post_del.py                                                     *)
(***************************************************************************)

\* The store after the first n of the script's transactions: put the inserted
\* accounts, update those that are there, delete.
AfterScript(n) ==
    LET put  == IF n >= 1 THEN Put(store, Inserted, "inserted") ELSE store
        post == IF n >= 2
                THEN Put(put, {a \in Updated : put[a] # "none"}, "updated")
                ELSE put
    IN  IF n = 3 THEN Put(post, Deleted, "none") ELSE post

\* The script does some or all of its transactions; run_get_put_post_del
\* swallows the error of one that fails, and RUN_ONCE_FLAG is set however far
\* the script got.
RunScript ==
    /\ main = "injecting"
    /\ \E n \in 0..3 : store' = AfterScript(n)
    /\ runOnce' = TRUE
    /\ injected' = TRUE
    /\ main' = "idle"
    /\ UNCHANGED <<producer, page, queue, jobs, writeFails, deaths>>

\* SIGINT, or LMDB cannot be opened: neither job nor the main loop catches it.
\* A producer that runs is waited for.
Exit ==
    /\ main # "exited"
    /\ main' = "exited"
    /\ UNCHANGED <<producer, page, queue, store, runOnce, injected, jobs,
                   writeFails, deaths>>

Produce ==
    \/ FetchPage \/ FetchEnds \/ FetchFails
    \/ FetchStalls \/ ProducerDies
Work == WriteBatch \/ WriteFails \/ ReadSentinel \/ JoinProducer \/ RunScript

Next == StartJob \/ Produce \/ Work \/ Exit

\* Both threads run when they can.  A request is answered, fails after the last
\* of its retries, or is the one that stalls.
Fairness == WF_vars(Produce) /\ WF_vars(Work)

Spec == Init /\ [][Next]_vars /\ Fairness

(***************************************************************************)
(* Properties                                                              *)
(***************************************************************************)

BetweenJobs == main \in {"idle", "injecting"}

Sentinels == Cardinality({i \in DOMAIN queue : queue[i] = Sentinel})

\* A job puts one sentinel and takes one.  A write that failed leaves one
\* behind, a producer that died owes one: between jobs the queue holds just the
\* difference, and by that many jobs the store is late from then on.
SentinelsBalance ==
    BetweenJobs => Sentinels + deaths = writeFails

\* However the failures fall, what waits in the queue between jobs was fetched
\* by the last jobs, no more of them than transactions failed; while none has
\* failed, a job writes all that it fetched.
LeftoversAreRecent ==
    BetweenJobs =>
      \A i \in DOMAIN queue :
        queue[i] # Sentinel => queue[i].job + writeFails > jobs

\* The main thread waits for an item that nobody is going to put only after a
\* producer died without its sentinel, or while a request has stalled.
BlockedOnlyAfterDeath ==
    (main = "writing" /\ queue = <<>> /\ producer # "fetching")
      => deaths > 0 \/ producer = "stalled"

\* Every job ends, also when requests and writes fail in it, unless a producer
\* has died without its sentinel or a request is never answered: then neither
\* FETCH_QUEUE.get() nor producer_thread.join() has a timeout of its own.
JobsEnd ==
    (main = "writing") ~>
      (main \in {"idle", "exited"} \/ deaths > 0 \/ producer = "stalled")

\* fetch_and_store.py:136 logs "Fraud Accts Injected": when it does, the accounts
\* to insert are in the store.
InjectedAreStored ==
    [][injected' /\ ~injected =>
         \A a \in Inserted \ Deleted : store'[a] # "none"]_vars
=============================================================================
