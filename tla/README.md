# Deceptiscan in TLA+

A verification project for `cdp_fraud_detect` ("Deceptiscan"): a pipeline that
reads Stellar ledgers, looks each transaction's participants up in a store of
unsafe accounts, publishes hits to Kafka, and shows them to the users of a web
application who asked for them. Paths below are relative to the repository root.

## 1. The system

    stellar.expert --> fetch_and_store.py --> LMDB --> cdp_processor --> Kafka --> python-app --> users
       (external)       (fraud data feed)    (store)   (Go, main.go)   (external)  (FastAPI)

| part | state | operations | talks to |
|---|---|---|---|
| Watch registry, `python-app/app.py`, `models.py` | `user_db`, `accounts_to_users`, `starred_users`, per user a list of accounts, a flag and a timeline; all in memory | `/dashboard`, `/add_account`, `/delete_account`, `/set_register_for_all`, `/activity` | identity provider (await before each handler's work) |
| Alert consumer, `python-app/kafka_consumer.py` and `lifespan` in `app.py` | position, committed offset, the asyncio task | start, `async for` turn, commit, rebalance, stop | Kafka; calls `process_message`, which writes the registry's timelines |
| CDP processor, `cdp_processor/main.go` | position in the ledger stream, client queue | get a ledger, look up a participant, produce, end | history archive, CDP data store, LMDB, Kafka |
| Participants, `cdp_processor/ingest.go` | none (pure) | participants of operations, changes, sponsorships; de-duplication | called by the processor |
| Account seeding, `seedAccounts` in `main.go` | LMDB records | four accounts funded, three put | Horizon, LMDB |
| Fraud data feed, `fetch_store_unsafe_accts/` | `FETCH_QUEUE`, `RUN_ONCE_FLAG`, LMDB | fetch page (thread), write batch (main thread), test data script | stellar.expert, LMDB |
| OAuth login, `python-app/oauth*.py` | cookie in the browser | login, callback, logout | Google |
| Accounts of the Blitz UI, `ui/fraud_detect/src/app/(auth)`, `mailers/`, `db/schema.prisma` | tables User, Token, Session | the mutations signup, login, logout, forgotPassword, resetPassword, changePassword, each a chain of awaited database calls | database, session store of Blitz, mailer; not connected to the other parts, not in `docker-compose.yml` |
| Pages of the Blitz UI, `src/app/page.tsx`, the forms, the layout of `(auth)` | per tab a page, its form, what the router still has to do; per browser a cookie | open, follow a link, submit, log out, show the answer, redirect | calls the mutations over `/api/rpc` |
| Containers, `docker-compose.yml` | | start order only; no restart policy | |

`schema/ddl.sql`, `kakfa_producer.py` and `email_utils.py` are not used by any
program path that runs.

What is hard in it, and what makes each part correct:

* **Registry.** Four structures say who wants what, and four handlers keep
  them in step by hand. The fan-out reads two of them (index and
  `starred_users`), the dashboard shows the other two (list and flag). Correct
  means: nobody gets what they did not ask for, nobody loses what they did, and
  one user's request leaves the others alone.
* **Consumer.** Offsets are committed in the background while messages are
  handled; the process may crash, be shut down or be moved back by a rebalance,
  and the task may never start. Correct means: no message is skipped, order is
  kept, repeats are explained, and a task that stays alive gets past every message
  unless no commit ever goes through.
* **Composition.** The registry dies with the process and the offset does not.
* **Processor.** The fraud data changes under it, sends are asynchronous, its
  errors are partly ignored, and each start goes back to a checkpoint. Correct
  means: an account that stays flagged is reported, an account that never was is
  not, the stream has no gaps within a run, and repeats are explained.
* **Feed.** Two threads share a queue that outlives a job; each may fail alone.
  Correct means: a job ends unless a request is never answered, and what a job
  fetched is what it stores.

* **Accounts of the Blitz UI.** No mutation uses a transaction: between two of
  its database calls any other request may run, so what a call has read (a user,
  a token, that a password is right) may be out of date when it writes. Correct
  means: a link sets one password, no session and no password comes about without
  a password or a link that was good, and what a reset ends stays ended but for the
  calls that were ahead of it.
* **Pages of the Blitz UI.** A page is rendered for the cookie of that moment, the
  cookie is shared by the tabs, and an answer may come to a page that has moved on
  or may not come at all. Correct means: a result that is shown is real, a form
  never waits for ever, the home page shows who is signed in, and no session is
  left open without a browser that holds it, but for outdated pages.

`PROJECT.json` lists these under "hazards", each at its line.

## 2. Modules

| module | models |
|---|---|
| `AlertBoard` | what the web application promises: interests, registrations and posts, without its data structures |
| `WatchRegistry` | the handlers of `app.py`, `User`, `UserTimeline` and `process_message` |
| `WatchRegistryProofs` | its theorems, and that it implements `AlertBoard` |
| `AlertConsumer` | the consumer task and the lifespan handler against a one-partition topic |
| `WebApp` | registry and consumer in one process: a turn of `async for` is `Consume` and `ProcessMessage` in one step, a start of the process is `Boot` and `Restart` |
| `WebAppProofs` | the theorems about `AlertConsumer` and `WebApp`, that it implements `WatchRegistry`, and what it keeps of it |
| `LedgerPipeline` | `main.go` from the archive to the Kafka client's queue and the topic |
| `LedgerPipelineProofs` | its theorems |
| `Dedupe` | `dedupeParticipants` of `ingest.go`, one turn of its loop a step |
| `Participants` | `getParticipants` of `ingest.go`, with `Dedupe` as the function it calls |
| `ParticipantsProofs` | the theorems about `Dedupe` and `Participants` |
| `FraudFeed` | `fetch_and_store.py` with its two threads, and `get_put_post_del.py` |
| `FraudFeedProofs` | its theorems |
| `AccountPromise` | what the account mutations promise: who may set a password, whom a session is opened for |
| `AuthMutations` | the six mutations with the three tables, several calls at a time; shown to implement `AccountPromise` |
| `AuthMutationsProofs` | its theorems about types and links |
| `AuthPromiseProofs` | its theorems about sessions and passwords, and that it implements `AccountPromise` |
| `AuthPages` | extends `AuthMutations` by tabs, cookies, forms, lost connections: a tab's click is the start of a call, its `Receive` the answer |
| `AuthPagesProofs` | its theorems, and what it keeps of the mutations' |
| `MC...` | instances for TLC |

How state and actions correspond:

* `WatchRegistry`. `userDb` is the key set of `user_db`. `watchlist[u][a]`
  counts how often `a` is in `User.accounts`: the list may hold an account
  several times and `remove` takes one. `accountsToUsers` and `indexKeys` are
  one `defaultdict`: the sets and the keys, which a read creates. `timeline[u][m]`
  counts the copies of a message; order and grouping are abstracted. Every
  handler is `async`, but touches the state only after its last `await`, and
  `process_message` awaits nothing: each is one atomic step. An HTTP request
  that raises (`set_register_for_all` for a user who is not in `user_db`)
  changes nothing and is the guard of the action. `deliveries` is a history
  variable.
* `AlertConsumer`. Messages are their places `1..logEnd` in the topic. The
  Kafka client is external: it advances `position` when it hands a message out,
  commits `position` at any time while the task runs, and on a rebalance or a
  stop commits it or fails to. There may be any number of rebalances. `Consume` covers the hand-out and the handling
  because no `await` lies between them. `ConnectFails` is `consumer.start()`
  raising outside the `try`: the task is over and the process serves on.
* `WebApp`. `setbacks` counts the rebalances since the start that moved the position
  back, which is where repeats come from; `MaxSetbacks` bounds them, since the
  registry counts copies. Rebalances that commit are not bounded.
* `LedgerPipeline`. `Activity[l]` is the list of participants of a ledger,
  transaction by transaction, as `getParticipants` returns them; an event is
  named by run, ledger and place, which stands for account and transaction hash.
  One lookup is one step, since the store may be edited between two.
  `processor.Process(...)` at line 222 drops its result: `ReportAccount` with a
  full queue puts the event into the history variable `lost`. `EndRun` is any end
  of `main`, by error, signal or kill: `Close` does not flush. A start that fails
  (configuration, LMDB, archive) changes nothing and has no action.
* `Participants`. A transaction is a record of what the code reads of it: of each
  ledger change the account whose entry it is, of each operation the accounts its
  body names and the changes `getSponsor` looks at. `participantsForMeta` sees
  changes only where the meta is of version 0, since the later versions have no
  `Operations`; the accounts that only the changes of operations name are not
  participants then. `WellFormed` is what the network guarantees of sponsoring
  operations. The steps are deterministic: what the run varies is the
  transaction. `LedgerPipeline`'s `Activity` is the concatenation of the lists.
* `Dedupe`. An account stands for the rank of its address. `sort.Slice` is
  `SortSeq`, and `Sortings` says what the function relies on: the entries, each as
  often, in order. The run checks the module as part of `Participants`, on every
  list that comes up there.
* `FraudFeed`. A batch is named by job and page. `FetchStalls` is the
  `session.get` of line 58 that is never answered: it has no timeout, and the retries
  of lines 35-48 answer errors only. `ProducerDies` is the
  `IndexError` of line 86, outside the `try`. `WriteFails` is an exception in
  the transaction, which is rolled back. `RunScript` does the first 0 to 3 of
  the script's three transactions; 3 is success. `Exit` is SIGINT or a failing
  `lmdb.open`.

* `AuthMutations`. A step of a call is one database call with the code up to the
  next `await` that reaches the database; hashing and verifying read nothing that is
  shared and belong to the step before, and so does the wait of `forgotPassword` for
  an unknown address. `calls[c]` is what the function has in its local variables.
  A call is named by the order of the starts, and so are the session and the token
  it may make. `validations.ts` is three operators: `ParsedEmail` (lower case),
  `Valid` (`.min(10).max(100)`, before trimming) and `Parsed` (trimmed). `signup` has
  no schema of its own and stores what it is given. `SecurePassword` is external: it
  refuses an empty text, which is what a password of ten blanks becomes. `$create`
  leaves the session the browser had before in the table, `$revoke` does not mind a
  session that is gone. A row's id is its place in `users`.
* `AuthPages`. `sender` says which tab hears the answer of a call. A form's button
  is disabled while the form waits, and enabled again while its page is on the way
  out (`moving`): the model lets it be sent once more there. `moving` also tells a
  refresh of the page that is shown, after a logout, from the way to the home page,
  after a login or a sign-up. A link between two
  pages of `(auth)` renders no layout, so the redirect of signed-in users does not
  apply; a typed address does. `Load` abandons the answers on their way to the tab,
  `LoseConnection` gives the form an error although the call goes on. A cookie is
  set by the answer of a call, not by its session's insert.

External, modelled from how the code uses it: Kafka and its clients, the Stellar
network, archive and data store, and the LMDB edits as the processor sees them.

## 3. Runs

| run | question | bounds |
|---|---|---|
| `registry` | Do the dictionaries stay in step, and do they implement `AlertBoard`? | 2 users, 2 accounts, one good and one malformed message, 2 deliveries each, 2 entries per account |
| `consumer` | At-least-once, order and progress of the task under crashes, failed starts and rebalances | 4 messages, 3 processes, any number of rebalances |
| `webapp` | Do repeats come only from rebalances that fail to commit, does the whole implement the registry, does who is registered get the alerts? | 1 user, 1 account, 3 messages, 3 processes, 2 setbacks each |
| `pipeline` | What reaches the topic, how often and in which order; is every ledger inspected and every steady alert settled? | 3 ledgers with 2, 0 and 1 participants, 2 runs, queue of 2, one resend, one edit |
| `participants` | Are exactly the parties returned, of each operation and of the whole, and does the in-place pass lose or repeat none? | 3 accounts; up to 4 sponsoring operations, up to 2 of other kinds with 2 changes; 1978 transactions |
| `feed` | What is left in the queue, how late is the store, when does it block? | 2 pages, 4 jobs, 2 failed writes, 1 dead producer |
| `accounts` | What do overlapping account mutations keep, and do they implement `AccountPromise`? | 2 calls at a time, 4 in all; with and without an old account, 2 spellings of one address, passwords with blanks around, of blanks only and empty |
| `pages` | Is what the pages show true, does every form get its answer, which sessions are left behind? | 2 tabs of one browser, 2 calls; one tab goes everywhere, the other to login and home |

Why these bounds are enough to be interesting: two entries per account let the
list and the index part; two users are what "another user's request" needs; a
queue of 2 fills with three participants; ledger 2 is empty so that a ledger
without lookups passes through; two runs let a restart fall before or behind the
position of the first; two failed writes let the feed be late by two jobs, and a
dead producer takes one back. Four sponsoring operations are two pairs for one
account, which is what tells the last begin from the first; lists have repeats at
either end and in the middle. Four mutations are two requests for a link that
overlap and two resets by them, or a login that overlaps a reset and the calls that
lead up to it. In `pages` two calls are enough for a form that is sent twice, for
two tabs that sign in at once, for a link that is asked for and then used, and for
every way an answer can come or not. What takes three calls lies beyond the run and
is covered by the theorems, which hold for any number: a link that has been used or
withdrawn and is brought again, a logout that overtakes the next login, and a second
logout whose answer finds the tab on another page. The mutations' own interleavings
are the business of `accounts`.

`registry` uses symmetry of the users and `accounts` symmetry of the calls, which no
definition tells apart; neither checks liveness.

`CHECK_DEADLOCK FALSE` stands where the system really may stop: no supervisor
restarts a process, and the counters that bound the models run out. In the feed
a dead producer or a stalled request blocks the main thread for ever;
`BlockedOnlyAfterDeath` says that it waits in vain for no other reason. In `accounts` nobody has to call any more. `pages`
keeps the deadlock check: a tab can always be loaded.

Runs that show a disagreement between the code and its own words (PROJECT.json,
"findings"):

| run | says | the code |
|---|---|---|
| `registry_unindexed` | `app.py:104`, the index is the reverse mapping | add, add, delete: listed, not indexed, no alerts |
| `pipeline_publish` | `main.go:325`, publishes to a broker | ignores a full queue and a failed delivery |
| `feed_injected` | `fetch_and_store.py:136`, accounts are injected | logged after a failed script, never repeated |
| `accounts_rehash` | `login.ts:16`, the hash is upgraded | what is stored may be the hash of a password that has been changed in between |

Further disagreements met while modelling, which the models contain and no run
is spent on:

* `app.py:140` clears the accounts of who registers for all, but `/add_account`
  adds to them afterwards: two entries per message.
* `main.go:253` speaks of the most recent ledger, the code takes the latest
  checkpoint.
* `signup.ts:7` stores the address as typed and only `login` and `forgotPassword`
  put it in lower case: who signs up with a capital letter cannot log in, and two
  spellings are two accounts. `changePassword` authenticates under the lower-case
  address, so that the password of `a@x` is what changes that of `A@x`: in
  `AccountPromise`'s `Change` the account under the lower-case spelling vouches for
  the other one. `ImplementsPromise` holds with this exception, and no other.
* `forgotPassword.ts:21` deletes any existing tokens before line 23 saves the new one,
  and `forgotPassword.test.ts:55` expects one to be left; of two requests that overlap
  both delete before either creates, and both links are good.
* `forgotPassword.ts:40` wants the same result whether the address is known or not;
  in production the mailer throws, and it does so only for a known one.
* `resetPassword` and `changePassword` trim the new password, `signup` and `login`
  do not trim theirs: a password typed with a blank at its end after a reset is
  refused at the next login.
* The layout of `(auth)` sends a signed-in user who follows a reset link home.
* A link is deleted before its expiry and the password are looked at
  (`resetPassword.ts:29`), so a password of blanks only costs the link.

## 4. Fairness

* `AlertConsumer`, `WebApp`: weak fairness of the task's start attempt and of a
  turn of `async for`, because the event loop runs what can run. In `AlertConsumer`
  also strong fairness of `Commits`, commits that succeed, in the background or on a
  rebalance: an assumption about the brokers, that they do not refuse every commit for
  ever while they keep rebalancing. The code does not give it, and without it
  `PublishedIsHandled` fails: a task may handle the same message, lose it to a
  rebalance and handle it again, for ever. `WebApp` has no fairness of commits; there
  `MaxSetbacks` says that finitely many rebalances of a process fail to commit, and
  `RegisteredGetsAlerts` rests on that. None of rebalances, requests, or starts of the
  process.
* `LedgerPipeline`: weak fairness of the inspection (a process that is up goes
  on with an exported ledger) and of "send or give up" of the Kafka client, whose
  messages time out. None of starts; the network may stop closing ledgers.
* `FraudFeed`: weak fairness of either thread, which is no assumption that requests
  end: `FetchStalls` is one of the steps of the producer, the thread stays there, and
  `JobsEnd` names this exception. A request that fails has finitely many retries.
  None of the scheduler or of exits.
* `AuthPages`: weak fairness of each step of a call on the server, of the answer's
  arrival at a tab that still listens, and of the router finishing what it has
  begun. Every database call is taken to end, with a result or an error; the code
  sets no timeout, and neither do we. None of clicks, loads, lost connections or expiry.

The liveness properties of consumer, processor and feed end with the process or
the task being over, since nothing restarts it.

## 5. Proofs

Checked by TLAPS for all values of the constants:

* **Registry** (from `RegistryAssumption`). `Inv` = `TypeOK`,
  `IndexedIsWatched`, `StarredIsRegistered` and `CopiesBounded` is inductive;
  each of the last three needs only the types besides itself. The action
  properties `NoUnrequestedAlert`, `MonitorAllNeverMisses` and `LosesOnlyOwn`
  follow from `Inv` and a lemma on what one step does to a timeline.
  `RegistryImplementsBoard`: each handler is one action of `AlertBoard`. The
  step that needs the invariant is `set_register_for_all`: its loop visits the
  accounts of the list only, and no index entry of the user is left out because
  the index lies within the list.
* **Consumer** (from `ConsumerAssumption`). `CommittedIsHandled` is not
  inductive: it needs `RunningIsAhead` (a running task has handled everything up
  to its position and the commit is not ahead of it). With it follow order and
  that commits advance. Fairness plays no part.
* **Web application.** `DeliveriesExplained` needs the bound by position: a
  message beyond the position was delivered at most once per setback, one
  behind it once more. This gives the guard of `WatchRegistry`'s delivery, so
  `WebApp` implements `WatchRegistry` with `MaxDeliveries = MaxSetbacks + 1`.
  `WebAppProofs` instantiates `WatchRegistryProofs` under that mapping, so that what is
  proved of the registry alone is a theorem about the application
  (`AppKeepsTheRegistry`, `AppKeepsTheGuarantees`, `AppImplementsBoard`), as
  `AppAtLeastOnce` is for the consumer.

* **Processor** (from `PipelineAssumption`, for any ledgers with any
  participants). `SteadyAreReported` is only inductive together with
  `CurrentReported`, which says the same of the part of the current ledger
  already looked up: an account that is steady has a record at the moment of its
  lookup, whatever is edited before and after. `OnlyFlaggedArePublished` goes
  back along the chain topic, queue, detection (`SentIsDetected`,
  `DetectedIsGenuine`). `RunsAreContiguous` needs `InspectedSoFar`: the latest
  run has everything from its first ledger to its place. `TopicInOrder` needs
  topic and queue as one line (`InLine`) whose end lies before the place of the
  lookup (`DetectedBefore`). `RepeatsExplained` counts the copies in the topic: they and
  the events still queued are paid for by the runs that have detected the participant
  and by the repeated sends (`CopiesCounted`). A delivery turns a queued event into a
  copy, a failed one drops it, a detection adds a run to both sides; the queue must
  have each event once (`Once`), else a delivery would not free the run it names.
* **De-duplication** (from `DedupeAssumption`). The loop invariant: what lies
  ahead of the pass is as the sort left it (`AheadUntouched`), the kept places
  increase (`KeptIncreases`) and hold exactly the entries passed (`KeptIsSeen`).
  An entry that differs from its predecessor is larger than all before it, so it
  may be appended; the place it goes to is not ahead of it, so the next
  comparison still reads the sorted entry.
* **Participants** (from `ParticipantsAssumption`: the transactions are what the
  network lets through). `ReturnsTheParties` needs that what is collected so far is
  what the changes and operations behind bring in (`CollectedSoFar`) and that a call
  of the de-duplication works on the right list (`CalledForTheRight`), besides the
  loop invariant of `Dedupe` for each of the calls. `OperationNamesItsParties` is about
  the backward search: the begin it ends at is the last one before the operation, and
  `WellFormed` makes that the one that is open.
* **Feed** (from `FeedAssumption` and `SentinelAssumption`, the sentinel is no batch;
  any directory, jobs and failures). `SentinelsBalance` and `LeftoversAreRecent` speak of the moments
  between jobs. They are inductive as counts at every step of either thread:
  `Balance` adds the sentinel the producer still owes and the one the main thread
  still wants, and `SentinelsBehind` counts, for each batch in the queue, the
  sentinels behind it against the jobs that came since. Putting and taking items moves
  the counts by one (`CountAppend`, `CountTail`). `BlockedOnlyAfterDeath` follows from
  the balance: an empty queue in front of a waiting main thread leaves only a death or a
  stalled request. A stalled producer counts as one that is still to put its sentinel
  (`Underway`), so the balance needs no exception for it.
* **Accounts** (from `AuthAssumption`; any calls at a time, any users, addresses and
  passwords). Everything rests on `Typed`: a call has at each step what the next one
  needs, and rows belong to users. `LinkWorksOnce` is inductive with `NamesAreFresh`
  (a token is named by the one call that makes it, and only mailed tokens are used)
  and `RowsAreOpen` (a token has one row, and none after it has set a password): the
  delete that fails on a missing row is what picks one of several calls.
  `LinksBounded` has to count the links together with the calls about to add one
  (`Counted`): a `deleteMany` leaves none for its user but may move a call to the
  creation, and the creation turns a counted call into a counted row.
  `StaleSessionsRaced` needs the same of the calls that are about to open a session
  (`StaleCallsRaced`): between the new password and the revocation anybody may be
  outdated, and the revocation marks those it cannot reach. `ResetCanLogIn` needs
  `Known`: what a call has read of an account still holds, or the account's count
  of writes has moved on; accounts that get a link are in lower case, since
  `forgotPassword` finds no others.
  `MutationsKeepThePromise` is the refinement: one lemma for each step of
  `AccountPromise`, and one for each step of a call that is not a stutter. It needs
  the invariants above and `Named`: no session has the name of a call under way
  (`Enter`), and a call that has found a row has the row's user (the row becomes the
  call's link). `Redeem` takes one link away because of `LinkWorksOnce`. All of it is
  proved for `AnySpec`, in which logout and reset may bring the cookie of a session that
  has ended; `Spec` is a special case, and so are the pages.
* **Pages** (from `AuthAssumption` and `PagesAssumption`; any tabs, browsers and calls,
  any answers lost). `Below` is the mutations' `Typed` and `Linked` with `Kinded` (the
  steps a mutation of each kind goes through), `Together` relates pages, cookies and
  running calls. `SuccessIsReal` needs `LinksAreBrought`: the call a reset page waits
  for has the link of that page, and has set the password from a certain step on; and
  `ResetsAreAlone`: no other call's answer can settle or move such a page.
  `HomeIsCurrent` needs `HomeShows`, which says it of the cookie of the last render
  or answer, whatever the jar holds by now, and `CookiesArePast`: no cookie that anybody
  has seen is the name of a session still to be opened, so nobody can come to live
  under it. `OrphansAreStale` is the long one. When an answer overwrites a cookie that is
  not the one its page was rendered for, the cookie is in `replaced`; so what has to be
  shown is that the page's own cookie is not a living session. For a form that is
  `FormsAreForNobody`, which the layout of `(auth)` establishes when the page is rendered
  and `CookiesArePast` keeps; for the logout button it is `LogoutsEndTheirs`, since the
  session was deleted before the answer. The server's steps are treated at once: the
  lemma `StepGoesOn` says of all twenty what they do to their call and the tables.
  `PagesSpecIsAny` then carries the theorems of the mutations over
  (`PagesKeepTheMutations`, `PagesKeepThePromise`).

The registry's `StarredIsRegistered`, `CopiesBounded` and `MonitorAllNeverMisses`
and the consumer's `CommitsAdvance` are proved and not run any more: the runs keep
the properties that imply them or go beyond them.

Every invariant, every action property and every refinement that a passing run checks
is proved. Only model-checked are the liveness properties: `PublishedIsHandled`,
`RegisteredGetsAlerts`, `LedgersAreInspected`, `SteadyAreSettled`, `JobsEnd` and
`AnswersArrive`, which need fairness and ENABLED, beyond the provers installed. Nothing
is proved about what the models build on: `Sortings` of `Dedupe` takes it for granted
that `SortSeq` sorts, and `WellFormed` that sponsoring operations nest. The inductive invariants
(`PipelineInv`, `FeedInv`, `CollectInv`, `Below` and `Together`, and so on) were
model-checked on the instances of section 3 before they were proved.

## 6. Not modelled, and the plan

In this order:

1. `SeedAccounts`: the records `seedAccounts` puts, against the four accounts
   and three records its README promises.
2. `FraudStore`: an LMDB reader without lock against a writer that reuses pages.
3. `Deceptiscan`: feed, processor and web application composed, from a listed
   account to a timeline entry.
4. `Timeline`: grouping by timestamp and the page's sort, as a stable sort.

Left out of the Blitz UI: the role of a session, which nothing reads, and the
expiry of sessions after 30 days; the anonymous session and its anti-CSRF token;
signup's defaults for a missing input, which the form never sends; the `next`
parameter that login's redirect reads, taken to lead home; the browser's Back;
wording and styles, `LabeledTextField`, the `useCurrentUser` hook, which no page
uses, the error and loading pages, the root layout and the set-up of the framework
(`blitz-client.ts`, `blitz-server.ts`, `next.config.js`). `changePassword` has no
page, so only `AuthMutations` has it.

Not planned: other page rendering, image and container builds, and the unused
parts named in section 1. The OAuth cookie is outside the registry: the models
start where `get_current_user` has named the user.
