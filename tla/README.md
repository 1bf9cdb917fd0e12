# Formal models of dgc-REST-api

The repository is a Hyperledger Sawtooth application. Clients ask a REST
**server** to create participants, tables, records and proposals and to trade
coins; the server packs the requests into transactions and hands them to the
validator; the validator lets the **transaction processor** apply them one at a
time to the ledger; and the **ledger sync** copies each committed block to a
RethinkDB database, from which the server answers its queries.

This directory holds TLA+ models of the parts where the logic is, TLC instances
that check them, and TLAPS proofs: every safety invariant, every action property and the one
refinement that the passing runs check is also a theorem, for all values of the constants
and under the conditions that section 4 names. Liveness is only model-checked.

## 1. The system

| Part | Source | State | Operations | Hard behaviour |
|---|---|---|---|---|
| Transaction processor | `processor/src/handler.rs`, `addressing.rs`, `main.rs` | the ledger: participants, tables, records, properties, property pages, proposals, exchanges | create participant, table, record, proposal; finalize; update properties; answer proposal (ten arms); revoke reporter | long sequences of legal transactions; entries that refer to others by position; proposals answered after what they are about has changed; ring of pages |
| Message formats | `protos/*.proto` | none | encoding | none |
| Ledger sync | `ledger_sync/` | a queue of block events; the state tables and the blocks table | handle a block, write a document, insert a block, resolve a fork, restart | writes not waited for, forks, crashes, replay |
| Server: transactions | `server/transaction/` | none of its own; shared objects during one request | sell, buy, transfer coins, match proposals, record and proposal requests | reads that are not awaited, concurrent matches, two-step answers |
| Server: submission | `server/blockchain/`, `server/system/submit_utils.js` | batches in flight | submit a batch, wait for its status | timeouts, swallowed errors |
| Server: database | `server/db/` | users and usernames; reads the tables of the ledger sync | insert and update users; queries at the current block | three-query updates with a compensation |
| Server: API | `server/api/`, `server/index.js` | none | routes, tokens | none |

The parts interact by messages (server to validator, validator to processor and
to ledger sync) and by shared state (the database: written by the ledger sync
alone, except users, and read by the server).

What makes them correct:

- *Processor.* Nobody is overdrawn, unless by a negative amount; coins that move arrive. A
  record's history of owners and custodians only grows. A reported value never changes its
  author, was authorized when reported, and is settled once the record is final or the property
  fixed. References never dangle. A proposal is accepted by the right person, for
  what it proposed.
- *Ledger sync.* Once idle, the database has exactly the ledger's entries; while it
  writes, readers find the current block's; whatever failed before a restart is
  repaired by it; forks leave nothing behind; the queue runs empty. The code ensures
  some of it only as long as the database keeps pace with the queue.
- *Server.* A match moves the same coins on both sides and never more than
  proposed; no batch is reported as committed that is not (an error says nothing); users and
  usernames agree, and a user has a participant; a request does to the ledger all it was asked for or nothing,
  whichever of its queries come late, and ends.

## 2. Modules

| Module | Models | Correspondence |
|---|---|---|
| `LedgerState` | the state and the entries of `StateDGC` | one variable per kind of address, a function from the keys that are stored to entries; `Put` is a `set_...` call |
| `PropertyPages` | the arithmetic of pages in `_update_properties` | `Report` is push and sort, `Full`, `NextPage` |
| `RecordHandlers` | `_create_participant`, `_create_table`, `_create_record`, `_finalize_record`, `_update_properties`, `_revoke_reporter` | one action per handler, enabled exactly when the handler returns `Ok` |
| `ProposalHandlers` | `_create_proposal`, `_answer_proposal` | one action per arm of the answer |
| `Processor` | `apply` | the signer chooses any transaction; the properties |
| `MCProcessor` | instances of `Processor` | schemas and payload sets, bounds |
| `LedgerLemmas` | lemmas about stores, reporters and pages | |
| `ProcessorProofs` | proofs about `Processor`: types and coins | one lemma per action |
| `RecordProofs` | proofs about `Processor` and `Queries`: records, reporters, pages | |
| `LedgerSync` | `ledger_sync`, and the two operators by which the server reads (`queryWithCurrentBlock`, `hasCurrentBlock`) | the validator's chain is external; one action per query or callback |
| `MCLedgerSync`, `SyncProofs` | instances and proofs of `LedgerSync` | which faults happen, bounds |
| `Submission` | what the server promises of a batch | abstract: each batch has a fate and an answer |
| `BatchSubmit` | `submitTxns`, `POST /transactions`, `blockchain.submit`, `batcher.js` | a submission is at one of four stages, and each message, timeout or pause that ends a stage is an action; refines `Submission` |
| `BatchProofs` | proof of the refinement | |
| `Accounts` | `createParticipant`, `POST` and `PATCH /users`, `db/users.js`, over `BatchSubmit` | a request is a process; each query of `db/users.js` is an action, `insert`'s unreturned one included |
| `MCAccounts`, `AccountProofs` | instances and proofs of `Accounts` | |
| `Queries` | how `db/records.js` reads values and finds records | operators on a copy of the ledger |
| `CoinExchange` | `server/transaction/proposals.js`, the part about coins, over `ProposalHandlers` and `BatchSubmit` | a request is a process, and so is each of its matches; actions are queries' results and ends of submissions |
| `RecordRequests` | `server/transaction/records.js`, `tables.js`, and custody and reporter proposals of `proposals.js`, over `RecordHandlers`, `Queries` and `BatchSubmit` | as above; what is read without being awaited may come before or after its use |
| `MCExchange`, `MCRequests` | instances of these two | |
| `ExchangeProofs`, `RequestProofs` | proofs about them | on the lemmas of `BatchProofs`, `LedgerLemmas` and `ProcessorProofs` |

How they compose. `CoinExchange` and `RecordRequests` extend the processor's handlers
and `BatchSubmit`: committing a batch is `Commit` of `BatchSubmit` conjoined with the
handlers of its transactions, and a batch may be refused by the validator (`Invalidate`)
only if some transaction of it is invalid in the present state. The database is a copy
of the ledger that one action brings up to date; `LedgerSync` says when that is what the
real one amounts to. `Accounts` does the same with a ledger that is only a set of
registered keys. `MCProcessor` extends `Queries`, so that what the server serves is
checked on all ledgers the processor runs reach.

**Processor.** A transaction is one step: the validator runs it in a context it
discards if the handler returns an error, so a rejected transaction changes nothing
and has no action. Inputs are existentially quantified. Where the code repeats a
check in a loop over properties, the model quantifies over the set of names; a
payload that names a property twice is left out. Values of properties are not
modelled, only their types, timestamps and authors. Coin amounts are doubles in the
messages, of either sign, and the handlers do not look at it; here they are integers.
Fractions and their rounding are left out.

**Ledger sync.** A block event is queued and run by `deltaQueue`. Running it is:
send the writes of everything but pages, wait, send the writes of pages, insert the
block, and if there is another block of that number, resolve the fork. The code
does not wait for the writes, since `stateAdder` returns nothing, but for 100 ms before the
pages. Each write is therefore a member of the set `sent`, carried out query by query in any
order and at any time, and `EndOldDocs` and `InsertDoc` are two actions, as a query over several
documents is not atomic. Writes of one block may still be in `sent` when the queue has gone
on to the pages, the block or the next block: then (`GoOn`) the history variable
`overtaken` becomes true. Equal writes under way at once, which only replays make, are one
member of `sent`. `MCLedgerSync` has a constant `Overtaking` that keeps or leaves out the
executions in which that happens; the specification and the proofs have all of them.
`_runNext` has no catch: `BlockQueryFails` leaves the queue in phase `stuck` until
`Restart`. `failed` is a history variable that tells apart runs in which queries
failed.

**Submission.** `wait` says whether the submitter asked to wait for a commit. The
validator reports a status (`ReportStatus`), which is on its way (`told`) while the batch
goes on, and arrives later (`HearStatus`). The constant `Late` names the batches whose wait may
end before they are decided, so that their status is PENDING; they may be decided before it
arrives, or after it. `Refusable` names those whose submission may fail: the batch is refused
(`Refuse`), or a request or reply is lost at any point, also after the validator took the
batch (`LoseReply`). The passing runs give both to some or all batches. In `Submission` "accepted"
and "ok" are promises, and "error" is none: its batch may be committed, before or after the
error is said. `submitTxns` swallows the error, so that every caller goes on:
`Signed`, `Placed` and `OlderOver` need only `Answered`.

**Accounts.** A request starts when it comes in; requests are numbered in that order.
`inserts` holds the user inserts that `insert` of `db/users.js` has sent without
returning their promise: each is carried out some time, or fails, for a key that has a user
or for a reason of the database's own, and nobody hears of it. A key stands for the holder of a key, and a rename needs a
user to be logged in. `slips` is a history variable: it records which of four events
have happened after which the two tables may disagree, so that `TablesInStep` can say
that there is no fifth.

**Coins on the server.** The object of an order is shared by its matches: `Exchanging`
is what a match writes into it between its two answers, and another match of the same
request may do so before the answer is sent. `unread` are its two queries, which are
sent together, so either may come first. An order whose own query comes later than
the open orders' is matched with none. Amounts, those that clients ask for and those that the
server computes, are integers of either sign (see the observations). Currencies other than one, and the
prices recorded with an exchange, are left out.

**Records on the server.** A request's `targets` and `filled` are what its unawaited
queries have found so far; `SendRecord` and `SendAll` may run at any time. A value is
identified with its timestamp, and the values a request reports with the request's
number, so that a property can say whose value is where. A query matches a record if
each of its properties was ever reported with that value; the query that all records match
is the empty list, which the code knows by its length (an empty query object makes the
database query fail). What a route serves of a property is a set in `Queries`: among several
newest values of one time the code takes the first that the database happens to return. Commands to the
server that have no route (`authorizeReporterProposal`, the answers to custody
and reporter proposals) are exported functions and modelled as requests.

## 3. Runs

All runs use `CHECK_DEADLOCK FALSE`: the processor has nothing to do when no valid
transaction is left inside the bounds, the ledger sync is idle when the chain
has stopped growing, and the server is idle when every request is answered.

| Run | Bounds | Shows |
|---|---|---|
| `processor_records` | 2 participants (symmetric), 1 record, 1 plain property, 1 proposal id, 4 owners and custodians, 3 reporter entries | `TypeOK`, `Registered`, `WellLinked`, `ReportersIndexed`, `Attributable`, `ProvenanceKept`, `AuthorsKept`, `ReportsInForce`, `FinalValuesKept`, `OwnershipCarriesReporting` |
| `processor_values` | 2 properties, one plain and one fixed or delayed (symmetric), 2 timestamps, 2 reporters, pages shorter than 3 | `ServedValuesConcur`, `PagesOrdered`, `SchemaHonoured` |
| `processor_coins` | 2 participants (symmetric), 1 proposal id, amounts -1, 1 and 2, no balance, credit or exchanged amount beyond 2 or below -2 | `NoOverdraft`, `ExchangesBooked`, `TransfersBalanced` |
| `sync_restarts` | 1 property and its page, 3 blocks, restarts and failing queries at any step, a database that keeps pace | `SyncedAtRest`, `ReadersCurrent` |
| `sync_forks` | a key and an exchange, 3 blocks made, forks at any height, writes carried out at any time | `TypeOK`, `AbandonedGone`, `BlocksFollow`, `CaughtUp` |
| `accounts` | 2 keys, 2 names, 3 requests, the first batch refused or its reply lost, the first two late, any insert lost | `TypeOK`, `TablesInStep`, `UsersRegistered`, `PromiseKept`, `RequestsEnd` |
| `exchange` | 3 traders, a standing sale, 2 requests (orders that compete, credit, transfers), late first answers of the first | `ExchangeTypeOK`, `LoneMatchesExact`, `FairPrices`, `OnlyRacesReopen`, `MatchesEnd` |
| `record_requests` | 2 records of a table with a required and an optional property, 2 requests of any kind, one batch refused or its reply lost, one late | `RequestsTypeOK`, `UpdatesWhole`, `RequiredReported`, `DeletedAsAsked`, `RequestsAnswered` |
| `transfer_to_oneself` | 2 participants, coins only | violates `TransfersConserve` |
| `sync_fork_lost` | 1 key, 3 blocks, forks, a database that keeps pace | violates `SyncedAtRest` |
| `exchange_for_another` | as `exchange` | violates `IssuersExchange` |
| `username_shared` | 2 users, who sign up and rename, no late batches | violates `UsernamesUnique` |

Why the bounds are enough. Proposals are keyed by an id the client chooses and a
new proposal may overwrite an answered one, so one id already gives every sequence of
proposals, and an old proposal can be answered after anything else has happened. Three
reporter entries are enough for a participant to be authorized, revoked and
authorized again beside another; four owners and custodians, for a record to go
away and come back. A page that is full at three values is turned within the run.
Two participants pay, receive and grant credit to each other, and with amounts of up to two
an order is answered in part or twice; one negative amount is enough for an answer that lowers
what it should raise. Three blocks give a current, a superseded and an older version of an
entry; of three blocks the third can replace both others, or the second while that is
still queued, running or being written.

Two orders beside a standing one are enough for two matches to race for it, for one
order to be matched with two, and for its object to be shared. Three account requests
are enough for a user that two others touch; a fourth appears where two users
already exist. Two record requests are enough for either to see, miss or delete what the
other reads; a table created by the first is there or not when the second looks.

The four violations are disagreements between the code and its own documents and
comments; `PROJECT.json` quotes the lines. In short: a transfer to oneself mints coins;
resolving a fork deletes the documents of the fork's first block; an automatic exchange
moves the coins of whoever made the newer order, on both sides of it; and a rename that
fails frees the name its user keeps.

Symmetry is sound where it is used: the payload sets name no participant, and each
set of schemas contains its own image under a swap of the properties.

**Fairness.** `CaughtUp` assumes weak fairness of each step of the sync:
`Deliver`, because the validator's subscription sends every block; `CarryOut`,
`InsertBlock`, `ReplaceBlocks` and `Resolve`, because the database answers every query
(that run has no failures); `SendPages` and `ForkResolved`, because the event loop
runs due timers and resolved promises. The validator's steps (`Commit`, `SwitchFork`)
have none. `RequestsEnd` assumes for every request of `Accounts` that its messages
arrive and its waits and pauses end (`Carry`), that its continuations run and its
queries are answered (`Serve`, `InsertUser`); nothing is assumed of the validator's
decisions, since every batch there can be late. In `CoinExchange` and `RecordRequests`
`Serve` and `CarrySome` are the same for all requests together (each can be taken only
finitely often, so none starves another), and `Decide` is fair too: the
validator decides every batch in the end, because most batches there have no end of
their wait (`Late`). Nothing is assumed of the ledger sync there.

**Limits of the properties.** `NoOverdraft` speaks of participants with a credit of zero or more,
and allows what negative amounts do. `ServedValuesConcur` does not say that the two routes
serve one value: of several reports of one time `fetchProperty` serves any and `retrieveRecords`
that of the reporter who was authorized last.

`SyncedAtRest`, `ReadersCurrent` and `AbandonedGone` have the premise `Unharmed`: no query has
failed since the start, and the queue never went on ahead of its writes. The second half is
not something the code ensures; the fixed wait only makes it likely. `BlocksFollow` has the
first half alone, and `CaughtUp` neither. `ReadersCurrent` allows older versions of an
entry beside the current one, as `EndOldDocs` moves the ends of superseded documents
too: while a block is written the server's queries find both, and which one a route takes
depends on the order of the table. It says nothing of a replay in progress:
after a restart every block is applied again over documents that are there already,
and until the replay is through readers find older versions as the newest ones.
`SyncedAtRest` is checked without forks, since `sync_fork_lost` shows it does not hold
with them; `AbandonedGone` is what holds with them.

`LoneMatchesExact` speaks of matches without a rival: two matches that compete for one
order can exchange more than it has. It, `FairPrices` and `OnlyRacesReopen` hold of
requests with ids of their own (`OneClock`, section 4), which the run's requests have and the
server does not ensure. `TablesInStep` speaks of histories without slips.
`RequiredReported` says nothing of optional properties: whether they are
in a record that is created depends on how fast their queries are.

**Observations.** What the code also does, that no run states as a property:

- *Acceptance.* The `ACCEPT` arms look neither at the record's `final` flag
  (`handler.rs:1669`, against `family_specification.rst:37`) nor at whether the issuer is
  still the owner (`handler.rs:1689`, against `family_specification.rst:721`), and believe the answer about
  role, record and receiver (`handler.rs:1397`, against `family_specification.rst:728`).
- *Revocation.* A reporter that was revoked and authorized again has an entry that is not
  authorized, and can no longer be revoked (`handler.rs:1919`).
- *Pages.* The test for the end of the ring is inverted (`handler.rs:1193`): page 1 follows
  page 1, so the page that was just filled is the one erased, where the documents promise
  "16776960 entries ... before older updates are overwritten" (`family_specification.rst:118`).
- *Signs.* No handler looks at the sign of an amount: a negative automatic answer to a purchase
  (`handler.rs:1457`), or a negative credit or transfer, takes a participant below zero.
- *Matching.* An order that several requests match at once can be exchanged beyond its
  amount. Its balance is then negative, it is reopened by the next match, and the server makes that
  one for a negative amount. `OnlyRacesReopen` shows that it takes a race.
- *Transfers.* The automatic answer to a transfer is signed by the sender (`proposals.js:637`), where
  the handler wants the receiver (`handler.rs:1596`): a transfer to somebody else never
  happens, although the comments say "Auto answer the transfer proposal".
- *Page writes.* If the 100 ms end before the write of a property is carried out, a page of it is
  stored unconverted (`deltas.js:99-103`), and stays so until the page changes again.
- *Accounts.* A second creation for a key fails to insert its user, which nobody hears of, and if
  its name is taken deletes the user of the first (`users.js:36-42`), whose client was told of
  an account. A user's insert that fails is not told either (`users.js:30`).
- *Ids.* Proposal ids are a prefix and the time in seconds, and all custody proposals of one
  request share one: the last replaces the others.
- *Answers without an id.* The answers to custody and reporter proposals carry no proposal
  id, so no transaction of theirs is ever valid; reporter proposals and these answers have no
  route, and the route for answering transfers calls a function that does not exist.
- *Queries.* `{}` as a query makes the database query fail, although `[]` matches all
  (`records.js:320,341`).
- *Deleting and offering.* A record that does not match leaves an empty object in the result
  of `retrieveRecords`, which becomes a transaction without a record: such a batch
  is refused, and a deletion succeeds only if it matches all records of the table.
- *Records.* A new record silently lacks an optional property whose query came too late.
- *Record view.* `getTableProperties` looks up the table by the record's `name`, which records do not
  have, so `fetchRecord` fails.

## 4. Theorems

All are proved for every value of the constants that satisfies the named assumptions of the
modules, which say what values of the constants are: a page holds at least two values
(`PropertyPages`); payloads and schemas are of their types and timestamps are positive
(`LedgerState`); a page's property is a key of its own (`LedgerSync`); batches belong to requests, and
requests ask for what there is (`Accounts`, `RecordRequests`, `CoinExchange`). Amounts
are integers of either sign. Three further conditions are hypotheses of the theorems that need them:

- `FewRequests` (`RequestProofs`): fewer requests than a page holds values, so that no page
  is turned. A page that is turned loses its values, so that an update is no longer
  whole. In the run two requests face pages of four values.
- `AnyContent` (`ExchangeProofs`): the constant `Content` of `BatchSubmit` holds the transactions
  that the server makes. It is what `MCContent` is.
- `OneClock` (`ExchangeProofs`; `PricesMeetAlways`, `LoneMatchesAreExact`, `OnlyRacesDo`): no two requests of a kind are made in the same second, nor one
  in that of a standing order. The server does not ensure it. Without it proposals replace each other, and the properties
  that relate a request to its proposal are false; the run's requests satisfy it. In `OnlyRacesDo`
  there are also finitely many standing orders.

**Processor** (`ProcessorProofs`).

- `TypeCorrect`: `Spec => []TypeOK`. `TypeOK` is inductive; one lemma per action shows
  each store is kept, on `PutStore` and `PutAllStore`.
- `OverdraftsAreNegative`: `Spec => NoOverdraft`, a lemma for the automatic answers
  (`ExchangeCovered`) and one for credits and transfers (`AcceptCoinsCovered`). The
  seller's answers check the signer's funds before they debit, for amounts of either sign; a
  transfer checks the balance alone, which is enough for whom has no negative credit. What is
  left are negative purchases, credits and transfers (`AnswersNegative`). `AccountsSet` covers a
  transfer whose two parties are one participant.
- `ExchangesAreBooked` and `TransfersAreBalanced`: the action properties, from `TypeOK` and the
  balances each arm writes.

**Records** (`RecordProofs`).

- `IndexIsPosition`: `Spec => []ReportersIndexed`, from
  `IInv == TypeOK /\ PropertiesOwned /\ ReportersIndexed`. `PropertiesOwned` (each
  property's record exists) is needed because `_create_record` writes new properties
  without looking for old ones: only the record's absence shows there are none.
  `AuthorsStay` and `ProvenanceStays`, `Spec => AuthorsKept` and `Spec => ProvenanceKept`,
  follow from it step by step.
- `RecordsLinked`: `Spec => []WellLinked`, from
  `LInv == IInv /\ RecordsComplete /\ PropertiesOfTables /\ OnePage`. The properties
  there are those of the tables of the records, and `OnePage` says that no property ever has
  a page but page 1: with the inverted test of the ring the page after page 1 is page 1.
- `OnlyRegistered`: `Spec => []Registered`, from `RInv`: chains, lists of reporters and proposals
  name registered participants.
- `PagesStayOrdered` and `ValuesAttributable`: `PagesOrdered` and `Attributable`, from `LInv` and
  `PInv`: every page is sorted, and its values' indices are below the length of the
  list of reporters. (`PInv` also has that a page has room, which is because of the inverted
  test too.) That an insertion keeps a page sorted is a lemma of `LedgerLemmas` about `Report`.
- `ReportsAreInForce`, `FinalValuesStay`, `SchemasHonoured`, `OwnersReport`: the action properties, from
  the same invariants. For `OwnersReport` the lists of reporters of all properties of
  a record change in one step.
- `ServedOfOneTime`: `Spec => []ServedValuesConcur`, of any choice the two queries make among
  values of one time.

**Ledger sync** (`SyncProofs`).

- `SyncTyped`: `Spec => []TypeOK`, which needs that the ids on their way to the blocks table
  were made (`EventsKnown`).
- `BlocksNameTheChain`: `Spec => []BlocksFollow`, with forks, failures and restarts. `FollowInv`
  says that the events that are left, taken in order, take the blocks table to what was delivered
  of the chain.
- `AbandonedDocsGo`: `[]AbandonedGone` with forks and failures but without restarts
  (`OneRunSpec`), as long as the queue never goes on ahead of its writes: `DocsOfBlocks` says that
  every document is of a block in the table, or of the running event, or about to be removed.
- `EntriesAtRest`, `ReadersStayCurrent`: `[]SyncedAtRest` and `[]ReadersCurrent` with failures and
  restarts but without forks (`OneChainSpec`, whose block numbers stay below `MAX_SAFE_INTEGER`).
  `sync_fork_lost` shows why forks are excluded. Both say nothing of executions in which the queue
  has gone on ahead of its writes, which the code does not prevent. The
  invariant (`OneChainInv`) holds of the others: it says of each key how far the blocks dealt with
  since the last start are in its documents, while writes from before it are still carried out.
- `OnlyOvertakenPages`: `OneChainSpec => [](overtaken \/ PagesConverted)`: besides a failed query it
  takes such an execution to store a page unconverted. No run checks it.

**Batches** (`BatchProofs`).

- `SubmitPromise`: `SubmitSpec => PromiseKept`, that is, batch submission
  implements `Submission`. A step of `BatchSubmit` changes one batch (`UpdateKeeps`,
  `UpdateSeen`), and is a step of `Submission` or unseen by it. The invariant
  `SubmitInv == BatchesOK /\ ToldTrue` (theorem `SubmitInvariant`) is needed because the
  abstract `AnswerOk` wants a committed batch: only the stage shows that there is one.
- `AccountsPromise`, `RequestsPromise`, `ExchangePromise`: the same of the three modules that use it.
  Every step of theirs is a step of `BatchSubmit` or leaves the batches alone.

**Accounts** (`AccountProofs`).

- `AccountsTyped` and `AccountsRegistered`: `TypeOK` and
  `UsersRegistered`, from `AccountsInv == TypeOK /\ RegisteredFirst`. A user is inserted long
  after its key was looked up, so `RegisteredFirst` speaks of the inserts to come and
  of what the database knows, beside the users there are.
- `TablesStayInStep`: `TablesInStep`, from `StepsInv`. Until a
  slip, at most one request ever creates the user of a key (`AloneInv`), so that none of its
  inserts is undone; and the requests, users and inserts that claim a name are not
  more than its entries and those about to make one (`NamesInv`, a count of finite sets). An
  insert that is lost only makes the claims fewer.

**Records on the server** (`RequestProofs`). `TypeInv` ties each batch to what its request asked.
`BookedStep`: a step leaves the ledger and the committed batches alone, or applies one
batch that was not committed before.

- `RequestsAreTyped`: `RequestsTypeOK`.
- `DeletionsAreExact`: `DeletedAsAsked`, which is inductive beside `TypeInv` (`DeletedInv`).
- `RequiredIsReported`: `RequiredReported`, from what `_create_record` refuses.
- `UpdatesAreWhole`: `UpdatesWhole` if `FewRequests`, from `PagesInv`: a page has a value of a request just
  if that request's batch for the record is committed and names the property, and no page has
  more values than committed batches.

**Coins on the server** (`ExchangeProofs`). `TypeInv` ties each batch to its request or match, `LedgerSteps` says
what a step does to the proposals.

- `ExchangeTyped`: `ExchangeTypeOK`.
- `PricesMeetAlways`: `FairPrices`, from `OwnersKnown` (each proposal is a standing one or the one
  its request has placed) and `PricesOK`, which follows a pair of proposals from the
  match that compared their prices through the shared object and the batch to the exchange, and
  says that what the database has of a price and an amount is right, however old.
- `LoneMatchesAreExact`: `LoneMatchesExact`, from `LoneInv`. An order that no two matches are about is
  as it was placed, or as its one answer says; so what was read of it before it was matched is what
  there is, and its match is for what both orders have. `LoneInv` was checked by TLC on the
  run's instance before it was proved.
- `OnlyRacesDo`: `OnlyRacesReopen`, from the same invariant: an order that is alone before the step
  is either unanswered or has had its one answer, so that the answer that reopens it would be a
  second one of its match.

Model-checked only: liveness (`CaughtUp`, `RequestsEnd`, `MatchesEnd`, `RequestsAnswered`), which is out
of the prover's reach, and the four violations.


## 5. Not modelled

- Addresses and containers: entries whose keys hash to one address share a container,
  which the handlers search by key; the model's stores are keyed by the keys.
- STRUCT, LOCATION and ENUM values, latitude and longitude bounds, and the empty-field
  checks of payload decoding.
- Fractional coin amounts; negative timestamps; a query that is an empty object.
- On the server: two orders in one second; currencies; the projections of `fetchRecord` and the
  listings, whose code after an early return is dead; queries of exchanges; the dead tail of
  `createRecord` and `makeRecords`; tokens, password hashes and key encryption, which are
  library calls.
- Start-up: connection retries, and `bootstrap_db.js`, which creates the tables once (if it is
  interrupted it cannot be completed, since it starts by creating the database). HTTP parsing,
  docs, scripts, containers.

## 6. Plan

Done: the processor, the ledger sync, batch submission with its refinement, accounts, coins
and records on the server, and the proofs of what their runs check but liveness. Left, in
this order:

1. What a database that falls behind leaves in the tables of `LedgerSync` after the queue has
   overtaken it, beyond `BlocksFollow` and `CaughtUp`; and a fork and a crash together in `LedgerSync`: what a stop between the replaced blocks
   and the removed documents leaves behind, and `AbandonedGone` as far as it holds then.
2. Two clients in one second in `CoinExchange`: what is left of `LoneMatchesExact` and `FairPrices`
   without `OneClock`.
3. `PageHistory`: an abstract bounded history of reported values, and in which cases the
   ring of `PropertyPages` implements it; with it, `UpdatesWhole` without `FewRequests`.
4. The composition of `CoinExchange` and `RecordRequests` with the processor's invariants: which of
   them hold of a ledger that is written by batches of several transactions.
