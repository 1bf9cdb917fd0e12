--------------------------- MODULE RecordRequests ---------------------------
(***************************************************************************)
(* Requests about tables and records on the server: server/transaction/    *)
(* records.js and tables.js, and the custodians and reporters of           *)
(* proposals.js.  A request reads the database for what its transactions   *)
(* need, but does not wait for what it reads: the object or list that the  *)
(* answer fills is used when the formats are compiled and the batcher's    *)
(* key has arrived, filled or not.                                         *)
(***************************************************************************)
EXTENDS Queries, ProposalHandlers, BatchSubmit

CONSTANTS
  Asks,         \* request number -> the requests it may be
  Catalogue,    \* table name -> the schema it is created with
  GivenTables,  \* the tables that are there to start with
  GivenRecords  \* the records that are there: id -> its table, owner and time

Requests == DOMAIN Asks

CustodyKinds == {"custody", "authorize"}
AnswerKinds == {"answerCustody", "answerReporter"}
Kinds == {"tables", "create", "update", "delete"} \cup CustodyKinds \cup AnswerKinds

\* A query maps names of properties to the values they are to have.  It has
\* a name if it is not the list []: r.add has nothing to add for an object
\* without names, the query fails, and the request lists nothing.
Query ==
  {Everything} \cup UNION {[names -> Timestamps] : names \in (SUBSET Properties) \ {{}}}

\* `data` are the tables to create, or the properties to report.
Ask ==
  [kind: Kinds, signer: Participants, table: Tables, record: Records \cup {NoRecord},
   query: Query,
   data: SUBSET (Tables \cup Properties), receiver: Participants \cup {Nobody},
   proposal: ProposalIds]

\* The server makes up the id of a new record.
ASSUME AsksAssumption == \A r \in Requests : \A ask \in Asks[r] :
  /\ ask \in Ask
  /\ ask.kind = "tables" => ask.data \subseteq Tables
  /\ ask.kind = "create" => ask.record \in Records
ASSUME RequestsAssumption == Requests \subseteq Timestamps
ASSUME BatchesAssumption == BatchIds = Requests \X (Records \cup {NoRecord})
ASSUME ContentAssumption ==
  \A r \in Requests : \A ask \in Asks[r], record \in Records \cup {NoRecord},
    targets \in SUBSET (Records \cup {NoRecord}), names \in SUBSET Properties :
      [ask |-> ask, ts |-> r, record |-> record, targets |-> targets, names |-> names] \in Content
\* The records that are given were created and reported before any request.
ASSUME GivenAssumption ==
  /\ Catalogue \in [Tables -> Schemas] /\ GivenTables \subseteq Tables
  /\ DOMAIN GivenRecords \subseteq Records
  /\ \A rec \in DOMAIN GivenRecords : GivenRecords[rec] \in
       [table : GivenTables, owner : Participants, timestamp : Timestamps \ Requests]

VARIABLES
  copy,       \* the database's copy of tables, records, properties and pages
  requests    \* request -> what it is and what it has read

ledgerVars == <<participants, tables, records, properties, pages, proposals, exchanges>>
requestVars == <<ledgerVars, batches, copy, requests>>

\* `targets` is the list of records, `filled` the property objects that have
\* been filled in, `sent` the targets whose transactions are submitted.
Request ==
  [ask: Ask, listed: BOOLEAN, targets: SUBSET (Records \cup {NoRecord}),
   filled: SUBSET ((Records \cup {NoRecord}) \X Properties),
   sent: SUBSET (Records \cup {NoRecord})]

Stored == [tables |-> tables, records |-> records, properties |-> properties, pages |-> pages]

RequestsInit ==
  /\ participants = [p \in Participants |-> NewParticipant]
  /\ tables = [t \in GivenTables |-> Catalogue[t]]
  /\ records = [r \in DOMAIN GivenRecords |->
       [table |-> GivenRecords[r].table, owners |-> <<GivenRecords[r].owner>>,
        custodians |-> <<GivenRecords[r].owner>>, final |-> FALSE]]
  /\ properties = [k \in {q \in (DOMAIN GivenRecords) \X Properties :
                            q[2] \in DOMAIN Catalogue[GivenRecords[q[1]].table]} |->
       NewProperty(GivenRecords[k[1]].owner, Catalogue[GivenRecords[k[1]].table][k[2]])]
  /\ pages = [k \in {<<q[1], q[2], 1>> : q \in DOMAIN properties} |->
       <<[timestamp |-> GivenRecords[k[1]].timestamp, reporterIndex |-> 0]>>]
  /\ proposals = EmptyStore /\ exchanges = {}
  /\ InitBatches /\ copy = Stored /\ requests = EmptyStore

-----------------------------------------------------------------------------
(* What the batches do. *)

\* The transactions of a request for one target, or for all of them.
Txns(r, target) ==
  [ask |-> requests[r].ask, ts |-> r, record |-> target, targets |-> requests[r].targets,
   names |-> {n \in Properties : <<target, n>> \in requests[r].filled}]

TypesOf(t) == [n \in t.names |-> tables[t.ask.table][n].type]

MayFinalize(p, r) ==
  Contains(records, r) /\ Owner(r) = p /\ Custodian(r) = p /\ ~records[r].final

\* All proposals of a request have one id.
Offer(ask, r) ==
  [id |-> ask.proposal, receiver |-> ask.receiver, record |-> r, properties |-> {}, amount |-> 0,
   role |-> IF ask.kind = "custody" THEN "transferCustodianship" ELSE "authorizeReporter"]

CreatesTables(t) ==
  /\ t.ask.kind = "tables"
  /\ \A table \in t.ask.data : ~Contains(tables, table)
  /\ tables' = PutAll(tables, [table \in t.ask.data |-> Catalogue[table]])
  /\ UNCHANGED <<participants, records, properties, pages, proposals, exchanges>>

Creates(t) ==
  /\ t.ask.kind = "create"
  /\ CreateRecord(t.ask.signer, t.record, t.ask.table, TypesOf(t), t.ts)

UpdatesPartly(t) == \* mutant: objects that were not filled in are left out
  /\ t.ask.kind = "update"
  /\ UpdateProperties(t.ask.signer, t.record, TypesOf(t), t.ts)

\* An object that was not filled in names no property.
Updates(t) ==
  /\ t.ask.kind = "update" /\ t.names = t.ask.data
  /\ UpdateProperties(t.ask.signer, t.record, TypesOf(t), t.ts)

DeletesOne(t) == \* mutant: the first transaction of the batch only
  /\ t.ask.kind = "delete"
  /\ \A r \in t.targets : MayFinalize(t.ask.signer, r)
  /\ \E r \in t.targets : records' = Put(records, r, [records[r] EXCEPT !.final = TRUE])
  /\ UNCHANGED <<participants, tables, properties, pages, proposals, exchanges>>

Deletes(t) ==
  /\ t.ask.kind = "delete"
  /\ \A r \in t.targets : MayFinalize(t.ask.signer, r)
  /\ records' = PutAll(records, [r \in t.targets |-> [records[r] EXCEPT !.final = TRUE]])
  /\ UNCHANGED <<participants, tables, properties, pages, proposals, exchanges>>

\* The proposal for the last record replaces the others.
Offers(t) ==
  /\ t.ask.kind \in CustodyKinds
  /\ \A r \in t.targets : MayPropose(t.ask.signer, Offer(t.ask, r))
  /\ \E last \in t.targets : CreateProposal(t.ask.signer, Offer(t.ask, last))

\* Nothing to do.  The answers of a request name no proposal.
Empty(t) ==
  /\ t.ask.kind \in {"delete"} \cup CustodyKinds \cup AnswerKinds
  /\ t.targets = {}
  /\ UNCHANGED ledgerVars

\* A batch without transactions may be refused by the validator, or not.
Allowed(t) ==
  LET p == t.ask.signer
  IN  \/ t.ask.kind = "tables" /\ \A table \in t.ask.data : ~Contains(tables, table)
      \/ t.ask.kind = "create" /\ MayCreate(p, t.record, t.ask.table)
           /\ FitsSchema(TypesOf(t), tables[t.ask.table])
      \/ t.ask.kind = "update" /\ t.names = t.ask.data /\ OpenToUpdates(t.record)
           /\ \A n \in t.names : MayReport(p, t.record, n, TypesOf(t)[n])
      \/ t.ask.kind = "delete" /\ t.targets # {} /\ \A r \in t.targets : MayFinalize(p, r)
      \/ t.ask.kind \in CustodyKinds /\ t.targets # {}
           /\ \A r \in t.targets : MayPropose(p, Offer(t.ask, r))

CommitTxns(b) ==
  LET t == batches[b].txns
  IN  /\ Commit(b)
      /\ CreatesTables(t) \/ Creates(t) \/ Updates(t) \/ Deletes(t) \/ Offers(t) \/ Empty(t)
      /\ UNCHANGED <<copy, requests>>

InvalidateTxns(b) ==
  /\ Invalidate(b) /\ ~Allowed(batches[b].txns)
  /\ UNCHANGED <<ledgerVars, copy, requests>>

Carry(b) == Carried(b) /\ UNCHANGED <<ledgerVars, copy, requests>>

(* The ledger sync brings the database up to date.                         *)
SyncRecords == copy' = Stored /\ UNCHANGED <<ledgerVars, batches, requests>>

-----------------------------------------------------------------------------
(* What the requests do. *)

\* A record to be created is the request's one target.
StartRequest(r) == \E ask \in Asks[r] :
  /\ r \notin DOMAIN requests
  /\ \A q \in Requests : q < r => q \in DOMAIN requests
  /\ requests' = Put(requests, r,
       [ask |-> ask, listed |-> FALSE, filled |-> {}, sent |-> {},
        targets |-> IF ask.kind = "create" THEN {ask.record} ELSE {}])
  /\ UNCHANGED <<ledgerVars, batches, copy>>

Kind(r) == requests[r].ask.kind

RetrieveRecords(r) ==
  /\ r \in DOMAIN requests /\ Kind(r) \notin {"tables", "create"} /\ ~requests[r].listed
  /\ requests' = [requests EXCEPT ![r].listed = TRUE,
       ![r].targets = RetrievedRecords(copy, requests[r].ask.table, requests[r].ask.query)]
  /\ UNCHANGED <<ledgerVars, batches, copy>>

FetchTableName(r, target, n) == \* mutant: one object for all records
  /\ r \in DOMAIN requests /\ Kind(r) \in {"create", "update"}
  /\ target \in requests[r].targets /\ n \in requests[r].ask.data
  /\ Contains(copy.tables, requests[r].ask.table) /\ n \in DOMAIN copy.tables[requests[r].ask.table]
  /\ requests' = [requests EXCEPT ![r].filled = @ \cup {n}]
  /\ UNCHANGED <<ledgerVars, batches, copy>>

(* One query for each name: a name the table does not have fills nothing.  *)
FetchTable(r, target, n) ==
  /\ r \in DOMAIN requests /\ Kind(r) \in {"create", "update"}
  /\ target \in requests[r].targets /\ n \in requests[r].ask.data
  /\ <<target, n>> \notin requests[r].filled /\ target \notin requests[r].sent
  /\ Contains(copy.tables, requests[r].ask.table) /\ n \in DOMAIN copy.tables[requests[r].ask.table]
  /\ requests' = [requests EXCEPT ![r].filled = @ \cup {<<target, n>>}]
  /\ UNCHANGED <<ledgerVars, batches, copy>>

Send(r, target) ==
  /\ target \notin requests[r].sent
  /\ Submit(<<r, target>>, Txns(r, target), TRUE)
  /\ requests' = [requests EXCEPT ![r].sent = @ \cup {target}]
  /\ UNCHANGED <<ledgerVars, copy>>

SendWhenFilled(r, target) == \* mutant: waits for all names
  /\ r \in DOMAIN requests /\ Kind(r) \in {"create", "update"}
  /\ target \in requests[r].targets
  /\ {target} \X requests[r].ask.data \subseteq requests[r].filled
  /\ Send(r, target)

(* A batch for each record, with whatever properties are filled in.        *)
SendRecord(r, target) ==
  /\ r \in DOMAIN requests /\ Kind(r) \in {"create", "update"}
  /\ target \in requests[r].targets
  /\ Send(r, target)

(* One batch for all records listed so far, which is all of them or none.  *)
SendAll(r) ==
  /\ r \in DOMAIN requests /\ Kind(r) \notin {"create", "update"}
  /\ Send(r, NoRecord)

-----------------------------------------------------------------------------
Serve == \E r \in Requests :
  \/ RetrieveRecords(r) \/ SendAll(r)
  \/ \E target \in Records \cup {NoRecord} :
       SendRecord(r, target) \/ \E n \in Properties : FetchTable(r, target, n)

CarrySome == \E b \in DOMAIN batches : Carry(b)

Decide == \E b \in DOMAIN batches : CommitTxns(b) \/ InvalidateTxns(b)

RequestsNext == (\E r \in Requests : StartRequest(r)) \/ Serve \/ CarrySome \/ Decide \/ SyncRecords

(* As for CoinExchange.                                                    *)
RequestsSpec ==
  /\ RequestsInit /\ [][RequestsNext]_requestVars
  /\ WF_requestVars(Serve) /\ WF_requestVars(CarrySome) /\ WF_requestVars(Decide)

-----------------------------------------------------------------------------
(* Requests are well formed, and so is the ledger they write.              *)
RequestsTypeOK == TypeOK /\ BatchesOK /\ IsStore(requests, Requests, Request)

Booked(b) == b \in DOMAIN batches /\ batches[b].fate = "committed"

\* The names of record rec that have a value of request r.
Values(r, rec) == {n \in Properties : \E v \in Reported(Stored, rec, n) : v.timestamp = r}

(* An update reaches all the properties it names, of each record it finds, *)
(* or none, although every name is looked up by a query of its own that    *)
(* nobody waits for.                                                       *)
UpdatesWhole ==
  \A r \in DOMAIN requests, rec \in DOMAIN records :
    Kind(r) = "update" => Values(r, rec) \in {{}, requests[r].ask.data}

(* A record is created with a value for every property its table requires, *)
(* although what the request sends depends on which of its queries have    *)
(* come back: what comes too late is refused, or was not required.         *)
RequiredReported ==
  [][\A rec \in DOMAIN records' \ DOMAIN records : \A n \in DOMAIN tables[records'[rec].table] :
       tables[records'[rec].table][n].required => Reported(Stored, rec, n)' # {}]_requestVars

(* A record is deleted just if a deletion found it; and a deletion that    *)
(* found a record deletes every record of the table that its copy of the   *)
(* database had, for it fails if any of them does not match its query.     *)
DeletedAsAsked ==
  LET deletions == {b \in DOMAIN batches : batches[b].txns.ask.kind = "delete" /\ Booked(b)}
  IN  /\ \A rec \in DOMAIN records :
           records[rec].final <=> \E b \in deletions : rec \in batches[b].txns.targets
      /\ \A b \in deletions : batches[b].txns.targets \subseteq DOMAIN records

\* What request r has to submit in the end.
Due(r) == IF Kind(r) \in {"create", "update"} THEN requests[r].targets ELSE {NoRecord}

(* Every request submits what it has to and hears of it, even if a record  *)
(* it found has been deleted, or a name it was given is unknown.           *)
RequestsAnswered ==
  <>[](\A r \in DOMAIN requests : \A target \in Due(r) : Answered(<<r, target>>))
=============================================================================
