---------------------------- MODULE RequestProofs ----------------------------
(***************************************************************************)
(* Requests about tables and records, for any number of them.              *)
(*                                                                         *)
(* TypeInv is the types of the ledger, the batches and the requests, and   *)
(* what ties them: a batch says what its request asked, for the request    *)
(* and the record its id names.  BookedStep is the step of every proof     *)
(* about the ledger: a step leaves the ledger and the committed batches    *)
(* alone, or it applies the transactions of one batch, which is committed  *)
(* then and never was before.  So what the ledger has of the requests is   *)
(* what the committed batches say: DeletedInv for the deletions, PagesInv  *)
(* for the values that were reported.                                      *)
(***************************************************************************)
EXTENDS RecordRequests, ProcessorProofs, BatchProofs

\* Requests are among those that may be made, and a new record has one id.
AskedInv == \A r \in DOMAIN requests :
  /\ requests[r].ask \in Asks[r]
  /\ requests[r].ask.kind = "create" => requests[r].targets = {requests[r].ask.record}

\* What a batch is for is in its id, and what it says is in its request.
SentInv == \A b \in DOMAIN batches :
  /\ b[1] \in DOMAIN requests /\ b[2] \in Records \cup {NoRecord}
  /\ batches[b].txns.ask = requests[b[1]].ask
  /\ batches[b].txns.ts = b[1] /\ batches[b].txns.record = b[2]
  /\ batches[b].txns.targets \subseteq Records \cup {NoRecord}
  /\ batches[b].txns.names \subseteq Properties
  /\ batches[b].txns.ask.kind = "create" => b[2] = batches[b].txns.ask.record

CopyInv == DOMAIN copy.records \subseteq Records

TypeInv ==
  /\ TypeOK /\ SubmitInv /\ IsStore(requests, Requests, Request)
  /\ AskedInv /\ SentInv /\ CopyInv

Targets == Records \cup {NoRecord}

-----------------------------------------------------------------------------
(* What a step may be. *)

(* The transactions of one batch, and the handlers that apply them.        *)
Applies(t) == CreatesTables(t) \/ Creates(t) \/ Updates(t) \/ Deletes(t) \/ Offers(t) \/ Empty(t)

Sends(r, target) ==
  /\ r \in Requests /\ target \in Targets
  /\ SendRecord(r, target) \/ (target = NoRecord /\ SendAll(r))

LEMMA RequestSteps ==
  ASSUME RequestsNext
  PROVE  \/ \E r \in Requests : StartRequest(r)
         \/ \E r \in Requests : RetrieveRecords(r)
         \/ \E r \in Requests, target \in Targets, n \in Properties : FetchTable(r, target, n)
         \/ \E r \in Requests, target \in Targets : Sends(r, target)
         \/ \E b \in DOMAIN batches : Carry(b)
         \/ \E b \in DOMAIN batches : CommitTxns(b)
         \/ \E b \in DOMAIN batches : InvalidateTxns(b)
         \/ SyncRecords
<1>1. CASE Serve
  BY <1>1, Zenon DEF Serve, Sends, Targets
<1>2. CASE CarrySome \/ Decide
  BY <1>2 DEF CarrySome, Decide
<1> QED
  BY <1>1, <1>2 DEF RequestsNext

(* Who sends what: the transactions are the request's own, and no step     *)
(* changes what a request asks for.                                        *)
LEMMA Sending ==
  ASSUME TypeInv, NEW r, NEW target, Sends(r, target)
  PROVE  /\ r \in DOMAIN requests /\ r \in Requests /\ target \in Targets
         /\ Txns(r, target) \in Content
         /\ Txns(r, target).ask = requests[r].ask
         /\ Txns(r, target).ts = r /\ Txns(r, target).record = target
         /\ Txns(r, target).targets = requests[r].targets
         /\ Txns(r, target).names = {n \in Properties : <<target, n>> \in requests[r].filled}
         /\ requests[r].targets \subseteq Targets
         /\ requests[r].ask.kind \in {"create", "update"} => target \in requests[r].targets
         /\ <<r, target>> \in BatchIds
         /\ Submit(<<r, target>>, Txns(r, target), TRUE)
         /\ requests' = [requests EXCEPT ![r].sent = @ \cup {target}]
         /\ UNCHANGED <<ledgerVars, copy>>
<1>1. /\ r \in DOMAIN requests /\ r \in Requests /\ target \in Targets
      /\ requests[r].ask.kind \in {"create", "update"} => target \in requests[r].targets
      /\ Send(r, target)
  BY DEF Sends, SendRecord, SendAll, Kind
<1>2. requests[r] \in Request /\ requests[r].ask \in Asks[r]
  BY <1>1 DEF TypeInv, IsStore, AskedInv
<1>3. requests[r].targets \subseteq Targets
  BY <1>2 DEF Request, Targets
<1>4. Txns(r, target) \in Content
  <2> DEFINE names == {n \in Properties : <<target, n>> \in requests[r].filled}
  <2>1. names \in SUBSET Properties
    OBVIOUS
  <2>2. Txns(r, target) = [ask |-> requests[r].ask, ts |-> r, record |-> target,
                           targets |-> requests[r].targets, names |-> names]
    BY DEF Txns
  <2> HIDE DEF names
  <2> QED
    BY <1>1, <1>2, <1>3, <2>1, <2>2, ContentAssumption DEF Targets
<1>5. /\ Txns(r, target).ask = requests[r].ask
      /\ Txns(r, target).ts = r /\ Txns(r, target).record = target
      /\ Txns(r, target).targets = requests[r].targets
      /\ Txns(r, target).names = {n \in Properties : <<target, n>> \in requests[r].filled}
  BY DEF Txns
<1>6. <<r, target>> \in BatchIds
  BY <1>1, BatchesAssumption DEF Targets
<1> QED
  BY <1>1, <1>3, <1>4, <1>5, <1>6 DEF Send

(* The requests take only steps of BatchSubmit.                            *)
LEMMA RequestBatches ==
  ASSUME TypeInv, [RequestsNext]_requestVars
  PROVE  [BatchStep]_batches
<1>1. CASE UNCHANGED requestVars
  BY <1>1 DEF requestVars
<1>2. CASE \E r \in Requests : StartRequest(r) \/ RetrieveRecords(r)
  BY <1>2 DEF StartRequest, RetrieveRecords
<1>3. CASE \E r \in Requests, target \in Targets, n \in Properties : FetchTable(r, target, n)
  BY <1>3 DEF FetchTable
<1>4. ASSUME NEW r \in Requests, NEW target \in Targets, Sends(r, target)
      PROVE  BatchStep
  <2>1. /\ Txns(r, target) \in Content /\ <<r, target>> \in BatchIds
        /\ Submit(<<r, target>>, Txns(r, target), TRUE)
    BY <1>4, Sending
  <2>2. TRUE \in BOOLEAN
    OBVIOUS
  <2> QED
    BY <2>1, <2>2, Zenon DEF BatchStep
<1>5. ASSUME NEW b \in DOMAIN batches, Carry(b) \/ CommitTxns(b) \/ InvalidateTxns(b)
      PROVE  BatchStep
  <2>1. b \in BatchIds
    BY DEF TypeInv, SubmitInv, BatchesOK
  <2> QED
    BY <1>5, <2>1, Zenon DEF BatchStep, Carry, Carried, CommitTxns, InvalidateTxns
<1>6. CASE SyncRecords
  BY <1>6 DEF SyncRecords
<1> QED
  BY <1>1, <1>2, <1>3, <1>4, <1>5, <1>6, RequestSteps

-----------------------------------------------------------------------------
(* Types. *)

(* Every batch applies the handlers to entries of the right kinds.         *)
LEMMA AppliesTyped ==
  ASSUME TypeInv, NEW b \in DOMAIN batches, Applies(batches[b].txns)
  PROVE  TypeOK'
<1> DEFINE t == batches[b].txns
           ask == t.ask
<1>1. /\ b[1] \in DOMAIN requests /\ ask = requests[b[1]].ask
      /\ t.ts = b[1] /\ t.record = b[2] /\ t.targets \subseteq Targets
      /\ t.names \subseteq Properties
      /\ ask.kind = "create" => t.record = ask.record
  BY DEF TypeInv, SentInv, Targets
<1>2. b[1] \in Requests /\ ask \in Asks[b[1]]
  BY <1>1 DEF TypeInv, IsStore, AskedInv
<1>3. /\ ask \in Ask /\ t.ts \in Timestamps
      /\ ask.kind = "tables" => ask.data \subseteq Tables
      /\ ask.kind = "create" => t.record \in Records
  BY <1>1, <1>2, AsksAssumption, RequestsAssumption
<1>4. ask.signer \in Participants /\ ask.table \in Tables
  BY <1>3 DEF Ask
<1>5. TypeOK
  BY DEF TypeInv
<1>6. DOMAIN TypesOf(t) = t.names
  BY DEF TypesOf
<1>7. CASE CreatesTables(t)
  <2> DEFINE new == [table \in ask.data |-> Catalogue[table]]
  <2>1. IsStore(new, Tables, Schemas)
    BY <1>3, <1>7, GivenAssumption DEF CreatesTables, IsStore
  <2>2. tables' = PutAll(tables, new)
    BY <1>7 DEF CreatesTables
  <2> HIDE DEF new
  <2>3. IsStore(tables', Tables, Schemas)
    BY <1>5, <2>1, <2>2, PutAllStore DEF TypeOK
  <2> QED
    BY <1>5, <1>7, <2>3 DEF TypeOK, CreatesTables
<1>8. CASE Creates(t)
  <2>1. CreateRecord(ask.signer, t.record, ask.table, TypesOf(t), t.ts) /\ t.record \in Records
    BY <1>3, <1>8 DEF Creates
  <2> HIDE DEF t, ask
  <2> QED
    BY <1>3, <1>4, <1>5, <2>1, CreateRecordType
<1>9. CASE Updates(t)
  <2>1. UpdateProperties(ask.signer, t.record, TypesOf(t), t.ts)
    BY <1>9 DEF Updates
  <2>2. t.record \in Records
    BY <1>5, <2>1 DEF UpdateProperties, OpenToUpdates, Contains, TypeOK, IsStore
  <2>3. DOMAIN TypesOf(t) \subseteq Properties
    BY <1>1, <1>6
  <2> HIDE DEF t, ask
  <2> QED
    BY <1>3, <1>4, <1>5, <2>1, <2>2, <2>3, UpdatePropertiesType
<1>10. CASE Deletes(t)
  <2> DEFINE final == [r \in t.targets |-> [records[r] EXCEPT !.final = TRUE]]
  <2>1. \A r \in t.targets : r \in DOMAIN records
    BY <1>10 DEF Deletes, MayFinalize, Contains
  <2>2. \A r \in t.targets : r \in Records /\ records[r] \in Record
    BY <1>5, <2>1 DEF TypeOK, IsStore
  <2>3. \A r \in t.targets : [records[r] EXCEPT !.final = TRUE] \in Record
    BY <2>2 DEF Record
  <2>4. IsStore(final, Records, Record)
    BY <2>2, <2>3 DEF IsStore
  <2>5. records' = PutAll(records, final)
    BY <1>10 DEF Deletes
  <2> HIDE DEF final
  <2>6. IsStore(records', Records, Record)
    BY <1>5, <2>4, <2>5, PutAllStore DEF TypeOK
  <2> QED
    BY <1>5, <1>10, <2>6 DEF TypeOK, Deletes
<1>11. CASE Offers(t)
  <2>1. PICK last \in t.targets : CreateProposal(ask.signer, Offer(ask, last))
    BY <1>11 DEF Offers
  <2>2. Offer(ask, last) \in ProposalPayload
    BY <1>1, <1>3, <2>1 DEF Offer, ProposalPayload, Ask, Targets, Roles, RecordRoles
  <2> DEFINE c == Offer(ask, last)
  <2>3. c \in ProposalPayload /\ CreateProposal(ask.signer, c)
    BY <2>1, <2>2
  <2> HIDE DEF c, t, ask
  <2> QED
    BY <1>4, <1>5, <2>3, CreateProposalType
<1>12. CASE Empty(t)
  BY <1>5, <1>12 DEF Empty, ledgerVars, TypeOK
<1> QED
  BY <1>7, <1>8, <1>9, <1>10, <1>11, <1>12 DEF Applies

LEMMA LedgerTyped ==
  ASSUME TypeInv, [RequestsNext]_requestVars
  PROVE  TypeOK'
<1>1. CASE UNCHANGED ledgerVars
  BY <1>1 DEF TypeInv, TypeOK, ledgerVars
<1>2. ASSUME NEW b \in DOMAIN batches, CommitTxns(b)
      PROVE  TypeOK'
  BY <1>2, AppliesTyped DEF CommitTxns, Applies
<1>3. ASSUME NEW r \in Requests, NEW target \in Targets, Sends(r, target)
      PROVE  UNCHANGED ledgerVars
  BY <1>3, Sending
<1> QED
  BY <1>1, <1>2, <1>3, RequestSteps
  DEF requestVars, StartRequest, RetrieveRecords, FetchTable, Carry, InvalidateTxns, SyncRecords

(* What the database returns are ids of records, or empty objects.         *)
LEMMA Retrieved ==
  ASSUME CopyInv, NEW t, NEW query
  PROVE  RetrievedRecords(copy, t, query) \subseteq Targets
BY DEF CopyInv, RetrievedRecords, Undeleted, Targets

(* The requests stay well formed, and ask for what they asked.             *)
LEMMA RequestsTyped ==
  ASSUME TypeInv, [RequestsNext]_requestVars
  PROVE  /\ IsStore(requests, Requests, Request)' /\ AskedInv'
         /\ \A r \in DOMAIN requests :
              r \in DOMAIN requests' /\ requests'[r].ask = requests[r].ask
<1> DEFINE Goal == /\ IsStore(requests, Requests, Request)' /\ AskedInv'
                   /\ \A r \in DOMAIN requests :
                        r \in DOMAIN requests' /\ requests'[r].ask = requests[r].ask
<1> SUFFICES Goal
  OBVIOUS
<1>1. CASE UNCHANGED requests
  BY <1>1 DEF TypeInv, IsStore, AskedInv
<1>2. ASSUME NEW r \in Requests, StartRequest(r)
      PROVE  Goal
  <2>1. PICK ask \in Asks[r] : requests' = Put(requests, r,
          [ask |-> ask, listed |-> FALSE, filled |-> {}, sent |-> {},
           targets |-> IF ask.kind = "create" THEN {ask.record} ELSE {}])
        /\ r \notin DOMAIN requests
    BY <1>2 DEF StartRequest
  <2> DEFINE new == [ask |-> ask, listed |-> FALSE, filled |-> {}, sent |-> {},
                     targets |-> IF ask.kind = "create" THEN {ask.record} ELSE {}]
  <2>2. ask \in Ask /\ (ask.kind = "create" => ask.record \in Records)
    BY AsksAssumption
  <2>3. new \in Request
    BY <2>2 DEF Request
  <2>4. new.ask = ask /\ (ask.kind = "create" => new.targets = {ask.record})
    OBVIOUS
  <2>5. requests' = Put(requests, r, new)
    BY <2>1
  <2> HIDE DEF new
  <2>6. /\ IsStore(requests', Requests, Request)
        /\ DOMAIN requests' = DOMAIN requests \cup {r} /\ requests'[r] = new
        /\ \A k \in DOMAIN requests \ {r} : requests'[k] = requests[k]
    <3>1. IsStore(requests, Requests, Request)
      BY DEF TypeInv
    <3> QED
      BY <2>3, <2>5, <3>1, PutStore
  <2>7. r \notin DOMAIN requests /\ ask \in Asks[r]
    BY <2>1
  <2>8. \A q \in DOMAIN requests : requests'[q] = requests[q]
    BY <2>6, <2>7
  <2>9. AskedInv'
    BY <2>4, <2>6, <2>7, <2>8 DEF TypeInv, AskedInv
  <2> QED
    BY <2>6, <2>8, <2>9
<1>3. ASSUME NEW r \in DOMAIN requests, NEW new \in Request,
             requests' = [requests EXCEPT ![r] = new],
             new.ask = requests[r].ask,
             new.ask.kind = "create" => new.targets = requests[r].targets
      PROVE  Goal
  <2>1. /\ DOMAIN requests' = DOMAIN requests /\ requests'[r] = new
        /\ \A k \in DOMAIN requests : k # r => requests'[k] = requests[k]
        /\ requests' = [k \in DOMAIN requests' |-> requests'[k]]
    BY <1>3 DEF TypeInv, IsStore
  <2> QED
    BY <1>3, <2>1 DEF TypeInv, IsStore, AskedInv
<1> HIDE DEF Goal
<1>4. \A r \in DOMAIN requests : requests[r] \in Request /\ r \in Requests
  BY DEF TypeInv, IsStore
<1>5. ASSUME NEW r \in Requests, RetrieveRecords(r) PROVE Goal
  <2> DEFINE list == RetrievedRecords(copy, requests[r].ask.table, requests[r].ask.query)
             new == [requests[r] EXCEPT !.listed = TRUE, !.targets = list]
  <2>1. list \in SUBSET Targets
    BY Retrieved DEF TypeInv
  <2>2. /\ r \in DOMAIN requests /\ requests[r].ask.kind # "create"
        /\ requests' = [requests EXCEPT ![r] = new]
    BY <1>5 DEF RetrieveRecords, Kind
  <2> HIDE DEF list
  <2>3. new \in Request /\ new.ask = requests[r].ask
    BY <1>4, <2>1, <2>2 DEF Request, Targets
  <2> HIDE DEF new
  <2> QED
    BY <1>3, <2>2, <2>3
<1>6. ASSUME NEW r \in Requests, NEW target \in Targets, NEW n \in Properties,
             FetchTable(r, target, n)
      PROVE  Goal
  <2> DEFINE new == [requests[r] EXCEPT !.filled = @ \cup {<<target, n>>}]
  <2>1. /\ r \in DOMAIN requests
        /\ requests' = [requests EXCEPT ![r] = new]
    BY <1>6 DEF FetchTable
  <2>2. new \in Request /\ new.ask = requests[r].ask /\ new.targets = requests[r].targets
    BY <1>4, <2>1 DEF Request, Targets
  <2> HIDE DEF new
  <2> QED
    BY <1>3, <2>1, <2>2
<1>7. ASSUME NEW r \in Requests, NEW target \in Targets, Sends(r, target)
      PROVE  Goal
  <2> DEFINE new == [requests[r] EXCEPT !.sent = @ \cup {target}]
  <2>1. /\ r \in DOMAIN requests
        /\ requests' = [requests EXCEPT ![r].sent = @ \cup {target}]
    BY <1>7, Sending
  <2>2. requests' = [requests EXCEPT ![r] = new]
    BY <2>1
  <2>3. new \in Request /\ new.ask = requests[r].ask /\ new.targets = requests[r].targets
    BY <1>4, <2>1 DEF Request, Targets
  <2> HIDE DEF new
  <2> QED
    BY <1>3, <2>1, <2>2, <2>3
<1>8. CASE UNCHANGED requestVars \/ SyncRecords
           \/ \E b \in DOMAIN batches : Carry(b) \/ CommitTxns(b) \/ InvalidateTxns(b)
  BY <1>1, <1>8 DEF requestVars, SyncRecords, Carry, CommitTxns, InvalidateTxns, Goal
<1> QED
  BY <1>2, <1>5, <1>6, <1>7, <1>8, RequestSteps

(* What a batch says stays what it said, and a new batch says what its     *)
(* request is.                                                             *)
LEMMA BatchesKept ==
  ASSUME TypeInv, [RequestsNext]_requestVars
  PROVE  /\ \A c \in DOMAIN batches :
              c \in DOMAIN batches' /\ batches'[c].txns = batches[c].txns
         /\ \A c \in DOMAIN batches' \ DOMAIN batches :
              \E r, target : /\ c = <<r, target>> /\ Sends(r, target)
                             /\ batches'[c].txns = Txns(r, target)
                             /\ batches'[c].fate = "none"
<1> DEFINE Goal == /\ \A c \in DOMAIN batches :
                        c \in DOMAIN batches' /\ batches'[c].txns = batches[c].txns
                   /\ \A c \in DOMAIN batches' \ DOMAIN batches :
                        \E r, target : /\ c = <<r, target>> /\ Sends(r, target)
                                       /\ batches'[c].txns = Txns(r, target)
                                       /\ batches'[c].fate = "none"
<1> SUFFICES Goal
  OBVIOUS
<1>1. CASE UNCHANGED batches
  BY <1>1
<1>2. ASSUME NEW b \in DOMAIN batches, Carry(b) \/ CommitTxns(b) \/ InvalidateTxns(b)
      PROVE  Goal
  <2>1. Carried(b) \/ Commit(b) \/ Invalidate(b)
    BY <1>2 DEF Carry, CommitTxns, InvalidateTxns
  <2>2. SubmitInv
    BY DEF TypeInv
  <2>3. /\ DOMAIN batches' = DOMAIN batches
        /\ \A c \in DOMAIN batches : c # b => batches'[c] = batches[c]
        /\ batches'[b].txns = batches[b].txns
    BY <2>1, <2>2, TransactionsStay
  <2> QED
    BY <2>3
<1>3. ASSUME NEW r \in Requests, NEW target \in Targets, Sends(r, target)
      PROVE  Goal
  <2> DEFINE new == [txns |-> Txns(r, target), wait |-> TRUE, stage |-> "sent",
                     fate |-> "none", told |-> "none", answer |-> "none"]
             id == <<r, target>>
  <2>1. id \notin DOMAIN batches /\ Update(id, new)
    BY <1>3, Sending DEF Submit
  <2>2. new.txns = Txns(r, target) /\ new.fate = "none"
    OBVIOUS
  <2> HIDE DEF new
  <2>3. /\ DOMAIN batches' = DOMAIN batches \cup {id}
        /\ batches'[id] = new
        /\ \A c \in DOMAIN batches : batches'[c] = batches[c]
    BY <2>1 DEF Update
  <2> QED
    BY <1>3, <2>2, <2>3
<1> HIDE DEF Goal
<1>4. CASE UNCHANGED requestVars \/ SyncRecords
           \/ \E r \in Requests :
                \/ StartRequest(r) \/ RetrieveRecords(r)
                \/ \E target \in Targets, n \in Properties : FetchTable(r, target, n)
  BY <1>1, <1>4 DEF requestVars, SyncRecords, StartRequest, RetrieveRecords, FetchTable
<1> QED
  BY <1>2, <1>3, <1>4, RequestSteps

LEMMA SentKept ==
  ASSUME TypeInv, [RequestsNext]_requestVars
  PROVE  SentInv'
<1> SUFFICES ASSUME NEW b \in DOMAIN batches'
             PROVE  /\ b[1] \in DOMAIN requests' /\ b[2] \in Targets
                    /\ batches'[b].txns.ask = requests'[b[1]].ask
                    /\ batches'[b].txns.ts = b[1] /\ batches'[b].txns.record = b[2]
                    /\ batches'[b].txns.targets \subseteq Targets
                    /\ batches'[b].txns.names \subseteq Properties
                    /\ batches'[b].txns.ask.kind = "create"
                         => b[2] = batches'[b].txns.ask.record
  BY DEF SentInv, Targets
<1>1. \A r \in DOMAIN requests : r \in DOMAIN requests' /\ requests'[r].ask = requests[r].ask
  BY RequestsTyped
<1>2. CASE b \in DOMAIN batches
  <2>1. batches'[b].txns = batches[b].txns
    BY <1>2, BatchesKept
  <2> QED
    BY <1>1, <1>2, <2>1 DEF TypeInv, SentInv, Targets
<1>3. CASE b \notin DOMAIN batches
  <2>1. PICK r, target : /\ b = <<r, target>> /\ Sends(r, target)
                         /\ batches'[b].txns = Txns(r, target)
    BY <1>3, BatchesKept
  <2> DEFINE t == Txns(r, target)
  <2>2. /\ r \in DOMAIN requests /\ target \in Targets
        /\ t.ask = requests[r].ask /\ t.ts = r /\ t.record = target
        /\ t.targets = requests[r].targets
        /\ t.names \subseteq Properties
        /\ requests[r].targets \subseteq Targets
        /\ requests[r].ask.kind \in {"create", "update"} => target \in requests[r].targets
    <3>1. Sends(r, target)
      BY <2>1
    <3>2. t.names \subseteq Properties
      BY DEF Txns
    <3>3. /\ r \in DOMAIN requests /\ target \in Targets
          /\ t.ask = requests[r].ask /\ t.ts = r /\ t.record = target
          /\ t.targets = requests[r].targets
      <4>1. t.ask = requests[r].ask /\ t.ts = r /\ t.record = target
        BY DEF Txns
      <4>2. r \in DOMAIN requests /\ target \in Targets /\ t.targets = requests[r].targets
        BY <3>1, Sending
      <4> QED
        BY <4>1, <4>2
    <3>4. /\ requests[r].targets \subseteq Targets
          /\ requests[r].ask.kind \in {"create", "update"} => target \in requests[r].targets
      BY <3>1, Sending
    <3> QED
      BY <3>2, <3>3, <3>4
  <2>3. requests[r].ask.kind = "create" => requests[r].targets = {requests[r].ask.record}
    BY <2>2 DEF TypeInv, AskedInv
  <2> HIDE DEF t
  <2>4. batches'[b].txns = t /\ b[1] = r /\ b[2] = target
    BY <2>1 DEF t
  <2> QED
    BY <1>1, <2>2, <2>3, <2>4
<1> QED
  BY <1>2, <1>3

LEMMA CopyKept ==
  ASSUME TypeInv, [RequestsNext]_requestVars
  PROVE  CopyInv'
<1>1. CASE UNCHANGED copy
  BY <1>1 DEF TypeInv, CopyInv
<1>2. CASE SyncRecords
  BY <1>2 DEF SyncRecords, Stored, TypeInv, TypeOK, IsStore, CopyInv
<1>3. ASSUME NEW r \in Requests, NEW target \in Targets, Sends(r, target)
      PROVE  UNCHANGED copy
  BY <1>3, Sending
<1>4. CASE \/ UNCHANGED requestVars
           \/ \E r \in Requests :
                \/ StartRequest(r) \/ RetrieveRecords(r)
                \/ \E target \in Targets, n \in Properties : FetchTable(r, target, n)
           \/ \E b \in DOMAIN batches : Carry(b) \/ CommitTxns(b) \/ InvalidateTxns(b)
  BY <1>1, <1>4 DEF requestVars, StartRequest, RetrieveRecords, FetchTable, Carry, CommitTxns,
                    InvalidateTxns
<1> QED
  BY <1>1, <1>2, <1>3, <1>4, RequestSteps

LEMMA InitTyped == RequestsInit => TypeInv
<1> SUFFICES ASSUME RequestsInit PROVE TypeInv
  OBVIOUS
<1>1. SubmitInv
  BY SubmitInit DEF RequestsInit
<1>2. requests = EmptyStore /\ batches = NoBatches
  BY DEF RequestsInit, InitBatches
<1>3. IsStore(requests, Requests, Request) /\ AskedInv /\ SentInv
  BY <1>2 DEF IsStore, AskedInv, SentInv, EmptyStore, NoBatches
<1>4. IsStore(participants, Participants, Participant)
  BY DEF RequestsInit, IsStore, NewParticipant, Participant
<1>5. IsStore(tables, Tables, Schemas)
  BY GivenAssumption DEF RequestsInit, IsStore
<1>6. \A r \in DOMAIN GivenRecords :
        /\ r \in Records /\ GivenRecords[r].table \in Tables
        /\ GivenRecords[r].owner \in Participants /\ GivenRecords[r].timestamp \in Timestamps
        /\ Catalogue[GivenRecords[r].table] \in Schemas
  BY GivenAssumption
<1>7. IsStore(records, Records, Record)
  BY <1>6 DEF RequestsInit, IsStore, Record
<1>8. IsStore(properties, Records \X Properties, Property)
  <2> DEFINE S == {q \in (DOMAIN GivenRecords) \X Properties :
                     q[2] \in DOMAIN Catalogue[GivenRecords[q[1]].table]}
             new(k) == NewProperty(GivenRecords[k[1]].owner,
                                   Catalogue[GivenRecords[k[1]].table][k[2]])
  <2>1. ASSUME NEW k \in S PROVE k \in Records \X Properties /\ new(k) \in Property
    <3>1. /\ k[1] \in DOMAIN GivenRecords /\ k[1] \in Records /\ k[2] \in Properties
          /\ GivenRecords[k[1]].owner \in Participants
      BY <1>6
    <3>2. Catalogue[GivenRecords[k[1]].table][k[2]] \in PropertySchema
      BY <1>6, <3>1, SchemasAssumption
    <3>3. k = <<k[1], k[2]>>
      OBVIOUS
    <3>4. new(k) \in Property
      BY <3>1, <3>2 DEF NewProperty, NewReporter, Property, Reporter, PropertySchema
    <3> QED
      BY <3>1, <3>3, <3>4
  <2>2. properties = [k \in S |-> new(k)]
    BY DEF RequestsInit
  <2> HIDE DEF S, new
  <2> QED
    BY <2>1, <2>2 DEF IsStore
<1>9. IsStore(pages, Records \X Properties \X Nat, Seq(ReportedValue))
  <2> DEFINE S == {<<q[1], q[2], 1>> : q \in DOMAIN properties}
             first(k) == <<[timestamp |-> GivenRecords[k[1]].timestamp, reporterIndex |-> 0]>>
  <2>1. ASSUME NEW k \in S
        PROVE  k \in Records \X Properties \X Nat /\ first(k) \in Seq(ReportedValue)
    <3>1. PICK q \in DOMAIN properties : k = <<q[1], q[2], 1>>
      OBVIOUS
    <3>2. q \in (DOMAIN GivenRecords) \X Properties
      BY DEF RequestsInit
    <3>3. k[1] \in DOMAIN GivenRecords /\ k \in Records \X Properties \X Nat
      BY <1>6, <3>1, <3>2
    <3>4. [timestamp |-> GivenRecords[k[1]].timestamp, reporterIndex |-> 0] \in ReportedValue
      BY <1>6, <3>3 DEF ReportedValue
    <3> QED
      BY <3>3, <3>4
  <2>2. pages = [k \in S |-> first(k)]
    BY DEF RequestsInit
  <2> HIDE DEF S, first
  <2> QED
    BY <2>1, <2>2 DEF IsStore
<1>10. IsStore(proposals, ProposalIds, Proposal) /\ exchanges \subseteq ProposalIds \X ProposalIds
  BY DEF RequestsInit, EmptyStore, IsStore
<1>11. CopyInv
  BY <1>7 DEF RequestsInit, Stored, CopyInv, IsStore
<1> QED
  BY <1>1, <1>3, <1>4, <1>5, <1>7, <1>8, <1>9, <1>10, <1>11 DEF TypeInv, TypeOK

LEMMA SubmitKept ==
  ASSUME TypeInv, [RequestsNext]_requestVars
  PROVE  SubmitInv'
BY RequestBatches, StepKeeps, StutterKeeps DEF TypeInv

LEMMA TypeKept == TypeInv /\ [RequestsNext]_requestVars => TypeInv'
BY LedgerTyped, RequestsTyped, SentKept, CopyKept, SubmitKept DEF TypeInv

LEMMA TypeInductive == RequestsSpec => []TypeInv
<1>1. RequestsInit => TypeInv
  BY InitTyped
<1>2. TypeInv /\ [RequestsNext]_requestVars => TypeInv'
  BY TypeKept
<1> QED
  BY <1>1, <1>2, PTL DEF RequestsSpec

(* Whatever is asked for, however late its queries come, the requests, the *)
(* batches and the ledger they write are well formed.                      *)
THEOREM RequestsAreTyped == RequestsSpec => []RequestsTypeOK
<1>1. TypeInv => RequestsTypeOK
  BY DEF TypeInv, SubmitInv, RequestsTypeOK
<1> QED
  BY <1>1, TypeInductive, PTL

(* Every batch a request sends keeps the promise of Submission: whoever is *)
(* told that its update or its deletion is committed can rely on it.       *)
THEOREM RequestsPromise == RequestsSpec => PromiseKept
<1>1. RequestsInit => InitBatches
  BY DEF RequestsInit
<1>2. TypeInv /\ [RequestsNext]_requestVars => [BatchStep]_batches
  BY RequestBatches
<1>3. RequestsSpec => SubmitSpec
  BY <1>1, <1>2, TypeInductive, PTL DEF RequestsSpec, SubmitSpec
<1> QED
  BY <1>3, SubmitPromise

-----------------------------------------------------------------------------
(* What the ledger has of the requests is what committed batches did. *)

(* A step commits one batch, which did what it says, or it leaves the      *)
(* ledger as it is.                                                        *)
LEMMA BookedStep ==
  ASSUME TypeInv, [RequestsNext]_requestVars
  PROVE  \/ UNCHANGED ledgerVars /\ \A c : Booked(c)' <=> Booked(c)
         \/ \E b \in DOMAIN batches :
              /\ Applies(batches[b].txns) /\ ~Booked(b) /\ Booked(b)'
              /\ \A c : c # b => (Booked(c)' <=> Booked(c))
<1> DEFINE Same == \A c : Booked(c)' <=> Booked(c)
           Quiet == UNCHANGED ledgerVars /\ Same
           Goal == \/ Quiet
                   \/ \E b \in DOMAIN batches :
                        /\ Applies(batches[b].txns) /\ ~Booked(b) /\ Booked(b)'
                        /\ \A c : c # b => (Booked(c)' <=> Booked(c))
<1> SUFFICES Goal
  OBVIOUS
<1>1. UNCHANGED batches => Same
  BY DEF Booked
<1>2. ASSUME NEW b \in DOMAIN batches, Carry(b) \/ CommitTxns(b) \/ InvalidateTxns(b)
      PROVE  Goal
  <2>1. Carried(b) \/ Commit(b) \/ Invalidate(b)
    BY <1>2 DEF Carry, CommitTxns, InvalidateTxns
  <2>2. SubmitInv
    BY DEF TypeInv
  <2>3. /\ DOMAIN batches' = DOMAIN batches
        /\ \A c \in DOMAIN batches : c # b => batches'[c] = batches[c]
        /\ Commit(b) => batches[b].fate = "pending" /\ batches'[b].fate = "committed"
        /\ ~Commit(b) => (batches'[b].fate = "committed" <=> batches[b].fate = "committed")
    BY <2>1, <2>2, TransactionsStay
  <2>4. \A c : c # b => (Booked(c)' <=> Booked(c))
    BY <2>3 DEF Booked
  <2>5. CASE CommitTxns(b)
    <3>1. Commit(b) /\ Applies(batches[b].txns)
      BY <2>5 DEF CommitTxns, Applies
    <3>2. ~Booked(b) /\ Booked(b)'
      BY <2>3, <3>1 DEF Booked
    <3> QED
      BY <2>4, <3>1, <3>2
  <2>6. CASE ~Commit(b) /\ (Carry(b) \/ InvalidateTxns(b))
    <3>1. UNCHANGED ledgerVars
      BY <2>6 DEF Carry, InvalidateTxns
    <3>2. Booked(b)' <=> Booked(b)
      BY <2>3, <2>6 DEF Booked
    <3> QED
      BY <2>4, <3>1, <3>2
  <2>7. CASE Commit(b) /\ (Carry(b) \/ InvalidateTxns(b))
    BY <2>2, <2>7, CommitsOnly DEF Carry, InvalidateTxns
  <2> QED
    BY <1>2, <2>5, <2>6, <2>7
<1>3. ASSUME NEW r \in Requests, NEW target \in Targets, Sends(r, target)
      PROVE  Quiet
  <2> DEFINE new == [txns |-> Txns(r, target), wait |-> TRUE, stage |-> "sent",
                     fate |-> "none", told |-> "none", answer |-> "none"]
             id == <<r, target>>
  <2>1. id \notin DOMAIN batches /\ Update(id, new) /\ UNCHANGED ledgerVars
    BY <1>3, Sending DEF Submit
  <2>2. new.fate = "none"
    OBVIOUS
  <2> HIDE DEF new
  <2>3. /\ DOMAIN batches' = DOMAIN batches \cup {id}
        /\ batches'[id] = new
        /\ \A c \in DOMAIN batches : batches'[c] = batches[c]
    BY <2>1 DEF Update
  <2> QED
    BY <2>1, <2>2, <2>3 DEF Booked
<1> HIDE DEF Same
<1>4. CASE UNCHANGED requestVars \/ SyncRecords
           \/ \E r \in Requests :
                \/ StartRequest(r) \/ RetrieveRecords(r)
                \/ \E target \in Targets, n \in Properties : FetchTable(r, target, n)
  BY <1>1, <1>4 DEF requestVars, SyncRecords, StartRequest, RetrieveRecords, FetchTable
<1> HIDE DEF Quiet
<1>5. Quiet => Goal
  OBVIOUS
<1> HIDE DEF Goal
<1> QED
  BY <1>2, <1>3, <1>4, <1>5, RequestSteps

Deletions == {b \in DOMAIN batches : batches[b].txns.ask.kind = "delete" /\ Booked(b)}

\* DeletedAsAsked, record by record.
DeletedInv ==
  /\ \A rec \in DOMAIN records :
       records[rec].final <=> \E b \in Deletions : rec \in batches[b].txns.targets
  /\ \A b \in Deletions : batches[b].txns.targets \subseteq DOMAIN records

(* A deletion that is committed is one more.                               *)
LEMMA DeletionsGrow ==
  ASSUME TypeInv, [RequestsNext]_requestVars, NEW b,
         \A c : c # b => (Booked(c)' <=> Booked(c)),
         Booked(b) => Booked(b)', b \in DOMAIN batches
  PROVE  /\ Deletions' = IF Booked(b)' /\ batches[b].txns.ask.kind = "delete"
                         THEN Deletions \cup {b} ELSE Deletions
         /\ \A c \in Deletions \cup {b} : batches'[c].txns = batches[c].txns
<1>1. \A c \in DOMAIN batches : c \in DOMAIN batches' /\ batches'[c].txns = batches[c].txns
  BY BatchesKept
<1>2. \A c : Booked(c) => c \in DOMAIN batches
  BY DEF Booked
<1>3. \A c : Booked(c)' => c \in DOMAIN batches'
  BY DEF Booked
<1>4. \A c : c \in Deletions <=> Booked(c) /\ batches[c].txns.ask.kind = "delete"
  BY <1>2 DEF Deletions
<1>5. \A c : c \in Deletions' <=> Booked(c)' /\ batches'[c].txns.ask.kind = "delete"
  BY <1>3 DEF Deletions
<1>6. \A c : c \in Deletions' <=>
               c \in Deletions \/ (c = b /\ Booked(b)' /\ batches[b].txns.ask.kind = "delete")
  <2> SUFFICES ASSUME NEW c
               PROVE  c \in Deletions' <=>
                        c \in Deletions \/ (c = b /\ Booked(b)' /\ batches[b].txns.ask.kind = "delete")
    OBVIOUS
  <2>1. batches'[b].txns = batches[b].txns
    BY <1>1
  <2>2. CASE c = b
    BY <1>4, <1>5, <2>1, <2>2
  <2>3. CASE c # b
    <3>1. Booked(c)' <=> Booked(c)
      BY <2>3
    <3>2. Booked(c) => batches'[c].txns = batches[c].txns
      BY <1>1, <1>2
    <3> QED
      <4>1. CASE Booked(c)
        BY <1>4, <1>5, <2>3, <3>1, <3>2, <4>1
      <4>2. CASE ~Booked(c)
        BY <1>4, <1>5, <2>3, <3>1, <4>2
      <4> QED
        BY <4>1, <4>2
  <2> QED
    BY <2>2, <2>3
<1>7. \A c \in Deletions \cup {b} : batches'[c].txns = batches[c].txns
  BY <1>1, <1>2, <1>4
<1>8. CASE Booked(b)' /\ batches[b].txns.ask.kind = "delete"
  <2>1. Deletions' = Deletions \cup {b}
    BY <1>6, <1>8
  <2> QED
    BY <1>7, <1>8, <2>1
<1>9. CASE ~(Booked(b)' /\ batches[b].txns.ask.kind = "delete")
  <2>1. Deletions' = Deletions
    <3>1. \A c : c \in Deletions' <=> c \in Deletions
      BY <1>6, <1>9
    <3> QED
      BY <3>1 DEF Deletions
  <2> QED
    BY <1>7, <1>9, <2>1
<1> QED
  BY <1>8, <1>9

LEMMA DeletedKept ==
  ASSUME TypeInv, DeletedInv, [RequestsNext]_requestVars
  PROVE  DeletedInv'
<1>1. CASE UNCHANGED ledgerVars /\ \A c : Booked(c)' <=> Booked(c)
  <2>1. \A c \in DOMAIN batches : c \in DOMAIN batches' /\ batches'[c].txns = batches[c].txns
    BY BatchesKept
  <2>2. \A c : Booked(c) => c \in DOMAIN batches
    BY DEF Booked
  <2>3. \A c : Booked(c)' => c \in DOMAIN batches'
    BY DEF Booked
  <2>4. Deletions' = Deletions /\ \A c \in Deletions : batches'[c].txns = batches[c].txns
    BY <1>1, <2>1, <2>2, <2>3 DEF Deletions
  <2> QED
    BY <1>1, <2>4 DEF DeletedInv, ledgerVars
<1>2. ASSUME NEW b \in DOMAIN batches, Applies(batches[b].txns), ~Booked(b), Booked(b)',
             \A c : c # b => (Booked(c)' <=> Booked(c))
      PROVE  DeletedInv'
  <2> DEFINE t == batches[b].txns
             deletes == t.ask.kind = "delete"
  <2>1. /\ Deletions' = IF deletes THEN Deletions \cup {b} ELSE Deletions
        /\ \A c \in Deletions \cup {b} : batches'[c].txns = batches[c].txns
    BY <1>2, DeletionsGrow
  <2>2. CASE deletes /\ t.targets # {}
    <3>1. /\ \A r \in t.targets : Contains(records, r)
          /\ records' = PutAll(records, [r \in t.targets |-> [records[r] EXCEPT !.final = TRUE]])
      BY <1>2, <2>2 DEF Applies, CreatesTables, Creates, Updates, Deletes, Offers, Empty,
                        MayFinalize, CustodyKinds
    <3>2. \A r \in DOMAIN records : records[r] \in Record
      BY DEF TypeInv, TypeOK, IsStore
    <3>3. /\ DOMAIN records' = DOMAIN records /\ t.targets \subseteq DOMAIN records
          /\ \A r \in t.targets : records'[r].final = TRUE
          /\ \A r \in DOMAIN records : r \notin t.targets => records'[r] = records[r]
      BY <3>1, <3>2 DEF PutAll, Contains, Record
    <3>4. Deletions' = Deletions \cup {b}
      BY <2>1, <2>2
    <3> HIDE DEF t
    <3> QED
      BY <2>1, <3>3, <3>4 DEF DeletedInv, t
  <2>3. CASE deletes /\ t.targets = {}
    <3>1. UNCHANGED records
      BY <1>2, <2>3 DEF Applies, CreatesTables, Creates, Updates, Deletes, Offers, Empty,
                        CustodyKinds, ledgerVars, PutAll, TypeInv, TypeOK, IsStore
    <3>2. Deletions' = Deletions \cup {b}
      BY <2>1, <2>3
    <3> QED
      BY <2>1, <2>3, <3>1, <3>2 DEF DeletedInv
  <2>4. CASE ~deletes
    <3>1. Deletions' = Deletions
      BY <2>1, <2>4
    <3>2. CASE Creates(t)
      <4>1. /\ t.record \notin DOMAIN records
            /\ records' = Put(records, t.record,
                 [table |-> t.ask.table, owners |-> <<t.ask.signer>>,
                  custodians |-> <<t.ask.signer>>, final |-> FALSE])
        BY <3>2 DEF Creates, CreateRecord, MayCreate, Contains
      <4>2. /\ DOMAIN records' = DOMAIN records \cup {t.record}
            /\ records'[t.record].final = FALSE
            /\ \A r \in DOMAIN records : records'[r] = records[r]
        BY <4>1 DEF Put
      <4> HIDE DEF t
      <4> QED
        BY <2>1, <3>1, <4>1, <4>2 DEF DeletedInv
    <3>3. CASE ~Creates(t)
      <4>1. UNCHANGED records
        BY <1>2, <2>4, <3>3 DEF Applies, CreatesTables, Updates, UpdateProperties, Deletes,
                        Offers, CreateProposal, Empty, ledgerVars
      <4> QED
        BY <2>1, <3>1, <4>1 DEF DeletedInv
    <3> QED
      BY <3>2, <3>3
  <2> QED
    BY <2>2, <2>3, <2>4
<1> QED
  BY <1>1, <1>2, BookedStep

(* Records are deleted by committed deletions alone, each of which deletes *)
(* everything it found: retrieveRecords, then one finalization for each.   *)
THEOREM DeletionsAreExact == RequestsSpec => []DeletedAsAsked
<1>1. RequestsInit => DeletedInv
  BY GivenAssumption
  DEF RequestsInit, InitBatches, NoBatches, DeletedInv, Deletions
<1>2. TypeInv /\ DeletedInv /\ [RequestsNext]_requestVars => DeletedInv'
  BY DeletedKept
<1>3. DeletedInv => DeletedAsAsked
  BY DEF DeletedInv, DeletedAsAsked, Deletions
<1> QED
  BY <1>1, <1>2, <1>3, TypeInductive, PTL DEF RequestsSpec

-----------------------------------------------------------------------------
(* What is reported. *)

\* Page k has a value of time ts.
Timed(k, ts) == \E i \in DOMAIN pages[k] : pages[k][i].timestamp = ts

PagesOf(rec, n) == {k \in DOMAIN pages : k[1] = rec /\ k[2] = n}

LEMMA ReportedIs ==
  ASSUME NEW rec, NEW n
  PROVE  /\ \A v : v \in Reported(Stored, rec, n) <=>
                     \E k \in PagesOf(rec, n) : \E i \in DOMAIN pages[k] : pages[k][i] = v
         /\ \A v : v \in Reported(Stored, rec, n)' <=>
                     \E k \in PagesOf(rec, n)' : \E i \in DOMAIN pages'[k] : pages'[k][i] = v
BY DEF Reported, PagesFor, ValuesOf, Stored, PagesOf

\* The pages a new record gets, one for each property of its table.
FirstPages(rec, t) == {rec} \X (DOMAIN tables[t]) \X {1}
FirstPage(k, provided, ts) ==
  IF k[2] \in DOMAIN provided THEN <<[timestamp |-> ts, reporterIndex |-> 0]>> ELSE <<>>

(* A record's first pages hold what it was created with.                   *)
LEMMA CreatedPages ==
  ASSUME NEW p, NEW r, NEW t, NEW provided, NEW ts, CreateRecord(p, r, t, provided, ts)
  PROVE  /\ \A q : q \in DOMAIN pages' <=> q \in DOMAIN pages \/ q \in FirstPages(r, t)
         /\ \A k \in FirstPages(r, t) : pages'[k] = FirstPage(k, provided, ts)
         /\ \A k \in DOMAIN pages : k[1] # r => pages'[k] = pages[k]
<1> DEFINE K == FirstPages(r, t)
           first == [k \in K |-> FirstPage(k, provided, ts)]
<1>1. pages' = PutAll(pages, first)
  BY DEF CreateRecord, FirstPages, FirstPage
<1>2. \A k \in K : k[1] = r
  BY DEF FirstPages
<1>3. DOMAIN first = K
  OBVIOUS
<1>4. \A k \in K : first[k] = FirstPage(k, provided, ts)
  OBVIOUS
<1> HIDE DEF first, K
<1>5. /\ \A q : q \in DOMAIN pages' <=> q \in DOMAIN pages \/ q \in K
      /\ \A k \in K : pages'[k] = first[k]
      /\ \A k \in DOMAIN pages : k \notin K => pages'[k] = pages[k]
  BY <1>1, <1>3 DEF PutAll
<1>6. \A k \in K : pages'[k] = FirstPage(k, provided, ts)
  BY <1>4, <1>5
<1>7. \A k \in DOMAIN pages : k[1] # r => pages'[k] = pages[k]
  BY <1>2, <1>5
<1> QED
  BY <1>5, <1>6, <1>7 DEF K

LEMMA CreatedRecord ==
  ASSUME NEW p, NEW r, NEW t, NEW provided, NEW ts, CreateRecord(p, r, t, provided, ts)
  PROVE  /\ r \notin DOMAIN records /\ t \in DOMAIN tables
         /\ \A q : q \in DOMAIN records' <=> q \in DOMAIN records \/ q = r
         /\ records'[r].table = t
         /\ \A n \in DOMAIN tables[t] : tables[t][n].required => n \in DOMAIN provided
<1> DEFINE new == [table |-> t, owners |-> <<p>>, custodians |-> <<p>>, final |-> FALSE]
<1>1. /\ r \notin DOMAIN records /\ t \in DOMAIN tables /\ records' = Put(records, r, new)
      /\ \A n \in DOMAIN tables[t] : tables[t][n].required => n \in DOMAIN provided
  BY DEF CreateRecord, MayCreate, Contains, FitsSchema
<1>2. new.table = t
  OBVIOUS
<1> HIDE DEF new
<1>3. DOMAIN records' = DOMAIN records \cup {r} /\ records'[r] = new
  BY <1>1 DEF Put
<1> QED
  BY <1>1, <1>2, <1>3

(* What is required of a new record has been reported.                     *)
LEMMA CreatedReports ==
  ASSUME NEW p, NEW r, NEW t, NEW provided, NEW ts, CreateRecord(p, r, t, provided, ts),
         NEW n \in DOMAIN tables[t], tables[t][n].required
  PROVE  records'[r].table = t /\ Reported(Stored, r, n)' # {}
<1> DEFINE k == <<r, n, 1>>
           v == [timestamp |-> ts, reporterIndex |-> 0]
<1>1. \A q \in FirstPages(r, t) : q \in DOMAIN pages'
  BY CreatedPages
<1>0. \A q \in FirstPages(r, t) : pages'[q] = FirstPage(q, provided, ts)
  BY CreatedPages
<1>2. n \in DOMAIN provided
  BY CreatedRecord
<1>3. k \in FirstPages(r, t) /\ k[1] = r /\ k[2] = n
  BY DEF FirstPages
<1> HIDE DEF k
<1>4. k \in DOMAIN pages' /\ pages'[k] = <<v>>
  BY <1>0, <1>1, <1>2, <1>3 DEF FirstPage
<1> HIDE DEF v
<1>5. k \in PagesOf(r, n)' /\ 1 \in DOMAIN pages'[k] /\ pages'[k][1] = v
  BY <1>3, <1>4 DEF PagesOf
<1>6. v \in Reported(Stored, r, n)'
  BY <1>5, ReportedIs
<1> QED
  BY <1>6, CreatedRecord

LEMMA NewRecords ==
  ASSUME NEW t, Applies(t), NEW rec \in DOMAIN records', rec \notin DOMAIN records
  PROVE  /\ rec = t.record
         /\ CreateRecord(t.ask.signer, t.record, t.ask.table, TypesOf(t), t.ts)
<1>1. CASE Creates(t)
  <2>1. PICK p, r, ta, types, ts :
          /\ CreateRecord(p, r, ta, types, ts)
          /\ p = t.ask.signer /\ r = t.record /\ ta = t.ask.table /\ types = TypesOf(t) /\ ts = t.ts
    BY <1>1 DEF Creates
  <2>2. \A q : q \in DOMAIN records' <=> q \in DOMAIN records \/ q = r
    BY <2>1, CreatedRecord
  <2> QED
    BY <2>1, <2>2
<1>2. CASE Deletes(t)
  <2> DEFINE final == [r \in t.targets |-> [records[r] EXCEPT !.final = TRUE]]
  <2>1. records' = PutAll(records, final) /\ \A r \in t.targets : r \in DOMAIN records
    BY <1>2 DEF Deletes, MayFinalize, Contains
  <2>2. DOMAIN final = t.targets
    OBVIOUS
  <2> HIDE DEF final
  <2>3. DOMAIN records' = DOMAIN records
    BY <2>1, <2>2 DEF PutAll
  <2> QED
    BY <2>3
<1>3. CASE CreatesTables(t) \/ Updates(t) \/ Offers(t) \/ Empty(t)
  BY <1>3 DEF CreatesTables, Updates, UpdateProperties, Offers, CreateProposal, Empty, ledgerVars
<1> QED
  BY <1>1, <1>2, <1>3 DEF Applies

(* A new record has a value for everything its table requires, whatever    *)
(* queries came too late: createRecord sends what it has, and              *)
(* _create_record compares that with the schema.                           *)
THEOREM RequiredIsReported == RequestsSpec => RequiredReported
<1> DEFINE Step == \A rec \in DOMAIN records' \ DOMAIN records :
             \A n \in DOMAIN tables[records'[rec].table] :
               tables[records'[rec].table][n].required => Reported(Stored, rec, n)' # {}
<1>1. ASSUME TypeInv, [RequestsNext]_requestVars
      PROVE  Step
  <2> SUFFICES ASSUME NEW rec \in DOMAIN records' \ DOMAIN records,
                      NEW n \in DOMAIN tables[records'[rec].table],
                      tables[records'[rec].table][n].required
               PROVE  Reported(Stored, rec, n)' # {}
    OBVIOUS
  <2>1. ~ UNCHANGED ledgerVars
    BY DEF ledgerVars
  <2>2. PICK b \in DOMAIN batches : Applies(batches[b].txns)
    BY <1>1, <2>1, BookedStep
  <2>3. PICK p, t, types, ts : CreateRecord(p, rec, t, types, ts)
    BY <2>2, NewRecords
  <2>4. t \in DOMAIN tables /\ records'[rec].table = t
    BY <2>3, CreatedRecord
  <2> QED
    BY <2>3, <2>4, CreatedReports
<1>2. TypeInv /\ [RequestsNext]_requestVars => [Step]_requestVars
  BY <1>1
<1> HIDE DEF Step
<1>3. RequestsSpec => [][Step]_requestVars
  BY <1>2, TypeInductive, PTL DEF RequestsSpec
<1> QED
  BY <1>3 DEF Step, RequiredReported

\* A value of time ts is added to a page of each property named.
Adds(r, names, ts) ==
  /\ DOMAIN pages' = DOMAIN pages
  /\ \A n \in names : \E k \in PagesOf(r, n) : Timed(k, ts)'
  /\ \A k \in DOMAIN pages :
       \/ pages'[k] = pages[k]
       \/ /\ k[1] = r /\ k[2] \in names /\ Len(pages'[k]) = Len(pages[k]) + 1
          /\ \A q : Timed(k, q)' <=> (Timed(k, q) \/ q = ts)

(* While no page gets full, an update adds a value of its time to a page   *)
(* of each property it names, and leaves everything else as it is.         *)
LEMMA WrittenPages ==
  ASSUME TypeOK, NEW p, NEW r \in Records, NEW updates, NEW ts \in Timestamps,
         UpdateProperties(p, r, updates, ts), DOMAIN updates \subseteq Properties,
         \A k \in DOMAIN pages : k[1] = r => Len(pages[k]) + 1 < PROPERTY_PAGE_MAX_LENGTH
  PROVE  Adds(r, DOMAIN updates, ts)
<1> DEFINE Names == DOMAIN updates
           PageFor(n) == CurrentPage(r, n)
           W == {PageFor(n) : n \in Names}
           written == [k \in W |-> PageAfter(p, r, k[2], ts)]
<1>1. \A n \in Names : MayReport(p, r, n, updates[n])
  BY DEF UpdateProperties
<1>2. ASSUME NEW n \in Names
      PROVE  /\ PageFor(n) \in DOMAIN pages /\ PageFor(n)[1] = r /\ PageFor(n)[2] = n
             /\ pages[PageFor(n)] \in Seq(ReportedValue)
             /\ \E v \in ReportedValue :
                  v.timestamp = ts /\ PageAfter(p, r, n, ts) = Report(pages[PageFor(n)], v)
  <2>1. n \in Properties /\ MayReport(p, r, n, updates[n])
    BY <1>1
  <2>2. PageFor(n)[1] = r /\ PageFor(n)[2] = n
    BY DEF CurrentPage
  <2> QED
    BY <2>1, <2>2, PageAfterIs
<1>3. ASSUME NEW n \in Names
      PROVE  ~Full(PageAfter(p, r, n, ts))
  <2>1. PICK v \in ReportedValue : PageAfter(p, r, n, ts) = Report(pages[PageFor(n)], v)
    BY <1>2
  <2>2. Len(PageAfter(p, r, n, ts)) = Len(pages[PageFor(n)]) + 1
    BY <1>2, <2>1, ReportPage
  <2>3. Len(pages[PageFor(n)]) + 1 < PROPERTY_PAGE_MAX_LENGTH /\ Len(pages[PageFor(n)]) \in Nat
    BY <1>2
  <2> QED
    BY <2>2, <2>3, PageMaxAssumption DEF Full
<1>4. pages' = PutAll(pages, written)
  <2> DEFINE filled == {n \in Names : Full(PageAfter(p, r, n, ts))}
             emptied == [k \in {<<r, n, NextPage(properties[<<r, n>>].currentPage)>> :
                                   n \in filled} |-> <<>>]
  <2>1. filled = {}
    BY <1>3
  <2>2. pages' = PutAll(PutAll(pages, written), emptied)
    BY DEF UpdateProperties
  <2>3. DOMAIN emptied = {}
    BY <2>1
  <2> HIDE DEF emptied, written
  <2>4. pages' = [k \in DOMAIN PutAll(pages, written) |-> PutAll(pages, written)[k]]
    BY <2>2, <2>3 DEF PutAll
  <2> QED
    BY <2>4 DEF PutAll
<1>5. \A n \in Names : written[PageFor(n)] = PageAfter(p, r, n, ts)
  BY <1>2
<1>6. DOMAIN written = W
  OBVIOUS
<1> HIDE DEF written, PageFor
<1>7. W \subseteq DOMAIN pages
  BY <1>2
<1>8. /\ DOMAIN pages' = DOMAIN pages
      /\ \A n \in Names : pages'[PageFor(n)] = PageAfter(p, r, n, ts)
      /\ \A k \in DOMAIN pages : k \notin W => pages'[k] = pages[k]
  <2>1. /\ DOMAIN pages' = DOMAIN pages \cup W
        /\ \A k \in W : pages'[k] = written[k]
        /\ \A k \in DOMAIN pages : k \notin W => pages'[k] = pages[k]
    BY <1>4, <1>6 DEF PutAll
  <2>2. \A n \in Names : PageFor(n) \in W
    OBVIOUS
  <2>3. DOMAIN pages \cup W = DOMAIN pages
    BY <1>7
  <2> HIDE DEF W
  <2> QED
    BY <1>5, <2>1, <2>2, <2>3
<1>9. ASSUME NEW n \in Names, NEW k, k = PageFor(n)
      PROVE  /\ Len(pages'[k]) = Len(pages[k]) + 1
             /\ \A q : Timed(k, q)' <=> Timed(k, q) \/ q = ts
  <2> DEFINE page == pages[k]
             after == pages'[k]
  <2>1. PICK v \in ReportedValue : v.timestamp = ts /\ after = Report(page, v)
    BY <1>2, <1>8, <1>9
  <2>2. page \in Seq(ReportedValue)
    BY <1>2, <1>9
  <2> HIDE DEF page, after
  <2>3. Len(after) = Len(page) + 1
    BY <2>1, <2>2, ReportPage
  <2>4. \A w : (\E i \in DOMAIN after : after[i] = w) <=> (w = v \/ \E i \in DOMAIN page : page[i] = w)
    <3>1. \A w : (\E i \in DOMAIN Report(page, v) : Report(page, v)[i] = w)
                  <=> (w = v \/ \E i \in DOMAIN page : page[i] = w)
      BY <2>2, ReportValues
    <3>2. after = Report(page, v)
      BY <2>1
    <3> QED
      BY <3>1, <3>2, Zenon
  <2>5. ASSUME NEW q
        PROVE  (\E i \in DOMAIN after : after[i].timestamp = q)
               <=> ((\E i \in DOMAIN page : page[i].timestamp = q) \/ q = ts)
    BY <2>1, <2>4
  <2>6. \A q : Timed(k, q)' <=> Timed(k, q) \/ q = ts
    BY <2>5 DEF page, after, Timed
  <2> QED
    BY <2>3, <2>6 DEF page, after
<1>10. ASSUME NEW n \in Names
       PROVE  \E k \in PagesOf(r, n) : Timed(k, ts)'
  <2>1. PICK k : k = PageFor(n)
    OBVIOUS
  <2>2. k \in PagesOf(r, n)
    BY <1>2, <2>1 DEF PagesOf
  <2>3. Timed(k, ts)'
    BY <1>9, <2>1
  <2> QED
    BY <2>2, <2>3
<1>11. ASSUME NEW k \in DOMAIN pages
       PROVE  \/ pages'[k] = pages[k]
              \/ /\ k[1] = r /\ k[2] \in Names
                 /\ Len(pages'[k]) = Len(pages[k]) + 1
                 /\ \A q : Timed(k, q)' <=> Timed(k, q) \/ q = ts
  <2>1. CASE k \notin W
    BY <1>8, <2>1
  <2>2. CASE k \in W
    <3>1. PICK n \in Names : k = PageFor(n)
      BY <2>2
    <3>2. k[1] = r /\ k[2] \in Names
      BY <1>2, <3>1
    <3>3. /\ Len(pages'[k]) = Len(pages[k]) + 1
          /\ \A q : Timed(k, q)' <=> Timed(k, q) \/ q = ts
      BY <1>9, <3>1
    <3> QED
      BY <3>2, <3>3
  <2> QED
    BY <2>1, <2>2
<1> QED
  BY <1>8, <1>10, <1>11 DEF Adds

\* No page gets full, whatever the requests are.
FewRequests == IsFiniteSet(Requests) /\ Cardinality(Requests) + 1 < PROPERTY_PAGE_MAX_LENGTH

Writers(rec) == {r \in Requests : Booked(<<r, rec>>)}

\* A page has a value of a request's time just if that request reported it,
\* an update reported all it names, and no page has room for nothing more.
PagesInv ==
  /\ \A k \in DOMAIN pages : k[1] \in DOMAIN records
  /\ \A k \in DOMAIN pages, r \in Requests : Timed(k, r) =>
       Booked(<<r, k[1]>>) /\ k[2] \in batches[<<r, k[1]>>].txns.names
  /\ \A b \in DOMAIN batches : (Booked(b) /\ batches[b].txns.ask.kind = "update") =>
       /\ batches[b].txns.names = batches[b].txns.ask.data
       /\ \A n \in batches[b].txns.names : \E k \in PagesOf(b[2], n) : Timed(k, b[1])
  /\ \A k \in DOMAIN pages : Len(pages[k]) <= 1 + Cardinality(Writers(k[1]))

\* What committing batch b does to the pages.
Effect(b) ==
  LET t == batches[b].txns
  IN  /\ \A k \in DOMAIN pages : k \in DOMAIN pages' /\ \A q : Timed(k, q) => Timed(k, q)'
      /\ \A k \in DOMAIN pages', q \in Requests : Timed(k, q)' =>
           \/ k \in DOMAIN pages /\ Timed(k, q)
           \/ q = b[1] /\ k[1] = b[2] /\ k[2] \in t.names
      /\ \A k \in DOMAIN pages' :
           \/ Len(pages'[k]) <= 1
           \/ k \in DOMAIN pages /\ pages'[k] = pages[k]
           \/ k \in DOMAIN pages /\ k[1] = b[2] /\ Len(pages'[k]) = Len(pages[k]) + 1
      /\ t.ask.kind = "update" =>
           /\ t.names = t.ask.data
           /\ \A n \in t.names : \E k \in PagesOf(b[2], n)' : Timed(k, b[1])'
      /\ \A k \in DOMAIN pages' : k[1] \in DOMAIN records'

LEMMA UpdateEffect ==
  ASSUME TypeInv, PagesInv, FewRequests, NEW b \in DOMAIN batches, ~Booked(b),
         Updates(batches[b].txns)
  PROVE  Effect(b)
<1> DEFINE t == batches[b].txns
           updates == TypesOf(t)
<1>1. /\ b[1] \in Requests /\ b = <<b[1], b[2]>> /\ t.ts = b[1] /\ t.record = b[2]
      /\ t.names \subseteq Properties
  BY BatchesAssumption DEF TypeInv, SubmitInv, BatchesOK, SentInv
<1>2. t.ask.kind = "update" /\ t.names = t.ask.data /\ DOMAIN updates = t.names
  BY DEF Updates, TypesOf
<1>3. UpdateProperties(t.ask.signer, t.record, updates, t.ts)
  BY DEF Updates
<1>4. t.record \in Records /\ UNCHANGED records
  BY <1>3 DEF UpdateProperties, OpenToUpdates, Contains, TypeInv, TypeOK, IsStore
<1>5. t.ts \in Timestamps
  BY <1>1, RequestsAssumption
<1>6. Cardinality(Writers(b[2])) + 1 <= Cardinality(Requests) /\ Cardinality(Writers(b[2])) \in Nat
      /\ Cardinality(Requests) \in Nat
  <2> DEFINE S == Writers(b[2])
  <2>1. S \subseteq Requests /\ b[1] \notin S /\ b[1] \in Requests
    BY <1>1 DEF Writers
  <2> HIDE DEF S
  <2>2. IsFiniteSet(S) /\ IsFiniteSet(Requests)
    BY <2>1, FS_Subset DEF FewRequests
  <2>3. Cardinality(S \cup {b[1]}) = Cardinality(S) + 1 /\ IsFiniteSet(S \cup {b[1]})
    BY <2>1, <2>2, FS_AddElement
  <2>4. Cardinality(S \cup {b[1]}) <= Cardinality(Requests)
    BY <2>1, <2>2, FS_Subset
  <2>5. Cardinality(S) \in Nat /\ Cardinality(Requests) \in Nat
    BY <2>2, FS_CardinalityType
  <2> QED
    BY <2>3, <2>4, <2>5 DEF S
<1>7. ASSUME NEW k \in DOMAIN pages, k[1] = t.record
      PROVE  Len(pages[k]) + 1 < PROPERTY_PAGE_MAX_LENGTH
  <2>1. Len(pages[k]) <= 1 + Cardinality(Writers(b[2]))
    BY <1>1, <1>7 DEF PagesInv
  <2>2. Len(pages[k]) \in Nat
    BY DEF TypeInv, TypeOK, IsStore
  <2> QED
    BY <1>6, <2>1, <2>2, PageMaxAssumption DEF FewRequests
<1>8. TypeOK
  BY DEF TypeInv
<1>9. PICK p, r, u, ts :
        /\ UpdateProperties(p, r, u, ts) /\ DOMAIN u \subseteq Properties
        /\ DOMAIN u = t.names /\ r = b[2] /\ ts = b[1] /\ r \in Records /\ ts \in Timestamps
  BY <1>1, <1>2, <1>3, <1>4, <1>5
<1>10. \A k \in DOMAIN pages : k[1] = r => Len(pages[k]) + 1 < PROPERTY_PAGE_MAX_LENGTH
  BY <1>1, <1>7, <1>9
<1>11. Adds(r, DOMAIN u, ts)
  BY <1>8, <1>9, <1>10, WrittenPages
<1>12. \A k \in DOMAIN pages : \A q : pages'[k] = pages[k] => (Timed(k, q)' <=> Timed(k, q))
  BY DEF Timed
<1> HIDE DEF t
<1>13. \A k \in DOMAIN pages : k \in DOMAIN pages' /\ \A q : Timed(k, q) => Timed(k, q)'
  BY <1>11, <1>12 DEF Adds
<1>14. \A k \in DOMAIN pages', q \in Requests : Timed(k, q)' =>
         \/ k \in DOMAIN pages /\ Timed(k, q)
         \/ q = b[1] /\ k[1] = b[2] /\ k[2] \in t.names
  BY <1>9, <1>11, <1>12 DEF Adds
<1>15. \A k \in DOMAIN pages' :
         \/ Len(pages'[k]) <= 1
         \/ k \in DOMAIN pages /\ pages'[k] = pages[k]
         \/ k \in DOMAIN pages /\ k[1] = b[2] /\ Len(pages'[k]) = Len(pages[k]) + 1
  BY <1>9, <1>11 DEF Adds
<1>16. \A n \in t.names : \E k \in PagesOf(b[2], n)' : Timed(k, b[1])'
  BY <1>9, <1>11 DEF Adds, PagesOf
<1>17. \A k \in DOMAIN pages' : k[1] \in DOMAIN records'
  BY <1>4, <1>11 DEF Adds, PagesInv
<1> QED
  BY <1>2, <1>13, <1>14, <1>15, <1>16, <1>17 DEF Effect, t

LEMMA CreateEffect ==
  ASSUME TypeInv, PagesInv, NEW b \in DOMAIN batches, Creates(batches[b].txns)
  PROVE  Effect(b)
<1> DEFINE t == batches[b].txns
<1>1. t.ts = b[1] /\ t.record = b[2] /\ t.ask.kind = "create"
  BY DEF TypeInv, SentInv, Creates
<1>2. PICK p, r, table, types, ts :
        /\ CreateRecord(p, r, table, types, ts)
        /\ r = b[2] /\ ts = b[1] /\ DOMAIN types = t.names
  BY <1>1 DEF Creates, TypesOf
<1>3. \A q : q \in DOMAIN pages' <=> q \in DOMAIN pages \/ q \in FirstPages(r, table)
  BY <1>2, CreatedPages
<1>4. \A k \in FirstPages(r, table) : pages'[k] = FirstPage(k, types, ts)
  BY <1>2, CreatedPages
<1>5. \A k \in DOMAIN pages : k[1] # r => pages'[k] = pages[k]
  BY <1>2, CreatedPages
<1>6. r \notin DOMAIN records /\ \A q : q \in DOMAIN records' <=> q \in DOMAIN records \/ q = r
  BY <1>2, CreatedRecord
<1>7. \A k \in DOMAIN pages : k[1] # r
  BY <1>6 DEF PagesInv
<1>8. ASSUME NEW k \in FirstPages(r, table)
      PROVE  /\ k[1] = r /\ Len(pages'[k]) <= 1
             /\ \A q : Timed(k, q)' => q = ts /\ k[2] \in t.names
  <2> DEFINE v == [timestamp |-> ts, reporterIndex |-> 0]
  <2>1. k[1] = r
    BY DEF FirstPages
  <2>2. pages'[k] = IF k[2] \in t.names THEN <<v>> ELSE <<>>
    BY <1>2, <1>4 DEF FirstPage
  <2>3. v.timestamp = ts
    OBVIOUS
  <2> HIDE DEF v, t
  <2>4. Len(pages'[k]) <= 1
    BY <2>2
  <2>5. \A q : Timed(k, q)' => q = ts /\ k[2] \in t.names
    BY <2>2, <2>3 DEF Timed
  <2> QED
    BY <2>1, <2>4, <2>5
<1>9. \A k \in DOMAIN pages : \A q : pages'[k] = pages[k] => (Timed(k, q)' <=> Timed(k, q))
  BY DEF Timed
<1> HIDE DEF t
<1>10. \A k \in DOMAIN pages : k \in DOMAIN pages' /\ \A q : Timed(k, q) => Timed(k, q)'
  BY <1>3, <1>5, <1>7, <1>9
<1>11. \A k \in DOMAIN pages', q \in Requests : Timed(k, q)' =>
         \/ k \in DOMAIN pages /\ Timed(k, q)
         \/ q = b[1] /\ k[1] = b[2] /\ k[2] \in t.names
  BY <1>2, <1>3, <1>5, <1>7, <1>8, <1>9
<1>12. \A k \in DOMAIN pages' :
         \/ Len(pages'[k]) <= 1
         \/ k \in DOMAIN pages /\ pages'[k] = pages[k]
         \/ k \in DOMAIN pages /\ k[1] = b[2] /\ Len(pages'[k]) = Len(pages[k]) + 1
  BY <1>3, <1>5, <1>7, <1>8
<1>13. \A k \in DOMAIN pages' : k[1] \in DOMAIN records'
  BY <1>3, <1>6, <1>8 DEF PagesInv
<1> QED
  BY <1>1, <1>10, <1>11, <1>12, <1>13 DEF Effect, t

LEMMA OtherEffect ==
  ASSUME TypeInv, PagesInv, NEW b \in DOMAIN batches, Applies(batches[b].txns),
         ~Creates(batches[b].txns), ~Updates(batches[b].txns)
  PROVE  Effect(b)
<1> DEFINE t == batches[b].txns
<1>1. CreatesTables(t) \/ Deletes(t) \/ Offers(t) \/ Empty(t)
  BY DEF Applies
<1>2. t.ask.kind # "update"
  BY <1>1 DEF CreatesTables, Deletes, Offers, Empty, CustodyKinds, AnswerKinds
<1>3. UNCHANGED pages
  BY <1>1 DEF CreatesTables, Deletes, Offers, CreateProposal, Empty, ledgerVars
<1>4. DOMAIN records \subseteq DOMAIN records'
  <2>1. CASE Deletes(t)
    <3> DEFINE final == [r \in t.targets |-> [records[r] EXCEPT !.final = TRUE]]
    <3>1. records' = PutAll(records, final)
      BY <2>1 DEF Deletes
    <3> HIDE DEF final
    <3> QED
      BY <3>1 DEF PutAll
  <2>2. CASE CreatesTables(t) \/ Offers(t) \/ Empty(t)
    BY <2>2 DEF CreatesTables, Offers, CreateProposal, Empty, ledgerVars
  <2> QED
    BY <1>1, <2>1, <2>2
<1>5. \A k, q : Timed(k, q)' <=> Timed(k, q)
  BY <1>3 DEF Timed
<1> QED
  BY <1>2, <1>3, <1>4, <1>5 DEF Effect, PagesInv

LEMMA PagesKept ==
  ASSUME TypeInv, PagesInv, FewRequests, [RequestsNext]_requestVars
  PROVE  PagesInv'
<1>1. \A c \in DOMAIN batches : c \in DOMAIN batches' /\ batches'[c].txns = batches[c].txns
  BY BatchesKept
<1>2. \A c : Booked(c) => c \in DOMAIN batches
  BY DEF Booked
<1>3. \A c : Booked(c)' => c \in DOMAIN batches'
  BY DEF Booked
<1>4. CASE UNCHANGED ledgerVars /\ \A c : Booked(c)' <=> Booked(c)
  <2>1. UNCHANGED <<pages, records>>
    BY <1>4 DEF ledgerVars
  <2>2. \A k, q : Timed(k, q)' <=> Timed(k, q)
    BY <2>1 DEF Timed
  <2>3. \A rec : Writers(rec)' = Writers(rec)
    BY <1>4 DEF Writers
  <2>4. \A k \in DOMAIN pages', r \in Requests : Timed(k, r)' =>
          Booked(<<r, k[1]>>)' /\ k[2] \in batches'[<<r, k[1]>>].txns.names
    <3> SUFFICES ASSUME NEW k \in DOMAIN pages, NEW r \in Requests, Timed(k, r)
                 PROVE  Booked(<<r, k[1]>>)' /\ k[2] \in batches'[<<r, k[1]>>].txns.names
      BY <2>1, <2>2
    <3>1. Booked(<<r, k[1]>>) /\ k[2] \in batches[<<r, k[1]>>].txns.names
      BY DEF PagesInv
    <3> QED
      BY <1>1, <1>2, <1>4, <3>1
  <2>5. \A b \in DOMAIN batches' : (Booked(b)' /\ batches'[b].txns.ask.kind = "update") =>
          /\ batches'[b].txns.names = batches'[b].txns.ask.data
          /\ \A n \in batches'[b].txns.names : \E k \in PagesOf(b[2], n)' : Timed(k, b[1])'
    <3> SUFFICES ASSUME NEW b \in DOMAIN batches', Booked(b)', batches'[b].txns.ask.kind = "update"
                 PROVE  /\ batches'[b].txns.names = batches'[b].txns.ask.data
                        /\ \A n \in batches'[b].txns.names :
                             \E k \in PagesOf(b[2], n)' : Timed(k, b[1])'
      OBVIOUS
    <3>1. b \in DOMAIN batches /\ Booked(b) /\ batches'[b].txns = batches[b].txns
      BY <1>1, <1>2, <1>4
    <3>2. /\ batches[b].txns.names = batches[b].txns.ask.data
          /\ \A n \in batches[b].txns.names : \E k \in PagesOf(b[2], n) : Timed(k, b[1])
      BY <3>1 DEF PagesInv
    <3>3. \A n : PagesOf(b[2], n)' = PagesOf(b[2], n)
      BY <2>1 DEF PagesOf
    <3> QED
      BY <2>2, <3>1, <3>2, <3>3
  <2>6. \A k \in DOMAIN pages' : Len(pages'[k]) <= 1 + Cardinality(Writers(k[1])')
    BY <2>1, <2>3 DEF PagesInv
  <2> QED
    BY <2>1, <2>4, <2>5, <2>6 DEF PagesInv
<1>5. ASSUME NEW b \in DOMAIN batches, Applies(batches[b].txns), ~Booked(b), Booked(b)',
             \A c : c # b => (Booked(c)' <=> Booked(c))
      PROVE  PagesInv'
  <2> DEFINE t == batches[b].txns
  <2>1. Effect(b)
    BY <1>5, UpdateEffect, CreateEffect, OtherEffect
  <2>2. b = <<b[1], b[2]>> /\ b[1] \in Requests
    BY BatchesAssumption DEF TypeInv, SubmitInv, BatchesOK
  <2>3. \A c : Booked(c) => Booked(c)'
    BY <1>5
  <2>4. \A k \in DOMAIN pages', r \in Requests : Timed(k, r)' =>
          Booked(<<r, k[1]>>)' /\ k[2] \in batches'[<<r, k[1]>>].txns.names
    <3> SUFFICES ASSUME NEW k \in DOMAIN pages', NEW r \in Requests, Timed(k, r)'
                 PROVE  Booked(<<r, k[1]>>)' /\ k[2] \in batches'[<<r, k[1]>>].txns.names
      OBVIOUS
    <3>1. CASE k \in DOMAIN pages /\ Timed(k, r)
      <4>1. Booked(<<r, k[1]>>) /\ k[2] \in batches[<<r, k[1]>>].txns.names
        BY <3>1 DEF PagesInv
      <4> QED
        BY <1>1, <1>2, <2>3, <4>1
    <3>2. CASE r = b[1] /\ k[1] = b[2] /\ k[2] \in t.names
      <4>1. <<r, k[1]>> = b
        BY <2>2, <3>2
      <4> QED
        BY <1>1, <1>5, <3>2, <4>1
    <3> QED
      BY <2>1, <3>1, <3>2 DEF Effect
  <2>5. \A c \in DOMAIN batches' : (Booked(c)' /\ batches'[c].txns.ask.kind = "update") =>
          /\ batches'[c].txns.names = batches'[c].txns.ask.data
          /\ \A n \in batches'[c].txns.names : \E k \in PagesOf(c[2], n)' : Timed(k, c[1])'
    <3> SUFFICES ASSUME NEW c \in DOMAIN batches', Booked(c)', batches'[c].txns.ask.kind = "update"
                 PROVE  /\ batches'[c].txns.names = batches'[c].txns.ask.data
                        /\ \A n \in batches'[c].txns.names :
                             \E k \in PagesOf(c[2], n)' : Timed(k, c[1])'
      OBVIOUS
    <3>1. CASE c = b
      <4>1. batches'[b].txns = t
        BY <1>1
      <4>2. /\ t.names = t.ask.data
            /\ \A n \in t.names : \E k \in PagesOf(b[2], n)' : Timed(k, b[1])'
        BY <2>1, <3>1, <4>1 DEF Effect
      <4> HIDE DEF t
      <4> QED
        BY <3>1, <4>1, <4>2
    <3>2. CASE c # b
      <4>1. c \in DOMAIN batches /\ Booked(c) /\ batches'[c].txns = batches[c].txns
        BY <1>1, <1>2, <1>5, <3>2
      <4>2. /\ batches[c].txns.names = batches[c].txns.ask.data
            /\ \A n \in batches[c].txns.names : \E k \in PagesOf(c[2], n) : Timed(k, c[1])
        BY <4>1 DEF PagesInv
      <4>3. ASSUME NEW n \in batches[c].txns.names
            PROVE  \E k \in PagesOf(c[2], n)' : Timed(k, c[1])'
        <5>1. PICK k \in PagesOf(c[2], n) : Timed(k, c[1])
          BY <4>2
        <5>2. k \in PagesOf(c[2], n)' /\ Timed(k, c[1])'
          BY <2>1, <5>1 DEF Effect, PagesOf
        <5> QED
          BY <5>2
      <4> QED
        BY <4>1, <4>2, <4>3
    <3> QED
      BY <3>1, <3>2
  <2>6. ASSUME NEW rec
        PROVE  /\ Cardinality(Writers(rec)) \in Nat /\ Cardinality(Writers(rec)') \in Nat
               /\ Cardinality(Writers(rec)) <= Cardinality(Writers(rec)')
               /\ rec = b[2] => Cardinality(Writers(rec)') = Cardinality(Writers(rec)) + 1
    <3> DEFINE S == Writers(rec)
               U == Writers(rec)'
    <3>1. S \subseteq U /\ U \subseteq Requests
      BY <2>3 DEF Writers
    <3>2. IsFiniteSet(S) /\ IsFiniteSet(U)
      BY <3>1, FS_Subset DEF FewRequests
    <3>3. rec = b[2] => U = S \cup {b[1]} /\ b[1] \notin S
      <4> SUFFICES ASSUME rec = b[2] PROVE U = S \cup {b[1]} /\ b[1] \notin S
        OBVIOUS
      <4>1. b = <<b[1], rec>> /\ \A r : <<r, rec>> = b <=> r = b[1]
        BY <2>2
      <4>2. \A r \in Requests : Booked(<<r, rec>>)' <=> Booked(<<r, rec>>) \/ r = b[1]
        BY <1>5, <4>1
      <4> QED
        BY <1>5, <2>2, <4>1, <4>2 DEF Writers
    <3> HIDE DEF S, U
    <3>4. Cardinality(S) \in Nat /\ Cardinality(U) \in Nat /\ Cardinality(S) <= Cardinality(U)
      BY <3>1, <3>2, FS_CardinalityType, FS_Subset
    <3>5. rec = b[2] => Cardinality(U) = Cardinality(S) + 1
      BY <3>2, <3>3, FS_AddElement
    <3> QED
      BY <3>4, <3>5 DEF S, U
  <2>7. ASSUME NEW k \in DOMAIN pages'
        PROVE  Len(pages'[k]) <= 1 + Cardinality(Writers(k[1])')
    <3>1. PICK rec : rec = k[1]
      OBVIOUS
    <3>2. \/ Len(pages'[k]) <= 1
          \/ k \in DOMAIN pages /\ pages'[k] = pages[k]
          \/ k \in DOMAIN pages /\ rec = b[2] /\ Len(pages'[k]) = Len(pages[k]) + 1
      BY <2>1, <3>1 DEF Effect
    <3>3. k \in DOMAIN pages => Len(pages[k]) \in Nat /\ Len(pages[k]) <= 1 + Cardinality(Writers(rec))
      BY <3>1 DEF PagesInv, TypeInv, TypeOK, IsStore
    <3>4. Len(pages'[k]) \in Nat
      <4>1. TypeInv'
        BY TypeKept
      <4> QED
        BY <4>1 DEF TypeInv, TypeOK, IsStore
    <3>5. Len(pages'[k]) <= 1 + Cardinality(Writers(rec)')
      BY <2>6, <3>2, <3>3, <3>4
    <3> QED
      BY <3>1, <3>5
  <2>8. \A k \in DOMAIN pages' : k[1] \in DOMAIN records'
    BY <2>1 DEF Effect
  <2> QED
    BY <2>4, <2>5, <2>7, <2>8 DEF PagesInv
<1> QED
  BY <1>4, <1>5, BookedStep

(* An update reaches all the properties it names or none, although every   *)
(* name is looked up by a query of its own that nobody waits for: with     *)
(* less requests than a page has room for, the page a value is on stays.   *)
THEOREM UpdatesAreWhole == ASSUME FewRequests PROVE RequestsSpec => []UpdatesWhole
<1>1. RequestsInit => PagesInv
  <2> SUFFICES ASSUME RequestsInit PROVE PagesInv
    OBVIOUS
  <2>1. batches = NoBatches /\ DOMAIN batches = {} /\ \A c : ~Booked(c)
    BY DEF RequestsInit, InitBatches, NoBatches, Booked
  <2>2. \A rec : Writers(rec) = {}
    BY <2>1 DEF Writers
  <2>3. Cardinality({}) = 0
    BY FS_EmptySet
  <2>4. /\ DOMAIN records = DOMAIN GivenRecords
        /\ \A k \in DOMAIN properties : k[1] \in DOMAIN GivenRecords
        /\ DOMAIN pages = {<<q[1], q[2], 1>> : q \in DOMAIN properties}
        /\ \A k \in DOMAIN pages :
             pages[k] = <<[timestamp |-> GivenRecords[k[1]].timestamp, reporterIndex |-> 0]>>
    BY DEF RequestsInit
  <2>5. \A k \in DOMAIN pages : k[1] \in DOMAIN GivenRecords
    BY <2>4
  <2>6. ASSUME NEW k \in DOMAIN pages
        PROVE  Len(pages[k]) = 1 /\ \A q : Timed(k, q) => q = GivenRecords[k[1]].timestamp
    <3> DEFINE v == [timestamp |-> GivenRecords[k[1]].timestamp, reporterIndex |-> 0]
    <3>1. pages[k] = <<v>> /\ v.timestamp = GivenRecords[k[1]].timestamp
      BY <2>4
    <3> HIDE DEF v
    <3> QED
      BY <3>1 DEF Timed
  <2>7. \A k \in DOMAIN pages : GivenRecords[k[1]].timestamp \notin Requests
    BY <2>5, GivenAssumption
  <2>8. ASSUME NEW k \in DOMAIN pages
        PROVE  Len(pages[k]) <= 1 + Cardinality(Writers(k[1]))
    <3>1. Cardinality(Writers(k[1])) = 0
      BY <2>2, <2>3
    <3>2. Len(pages[k]) = 1
      BY <2>6
    <3> QED
      BY <3>1, <3>2
  <2>9. \A k \in DOMAIN pages, r \in Requests : ~Timed(k, r)
    BY <2>6, <2>7
  <2> QED
    BY <2>1, <2>4, <2>5, <2>8, <2>9 DEF PagesInv
<1>2. TypeInv /\ PagesInv /\ [RequestsNext]_requestVars => PagesInv'
  BY PagesKept
<1>3. TypeInv /\ PagesInv => UpdatesWhole
  <2> SUFFICES ASSUME TypeInv, PagesInv, NEW r \in DOMAIN requests, NEW rec \in DOMAIN records,
                      Kind(r) = "update"
               PROVE  Values(r, rec) \in {{}, requests[r].ask.data}
    BY DEF UpdatesWhole
  <2> DEFINE b == <<r, rec>>
  <2>1. r \in Requests
    BY DEF TypeInv, IsStore
  <2>2. \A n : n \in Values(r, rec) <=> n \in Properties /\ \E k \in PagesOf(rec, n) : Timed(k, r)
    BY ReportedIs DEF Values, Timed
  <2>3. \A n \in Values(r, rec) : Booked(b) /\ n \in batches[b].txns.names
    BY <2>1, <2>2 DEF PagesInv, PagesOf
  <2>4. CASE ~Booked(b)
    BY <2>3, <2>4
  <2>5. CASE Booked(b)
    <3>1. b \in DOMAIN batches /\ b[1] = r /\ b[2] = rec
      BY <2>5 DEF Booked
    <3>2. batches[b].txns.ask = requests[r].ask /\ batches[b].txns.names \subseteq Properties
      BY <3>1 DEF TypeInv, SentInv
    <3>3. /\ batches[b].txns.names = requests[r].ask.data
          /\ \A n \in batches[b].txns.names : \E k \in PagesOf(rec, n) : Timed(k, r)
      BY <2>5, <3>1, <3>2 DEF PagesInv, Kind
    <3> QED
      BY <2>2, <2>3, <3>2, <3>3 DEF Values
  <2> QED
    BY <2>4, <2>5
<1> QED
  BY <1>1, <1>2, <1>3, TypeInductive, PTL DEF RequestsSpec
=============================================================================
