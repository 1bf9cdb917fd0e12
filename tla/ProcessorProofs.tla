--------------------------- MODULE ProcessorProofs ---------------------------
(***************************************************************************)
(* What holds of the transaction processor for every set of participants,  *)
(* tables, records, schemas and payloads, and for every page length: every *)
(* entry is well formed, only negative amounts overdraw anybody, what a    *)
(* proposal books is what moves, and coins are neither made nor lost       *)
(* between two participants.  Amounts, credits and balances are integers   *)
(* of either sign; TypeOK, which says so, is inductive, and the action     *)
(* properties follow from it.                                              *)
(***************************************************************************)
EXTENDS Processor, LedgerLemmas

-----------------------------------------------------------------------------
(* Type correctness. *)

(* The ledger starts empty, and empty stores are well-formed.              *)
LEMMA InitType == Init => TypeOK
  BY DEF Init, TypeOK, IsStore, EmptyStore

(* _create_participant adds a participant without coins.                   *)
LEMMA CreateParticipantType ==
  ASSUME TypeOK, NEW p \in Participants, CreateParticipant(p)
  PROVE  TypeOK'
<1>1. NewParticipant \in Participant
  BY DEF NewParticipant, Participant
<1>2. IsStore(participants', Participants, Participant)
  BY <1>1, PutStore DEF TypeOK, CreateParticipant
<1> QED
  BY <1>2 DEF TypeOK, CreateParticipant

(* _create_table adds a table with one of the schemas.                     *)
LEMMA CreateTableType ==
  ASSUME TypeOK, NEW t \in Tables, NEW schema \in Schemas, CreateTable(t, schema)
  PROVE  TypeOK'
<1>1. IsStore(tables', Tables, Schemas)
  BY PutStore DEF TypeOK, CreateTable
<1> QED
  BY <1>1 DEF TypeOK, CreateTable

(* _create_record adds a record, its properties and their first pages.     *)
LEMMA CreateRecordType ==
  ASSUME TypeOK, NEW p \in Participants, NEW r \in Records, NEW t \in Tables,
         NEW provided, NEW ts \in Timestamps, CreateRecord(p, r, t, provided, ts)
  PROVE  TypeOK'
<1> DEFINE record == [table |-> t, owners |-> <<p>>, custodians |-> <<p>>, final |-> FALSE]
           names == DOMAIN tables[t]
           created == [k \in {r} \X names |-> NewProperty(p, tables[t][k[2]])]
           first == [k \in {r} \X names \X {1} |->
                       IF k[2] \in DOMAIN provided
                       THEN <<[timestamp |-> ts, reporterIndex |-> 0]>> ELSE <<>>]
<1>1. tables[t] \in Schemas
  BY DEF TypeOK, IsStore, CreateRecord, MayCreate, Contains
<1>2. names \subseteq Properties /\ \A n \in names : tables[t][n] \in PropertySchema
  BY <1>1, SchemasAssumption
<1>3. IsStore(records', Records, Record)
  <2>1. record \in Record
    BY DEF Record
  <2> QED
    BY <2>1, PutStore DEF TypeOK, CreateRecord
<1>4. IsStore(properties', Records \X Properties, Property)
  <2>1. \A n \in names : NewProperty(p, tables[t][n]) \in Property
    <3> SUFFICES ASSUME NEW n \in names PROVE NewProperty(p, tables[t][n]) \in Property
      OBVIOUS
    <3>1. tables[t][n].fixed \in BOOLEAN /\ tables[t][n].type \in Types
      BY <1>2 DEF PropertySchema
    <3>2. <<NewReporter(p, 0)>> \in Seq(Reporter)
      BY NewReporterType
    <3> QED
      BY <3>1, <3>2 DEF NewProperty, Property
  <2>2. IsStore(created, Records \X Properties, Property)
    BY <1>2, <2>1 DEF IsStore
  <2> QED
    BY <2>2, PutAllStore DEF TypeOK, CreateRecord
<1>5. IsStore(pages', Records \X Properties \X Nat, Seq(ReportedValue))
  <2>1. <<[timestamp |-> ts, reporterIndex |-> 0]>> \in Seq(ReportedValue)
    BY DEF ReportedValue
  <2>2. IsStore(first, Records \X Properties \X Nat, Seq(ReportedValue))
    BY <1>2, <2>1 DEF IsStore
  <2> QED
    BY <2>2, PutAllStore DEF TypeOK, CreateRecord
<1> QED
  BY <1>3, <1>4, <1>5 DEF TypeOK, CreateRecord

(* _finalize_record only sets the flag of an existing record.              *)
LEMMA FinalizeRecordType ==
  ASSUME TypeOK, NEW p, NEW r \in Records, FinalizeRecord(p, r)
  PROVE  TypeOK'
<1>1. records[r] \in Record
  BY DEF TypeOK, IsStore, FinalizeRecord, Contains
<1>2. [records[r] EXCEPT !.final = TRUE] \in Record
  BY <1>1 DEF Record
<1>3. IsStore(records', Records, Record)
  BY <1>2, PutStore DEF TypeOK, FinalizeRecord
<1> QED
  BY <1>3 DEF TypeOK, FinalizeRecord

(* A property that may be reported on has a page to report in, and the     *)
(* report names the index of one of the property's reporters.              *)
LEMMA PageAfterIs ==
  ASSUME TypeOK, NEW p, NEW r \in Records, NEW n \in Properties,
         NEW type, NEW ts \in Timestamps, MayReport(p, r, n, type)
  PROVE  /\ CurrentPage(r, n) \in DOMAIN pages
         /\ pages[CurrentPage(r, n)] \in Seq(ReportedValue)
         /\ \E v \in ReportedValue :
              v.timestamp = ts /\ PageAfter(p, r, n, ts) = Report(pages[CurrentPage(r, n)], v)
<1> DEFINE prop == properties[<<r, n>>]
           index == ReporterIndex(prop.reporters, p)
           value == [timestamp |-> ts, reporterIndex |-> index]
<1>1. prop \in Property
  BY DEF TypeOK, IsStore, MayReport, Contains
<1>2. prop.reporters \in Seq(Reporter)
  BY <1>1 DEF Property
<1>3. PICK i \in Entitled(prop.reporters, p) : index = prop.reporters[i].index
  BY <1>2, ReporterIndexEntitled DEF MayReport
<1>4. prop.reporters[i] \in Reporter
  BY <1>2 DEF Entitled
<1>5. index \in Nat
  BY <1>3, <1>4 DEF Reporter
<1>6. PageAfter(p, r, n, ts) = Report(pages[CurrentPage(r, n)], value)
  BY DEF PageAfter
<1> HIDE DEF index
<1>7. value \in ReportedValue /\ value.timestamp = ts
  BY <1>5 DEF ReportedValue
<1> HIDE DEF value
<1>8. /\ CurrentPage(r, n) \in DOMAIN pages
      /\ pages[CurrentPage(r, n)] \in Seq(ReportedValue)
  BY DEF TypeOK, IsStore, MayReport, Contains
<1> QED
  BY <1>6, <1>7, <1>8

LEMMA PageAfterType ==
  ASSUME TypeOK, NEW p, NEW r \in Records, NEW n \in Properties,
         NEW type, NEW ts \in Timestamps, MayReport(p, r, n, type)
  PROVE  /\ PageAfter(p, r, n, ts) \in Seq(ReportedValue)
         /\ CurrentPage(r, n) \in Records \X Properties \X Nat
         /\ properties[<<r, n>>] \in Property
<1>1. properties[<<r, n>>] \in Property
  BY DEF TypeOK, IsStore, MayReport, Contains
<1>2. CurrentPage(r, n) \in Records \X Properties \X Nat
  BY <1>1 DEF CurrentPage, Property
<1>3. PICK v \in ReportedValue : PageAfter(p, r, n, ts) = Report(pages[CurrentPage(r, n)], v)
  BY PageAfterIs
<1>4. pages[CurrentPage(r, n)] \in Seq(ReportedValue)
  BY PageAfterIs
<1>5. PageAfter(p, r, n, ts) \in Seq(ReportedValue)
  BY <1>3, <1>4, ReportPage
<1> QED
  BY <1>1, <1>2, <1>5

(* Moving on to the next page changes the current page only.               *)
LEMMA TurnedType ==
  ASSUME NEW prop \in Property
  PROVE  Turned(prop) \in Property
<1> DEFINE next == NextPage(prop.currentPage)
           wrapped == prop.wrapped \/ next = 1
<1>1. next \in Nat
  BY DEF NextPage, Property
<1>2. wrapped \in BOOLEAN
  BY Zenon
<1>3. Turned(prop) = [prop EXCEPT !.currentPage = next, !.wrapped = wrapped]
  BY DEF Turned
<1> HIDE DEF next, wrapped
<1> QED
  BY <1>1, <1>2, <1>3 DEF Property

(* _update_properties writes pages and page numbers of known properties.   *)
LEMMA UpdatePropertiesType ==
  ASSUME TypeOK, NEW p \in Participants, NEW r \in Records, NEW updates,
         DOMAIN updates \subseteq Properties, NEW ts \in Timestamps,
         UpdateProperties(p, r, updates, ts)
  PROVE  TypeOK'
<1> DEFINE filled == {n \in DOMAIN updates : Full(PageAfter(p, r, n, ts))}
           written == [k \in {CurrentPage(r, n) : n \in DOMAIN updates} |->
                         PageAfter(p, r, k[2], ts)]
           emptied == [k \in {<<r, n, NextPage(properties[<<r, n>>].currentPage)>> :
                                n \in filled} |-> <<>>]
           turned == [k \in {r} \X filled |-> Turned(properties[k])]
           Pages == Records \X Properties \X Nat
<1>1. \A n \in DOMAIN updates :
        /\ PageAfter(p, r, n, ts) \in Seq(ReportedValue)
        /\ CurrentPage(r, n) \in Pages
        /\ CurrentPage(r, n)[2] = n
        /\ properties[<<r, n>>] \in Property
  BY PageAfterType DEF UpdateProperties, CurrentPage
<1>2. IsStore(written, Pages, Seq(ReportedValue))
  BY <1>1 DEF IsStore
<1>3. IsStore(emptied, Pages, Seq(ReportedValue))
  <2>1. \A n \in filled : NextPage(properties[<<r, n>>].currentPage) \in Nat
    BY <1>1 DEF NextPage, Property
  <2> DEFINE next(n) == <<r, n, NextPage(properties[<<r, n>>].currentPage)>>
  <2>2. \A n \in filled : next(n) \in Pages
    BY <2>1
  <2>3. << >> \in Seq(ReportedValue)
    OBVIOUS
  <2>4. emptied = [k \in {next(n) : n \in filled} |-> <<>>]
    OBVIOUS
  <2> HIDE DEF next, filled, emptied
  <2>5. DOMAIN emptied \subseteq Pages /\ \A k \in DOMAIN emptied : emptied[k] = <<>>
    BY <2>2, <2>4
  <2> QED
    BY <2>3, <2>4, <2>5 DEF IsStore
<1>4. IsStore(turned, Records \X Properties, Property)
  BY <1>1, TurnedType DEF IsStore
<1>5. /\ pages' = PutAll(PutAll(pages, written), emptied)
      /\ properties' = PutAll(properties, turned)
      /\ UNCHANGED <<participants, tables, records, proposals, exchanges>>
  BY DEF UpdateProperties
<1> HIDE DEF written, emptied, turned
<1>6. IsStore(pages', Pages, Seq(ReportedValue))
  BY <1>2, <1>3, <1>5, PutAllStore DEF TypeOK
<1>7. IsStore(properties', Records \X Properties, Property)
  BY <1>4, <1>5, PutAllStore DEF TypeOK
<1> QED
  BY <1>5, <1>6, <1>7 DEF TypeOK

(* _revoke_reporter changes authorizations only.                           *)
LEMMA RevokeReporterType ==
  ASSUME TypeOK, NEW p, NEW r \in Records, NEW q, NEW names \in SUBSET Properties,
         RevokeReporter(p, r, q, names)
  PROVE  TypeOK'
<1> DEFINE revoked == [k \in {r} \X names |->
                         [properties[k] EXCEPT !.reporters = Revoked(@, q)]]
<1>1. \A k \in {r} \X names : properties[k] \in Property
  BY DEF TypeOK, IsStore, RevokeReporter, MayRevoke, Contains
<1>2. \A k \in {r} \X names : revoked[k] \in Property
  <2> SUFFICES ASSUME NEW k \in {r} \X names PROVE revoked[k] \in Property
    OBVIOUS
  <2>1. properties[k] \in Property /\ properties[k].reporters \in Seq(Reporter)
    BY <1>1 DEF Property
  <2>2. Revoked(properties[k].reporters, q) \in Seq(Reporter)
    BY <2>1, RevokedEntries
  <2> QED
    BY <2>1, <2>2 DEF Property
<1>3. IsStore(revoked, Records \X Properties, Property)
  BY <1>2 DEF IsStore
<1>4. properties' = PutAll(properties, revoked)
  BY DEF RevokeReporter
<1> HIDE DEF revoked
<1>5. IsStore(properties', Records \X Properties, Property)
  BY <1>3, <1>4, PutAllStore DEF TypeOK
<1> QED
  BY <1>5 DEF TypeOK, RevokeReporter

(* _create_proposal adds an open proposal of a registered issuer.          *)
LEMMA CreateProposalType ==
  ASSUME TypeOK, NEW p \in Participants, NEW c \in ProposalPayload, CreateProposal(p, c)
  PROVE  TypeOK'
<1> DEFINE proposal == [status |-> "OPEN", role |-> c.role, issuer |-> p,
             receiver |-> c.receiver, record |-> c.record,
             properties |-> c.properties, amount |-> c.amount, exchanged |-> 0]
<1>2. proposal \in Proposal /\ c.id \in ProposalIds
  BY DEF ProposalPayload, Proposal, Statuses
<1>3. proposals' = Put(proposals, c.id, proposal)
  BY DEF CreateProposal
<1> HIDE DEF proposal
<1>4. IsStore(proposals', ProposalIds, Proposal)
  BY <1>2, <1>3, PutStore DEF TypeOK
<1> QED
  BY <1>4 DEF TypeOK, CreateProposal

(* Every answer leaves a well-formed proposal: only its status and what it *)
(* has exchanged change.                                                   *)
LEMMA AnsweredProposal ==
  ASSUME TypeOK, NEW a \in AnswerPayloads, Contains(proposals, a.id),
         NEW status \in Statuses,
         SetStatus(a.id, status) \/ Exchanged(a.id, a.amount, status)
  PROVE  IsStore(proposals', ProposalIds, Proposal)
<1>1. a.id \in ProposalIds /\ a.amount \in Int
  BY PayloadsAssumption DEF AnswerPayload
<1>2. proposals[a.id] \in Proposal
  BY DEF TypeOK, IsStore, Contains
<1>3. CASE SetStatus(a.id, status)
  <2>1. [proposals[a.id] EXCEPT !.status = status] \in Proposal
    BY <1>2 DEF Proposal
  <2> QED
    BY <1>1, <1>3, <2>1, PutStore DEF TypeOK, SetStatus
<1>4. CASE Exchanged(a.id, a.amount, status)
  <2> DEFINE sum == proposals[a.id].exchanged + a.amount
  <2>2. sum \in Int
    BY <1>1, <1>2 DEF Proposal
  <2> HIDE DEF sum
  <2>3. [proposals[a.id] EXCEPT !.exchanged = sum, !.status = status] \in Proposal
    BY <1>2, <2>2 DEF Proposal
  <2>1. [proposals[a.id] EXCEPT !.exchanged = @ + a.amount, !.status = status] \in Proposal
    BY <2>3 DEF sum
  <2> QED
    BY <1>1, <1>4, <2>1, PutStore DEF TypeOK, Exchanged
<1> QED
  BY <1>3, <1>4

(* A cancelled or rejected proposal changes its status only.               *)
LEMMA RefusalType ==
  ASSUME TypeOK, NEW p, NEW a \in AnswerPayloads,
         CancelProposal(p, a) \/ RejectProposal(p, a)
  PROVE  TypeOK'
<1>1. IsStore(proposals', ProposalIds, Proposal)
  BY AnsweredProposal DEF CancelProposal, RejectProposal, MayAnswer, Statuses
<1> QED
  BY <1>1 DEF TypeOK, CancelProposal, RejectProposal

(* Automatic answers change a proposal, an account and the exchanges.      *)
LEMMA ExchangeType ==
  ASSUME TypeOK, NEW p, NEW a \in AnswerPayloads,
         \/ AutoOpenBuy(p, a) \/ AutoOpenSell(p, a)
         \/ AutoCloseBuy(p, a) \/ AutoCloseSell(p, a)
  PROVE  TypeOK'
<1>1. a.amount \in Int /\ a.exchanges \subseteq ProposalIds \X ProposalIds
  BY PayloadsAssumption DEF AnswerPayload
<1>2. Contains(proposals, a.id) /\ Contains(participants, p)
  BY DEF AutoOpenBuy, AutoOpenSell, AutoCloseBuy, AutoCloseSell, MayAnswer
<1>3. IsStore(proposals', ProposalIds, Proposal)
  BY <1>2, AnsweredProposal
  DEF AutoOpenBuy, AutoOpenSell, AutoCloseBuy, AutoCloseSell, Statuses
<1>4. PICK entry \in Participant : participants' = Put(participants, p, entry)
  <2> DEFINE up == [participants[p] EXCEPT !.balance = @ + a.amount]
             down == [participants[p] EXCEPT !.balance = @ - a.amount]
  <2>1. participants[p] \in Participant /\ a.amount \in Int
    BY <1>1, <1>2 DEF TypeOK, IsStore, Contains
  <2>2. up \in Participant /\ down \in Participant
    BY <2>1 DEF Participant
  <2>3. participants' = Put(participants, p, up) \/ participants' = Put(participants, p, down)
    BY DEF AutoOpenBuy, AutoOpenSell, AutoCloseBuy, AutoCloseSell
  <2> HIDE DEF up, down
  <2> QED
    BY <2>2, <2>3
<1>5. IsStore(participants', Participants, Participant)
  <2>1. p \in Participants
    BY <1>2 DEF TypeOK, IsStore, Contains
  <2> QED
    BY <1>4, <2>1, PutStore DEF TypeOK
<1>6. exchanges' \subseteq ProposalIds \X ProposalIds
  BY <1>1 DEF TypeOK, AutoOpenBuy, AutoOpenSell, AutoCloseBuy, AutoCloseSell
<1>7. UNCHANGED <<tables, records, properties, pages>>
  BY DEF AutoOpenBuy, AutoOpenSell, AutoCloseBuy, AutoCloseSell
<1> QED
  BY <1>3, <1>5, <1>6, <1>7 DEF TypeOK

(* Accepted credits and transfers change accounts, and credits only up.    *)
LEMMA AcceptCoinsType ==
  ASSUME TypeOK, NEW p, NEW a \in AnswerPayloads,
         AcceptCredit(p, a) \/ AcceptTransferCoins(p, a)
  PROVE  TypeOK'
<1>1. a.amount \in Int
  BY PayloadsAssumption DEF AnswerPayload
<1>2. /\ Contains(proposals, a.id)
      /\ Contains(participants, p) /\ Contains(participants, a.receiver)
  BY DEF AcceptCredit, AcceptTransferCoins, MayAccept, MayAnswer
<1>3. IsStore(proposals', ProposalIds, Proposal)
  BY <1>2, AnsweredProposal DEF AcceptCredit, AcceptTransferCoins, Statuses
<1>4. \A q \in {p, a.receiver} : q \in Participants /\ participants[q] \in Participant
  BY <1>2 DEF TypeOK, IsStore, Contains
<1>5. IsStore(participants', Participants, Participant)
  <2>1. CASE AcceptCredit(p, a)
    <3> DEFINE credited == [participants[a.receiver] EXCEPT !.credit = @ + a.amount]
    <3>1. credited \in Participant /\ a.receiver \in Participants
      BY <1>1, <1>4 DEF Participant
    <3>2. participants' = Put(participants, a.receiver, credited)
      BY <2>1 DEF AcceptCredit
    <3> HIDE DEF credited
    <3> QED
      BY <3>1, <3>2, PutStore DEF TypeOK
  <2>2. CASE AcceptTransferCoins(p, a)
    <3> DEFINE debited == [participants[p] EXCEPT !.balance = @ - a.amount]
               credited == [participants[a.receiver] EXCEPT !.balance = @ + a.amount]
    <3>1. /\ debited \in Participant /\ credited \in Participant
          /\ p \in Participants /\ a.receiver \in Participants
      BY <1>1, <1>4 DEF Participant
    <3>2. participants' = Put(Put(participants, p, debited), a.receiver, credited)
      BY <2>2 DEF AcceptTransferCoins
    <3> HIDE DEF debited, credited
    <3>3. IsStore(Put(participants, p, debited), Participants, Participant)
      BY <3>1, PutStore DEF TypeOK
    <3> QED
      BY <3>1, <3>2, <3>3, PutStore
  <2> QED
    BY <2>1, <2>2
<1> QED
  BY <1>3, <1>5 DEF TypeOK, AcceptCredit, AcceptTransferCoins

(* A change of owner extends the record's owners and its reporters.        *)
LEMMA AcceptOwnershipType ==
  ASSUME TypeOK, NEW p, NEW a \in AnswerPayloads, AcceptOwnership(p, a)
  PROVE  TypeOK'
<1> DEFINE r == a.record
           names == DOMAIN tables[records[r].table]
           handed == [k \in {r} \X names |-> [properties[k] EXCEPT
                        !.reporters = HandedOver(@, Owner(r), a.receiver)]]
<1>1. /\ Contains(proposals, a.id) /\ Contains(participants, a.receiver)
      /\ Contains(records, r) /\ \A n \in names : Contains(properties, <<r, n>>)
  BY DEF AcceptOwnership, MayAccept, MayAnswer
<1>2. r \in Records /\ records[r] \in Record /\ a.receiver \in Participants
  BY <1>1 DEF TypeOK, IsStore, Contains
<1>3. IsStore(proposals', ProposalIds, Proposal)
  BY <1>1, AnsweredProposal DEF AcceptOwnership, Statuses
<1>4. IsStore(records', Records, Record)
  <2> DEFINE owners == Append(records[r].owners, a.receiver)
  <2>2. owners \in Seq(Participants)
    BY <1>2, AppendProperties DEF Record
  <2> HIDE DEF owners
  <2>3. [records[r] EXCEPT !.owners = owners] \in Record
    BY <1>2, <2>2 DEF Record
  <2>1. [records[r] EXCEPT !.owners = Append(@, a.receiver)] \in Record
    BY <2>3 DEF owners
  <2> QED
    BY <1>2, <2>1, PutStore DEF TypeOK, AcceptOwnership
<1>5. \A k \in {r} \X names : handed[k] \in Property
  <2> SUFFICES ASSUME NEW k \in {r} \X names PROVE handed[k] \in Property
    OBVIOUS
  <2>1. properties[k] \in Property
    BY <1>1 DEF TypeOK, IsStore, Contains
  <2>2. properties[k].reporters \in Seq(Reporter)
    BY <2>1 DEF Property
  <2>3. HandedOver(properties[k].reporters, Owner(r), a.receiver) \in Seq(Reporter)
    BY <1>2, <2>2, HandedOverEntries
  <2> QED
    BY <2>1, <2>3 DEF Property
<1>6. {r} \X names \subseteq Records \X Properties
  BY <1>1 DEF TypeOK, IsStore, Contains
<1>7. IsStore(handed, Records \X Properties, Property)
  BY <1>5, <1>6 DEF IsStore
<1>8. properties' = PutAll(properties, handed)
  BY DEF AcceptOwnership
<1> HIDE DEF handed
<1>9. IsStore(properties', Records \X Properties, Property)
  BY <1>7, <1>8, PutAllStore DEF TypeOK
<1> QED
  BY <1>3, <1>4, <1>9 DEF TypeOK, AcceptOwnership

(* A change of custodian extends the custodians of the record.             *)
LEMMA AcceptCustodianshipType ==
  ASSUME TypeOK, NEW p, NEW a \in AnswerPayloads, AcceptCustodianship(p, a)
  PROVE  TypeOK'
<1>1. /\ Contains(proposals, a.id) /\ Contains(participants, a.receiver)
      /\ Contains(records, a.record)
  BY DEF AcceptCustodianship, MayAccept, MayAnswer
<1>2. a.record \in Records /\ records[a.record] \in Record /\ a.receiver \in Participants
  BY <1>1 DEF TypeOK, IsStore, Contains
<1>3. IsStore(proposals', ProposalIds, Proposal)
  BY <1>1, AnsweredProposal DEF AcceptCustodianship, Statuses
<1>4. [records[a.record] EXCEPT !.custodians = Append(@, a.receiver)] \in Record
  <2> DEFINE custodians == Append(records[a.record].custodians, a.receiver)
  <2>1. custodians \in Seq(Participants)
    BY <1>2, AppendProperties DEF Record
  <2> HIDE DEF custodians
  <2>2. [records[a.record] EXCEPT !.custodians = custodians] \in Record
    BY <1>2, <2>1 DEF Record
  <2> QED
    BY <2>2 DEF custodians
<1>5. IsStore(records', Records, Record)
  BY <1>2, <1>4, PutStore DEF TypeOK, AcceptCustodianship
<1> QED
  BY <1>3, <1>5 DEF TypeOK, AcceptCustodianship

(* Authorizing a reporter extends the lists of the named properties.       *)
LEMMA AcceptReporterType ==
  ASSUME TypeOK, NEW p, NEW a \in AnswerPayloads, AcceptReporter(p, a)
  PROVE  TypeOK'
<1> DEFINE r == a.record
           names == proposals[a.id].properties
           authorized == [k \in {r} \X names |-> [properties[k] EXCEPT
              !.reporters = Append(@, NewReporter(a.receiver, Len(@)))]]
<1>1. /\ Contains(proposals, a.id) /\ Contains(participants, a.receiver)
      /\ \A n \in names : Contains(properties, <<r, n>>)
  BY DEF AcceptReporter, MayAccept, MayAnswer
<1>2. a.receiver \in Participants
  BY <1>1 DEF TypeOK, IsStore, Contains
<1>3. IsStore(proposals', ProposalIds, Proposal)
  BY <1>1, AnsweredProposal DEF AcceptReporter, Statuses
<1>4. \A k \in {r} \X names : authorized[k] \in Property
  <2> SUFFICES ASSUME NEW k \in {r} \X names PROVE authorized[k] \in Property
    OBVIOUS
  <2>1. properties[k] \in Property
    BY <1>1 DEF TypeOK, IsStore, Contains
  <2>2. properties[k].reporters \in Seq(Reporter)
    BY <2>1 DEF Property
  <2>3. NewReporter(a.receiver, Len(properties[k].reporters)) \in Reporter
    BY <1>2, <2>2, NewReporterType
  <2>4. Append(properties[k].reporters,
               NewReporter(a.receiver, Len(properties[k].reporters))) \in Seq(Reporter)
    BY <2>2, <2>3
  <2> QED
    BY <2>1, <2>4 DEF Property
<1>5. {r} \X names \subseteq Records \X Properties
  BY <1>1 DEF TypeOK, IsStore, Contains
<1>6. IsStore(authorized, Records \X Properties, Property)
  BY <1>4, <1>5 DEF IsStore
<1>7. properties' = PutAll(properties, authorized)
  BY DEF AcceptReporter
<1> HIDE DEF authorized
<1>8. IsStore(properties', Records \X Properties, Property)
  BY <1>6, <1>7, PutAllStore DEF TypeOK
<1> QED
  BY <1>3, <1>8 DEF TypeOK, AcceptReporter

(* Every transaction keeps the stores well-formed.                         *)
LEMMA NextType == TypeOK /\ [Next]_vars => TypeOK'
<1> SUFFICES ASSUME TypeOK, [Next]_vars PROVE TypeOK'
  OBVIOUS
<1>1. CASE UNCHANGED vars
  BY <1>1 DEF vars, TypeOK
<1>2. ASSUME NEW p \in Participants, RecordTransaction(p) PROVE TypeOK'
  <2>1. CASE CreateParticipant(p)
    BY <2>1, CreateParticipantType
  <2>2. CASE \E t \in Tables, schema \in Schemas : CreateTable(t, schema)
    BY <2>2, CreateTableType
  <2>3. ASSUME NEW r \in Records, NEW t \in Tables, NEW provided, NEW ts \in Timestamps,
               CreateRecord(p, r, t, provided, ts)
        PROVE  TypeOK'
    BY <2>3, CreateRecordType
  <2>4. CASE \E r \in Records : FinalizeRecord(p, r)
    BY <2>4, FinalizeRecordType
  <2>5. ASSUME NEW r \in Records, NEW names \in SUBSET Properties, NEW ts \in Timestamps,
               NEW updates \in [names -> Types], UpdateProperties(p, r, updates, ts)
        PROVE  TypeOK'
    BY <2>5, UpdatePropertiesType
  <2>6. ASSUME NEW r \in Records, NEW q \in Participants, NEW names \in SUBSET Properties,
               RevokeReporter(p, r, q, names)
        PROVE  TypeOK'
    BY <2>6, RevokeReporterType
  <2> QED
    BY <1>2, <2>1, <2>2, <2>3, <2>4, <2>5, <2>6 DEF RecordTransaction
<1>3. ASSUME NEW p \in Participants, ProposalTransaction(p) PROVE TypeOK'
  <2>1. CASE \E c \in ProposalPayloads : CreateProposal(p, c)
    BY <2>1, CreateProposalType, PayloadsAssumption
  <2>2. ASSUME NEW a \in AnswerPayloads, AnswerProposal(p, a) PROVE TypeOK'
    BY <2>2, RefusalType, ExchangeType, AcceptCoinsType, AcceptOwnershipType,
       AcceptCustodianshipType, AcceptReporterType
    DEF AnswerProposal
  <2> QED
    BY <1>3, <2>1, <2>2 DEF ProposalTransaction
<1> QED
  BY <1>1, <1>2, <1>3 DEF Next

(* Whatever transactions arrive, the stores hold only entries of the       *)
(* declared shape, under keys of their own kind.                           *)
THEOREM TypeCorrect == Spec => []TypeOK
<1>1. Init => TypeOK
  BY InitType
<1>2. TypeOK /\ [Next]_vars => TypeOK'
  BY NextType
<1> QED
  BY <1>1, <1>2, PTL DEF Spec

-----------------------------------------------------------------------------
(* Coins. *)

\* What NoOverdraft says of a step and a participant that is there before.
Covered(p) ==
  participants[p].credit >= 0 /\ Funds(p)' < Funds(p) /\ Funds(p)' < 0 => AnswersNegative

(* What is left in an entry whose balance or credit changes.               *)
LEMMA ChangedAccount ==
  ASSUME NEW entry \in Participant, NEW amount \in Int
  PROVE  LET up == [entry EXCEPT !.balance = @ + amount]
             down == [entry EXCEPT !.balance = @ - amount]
             granted == [entry EXCEPT !.credit = @ + amount]
         IN  /\ up.balance + up.credit = entry.balance + entry.credit + amount
             /\ down.balance + down.credit = entry.balance + entry.credit - amount
             /\ granted.balance + granted.credit = entry.balance + entry.credit + amount
<1>1. entry.balance \in Int /\ entry.credit \in Int
  BY DEF Participant
<1>2. [entry EXCEPT !.balance = @ + amount].balance = entry.balance + amount
  BY DEF Participant
<1>3. [entry EXCEPT !.balance = @ - amount].balance = entry.balance - amount
  BY DEF Participant
<1>4. /\ [entry EXCEPT !.balance = @ + amount].credit = entry.credit
      /\ [entry EXCEPT !.balance = @ - amount].credit = entry.credit
      /\ [entry EXCEPT !.credit = @ + amount].balance = entry.balance
      /\ [entry EXCEPT !.credit = @ + amount].credit = entry.credit + amount
  BY DEF Participant
<1> QED
  BY <1>1, <1>2, <1>3, <1>4

(* What a signer or a receiver has before its entry is changed.            *)
LEMMA Account ==
  ASSUME TypeOK, NEW p, Contains(participants, p)
  PROVE  /\ participants[p] \in Participant
         /\ participants[p].balance \in Int /\ participants[p].credit \in Int
<1>1. participants[p] \in Participant
  BY DEF TypeOK, IsStore, Contains
<1> QED
  BY <1>1 DEF Participant

(* Who is set to an entry with more than before, or with something left,   *)
(* is covered; and so is everybody else.                                   *)
LEMMA AccountSet ==
  ASSUME TypeOK, NEW p, NEW entry, participants' = Put(participants, p, entry),
         entry.balance + entry.credit \in Int,
         \/ p \notin DOMAIN participants
         \/ entry.balance + entry.credit >= Funds(p)
         \/ entry.balance + entry.credit >= 0
         \/ AnswersNegative,
         NEW k \in DOMAIN participants
  PROVE  Covered(k)
<1>1. participants[k].balance + participants[k].credit \in Int
  BY Account DEF Contains
<1>2. CASE k # p
  <2>1. Funds(k)' = Funds(k)
    BY <1>2 DEF Put, Funds
  <2>2. Funds(k) \in Int
    BY <1>1 DEF Funds
  <2> QED
    BY <2>1, <2>2 DEF Covered
<1>3. CASE k = p
  <2>1. Funds(k)' = entry.balance + entry.credit
    BY <1>3 DEF Put, Funds
  <2>2. Funds(k) \in Int
    BY <1>1 DEF Funds
  <2> QED
    BY <1>3, <2>1, <2>2 DEF Covered
<1> QED
  BY <1>2, <1>3

(* The buyer's answers credit the signer, the seller's check its funds     *)
(* before they debit it.                                                   *)
LEMMA ExchangeCovered ==
  ASSUME TypeOK, NEW p \in Participants, NEW a \in AnswerPayloads,
         \/ AutoOpenBuy(p, a) \/ AutoOpenSell(p, a)
         \/ AutoCloseBuy(p, a) \/ AutoCloseSell(p, a),
         NEW k \in DOMAIN participants
  PROVE  Covered(k)
<1>1. a.amount \in Int
  BY PayloadsAssumption DEF AnswerPayload
<1>2. Contains(participants, p)
  BY DEF AutoOpenBuy, AutoOpenSell, AutoCloseBuy, AutoCloseSell, MayAnswer
<1> DEFINE up == [participants[p] EXCEPT !.balance = @ + a.amount]
           down == [participants[p] EXCEPT !.balance = @ - a.amount]
           funds == participants[p].balance + participants[p].credit
<1>3. /\ participants[p] \in Participant /\ funds \in Int /\ Funds(p) = funds
      /\ up.balance + up.credit = funds + a.amount
      /\ down.balance + down.credit = funds - a.amount
  <2>1. /\ participants[p] \in Participant
        /\ participants[p].balance \in Int /\ participants[p].credit \in Int
    BY <1>2, Account
  <2> QED
    BY <1>1, <2>1, ChangedAccount DEF Funds
<1>4. \/ a.role = "buyDGC" /\ participants' = Put(participants, p, up)
      \/ Funds(p) >= a.amount /\ participants' = Put(participants, p, down)
  BY DEF AutoOpenBuy, AutoOpenSell, AutoCloseBuy, AutoCloseSell
<1>5. a.role = "buyDGC" /\ a.amount < 0 => AnswersNegative
  BY DEF AnswersNegative, AnswerProposal
<1> HIDE DEF up, down, funds
<1>6. CASE a.role = "buyDGC" /\ participants' = Put(participants, p, up)
  <2>1. /\ up.balance + up.credit \in Int
        /\ up.balance + up.credit >= Funds(p) \/ AnswersNegative
    BY <1>1, <1>3, <1>5, <1>6
  <2> QED
    BY <1>6, <2>1, AccountSet
<1>7. CASE Funds(p) >= a.amount /\ participants' = Put(participants, p, down)
  <2>1. down.balance + down.credit \in Int /\ down.balance + down.credit >= 0
    BY <1>1, <1>3, <1>7
  <2> QED
    BY <1>7, <2>1, AccountSet
<1> QED
  BY <1>4, <1>6, <1>7

(* A credit that is not negative only adds, and a transfer checks the      *)
(* signer's balance alone, which is at most its funds if it has credit.    *)
LEMMA AcceptCoinsCovered ==
  ASSUME TypeOK, NEW p \in Participants, NEW a \in AnswerPayloads,
         AcceptCredit(p, a) \/ AcceptTransferCoins(p, a),
         NEW k \in DOMAIN participants
  PROVE  Covered(k)
<1>1. a.amount \in Int
  BY PayloadsAssumption DEF AnswerPayload
<1>2. Contains(participants, p) /\ Contains(participants, a.receiver)
  BY DEF AcceptCredit, AcceptTransferCoins, MayAccept, MayAnswer
<1>3. a.amount < 0 => AnswersNegative
  BY DEF AnswersNegative, AnswerProposal, AcceptCredit, AcceptTransferCoins
<1>4. CASE AcceptCredit(p, a)
  <2> DEFINE credited == [participants[a.receiver] EXCEPT !.credit = @ + a.amount]
             funds == participants[a.receiver].balance + participants[a.receiver].credit
  <2>1. /\ funds \in Int /\ Funds(a.receiver) = funds
        /\ credited.balance + credited.credit = funds + a.amount
    <3>1. /\ participants[a.receiver] \in Participant
          /\ participants[a.receiver].balance \in Int /\ participants[a.receiver].credit \in Int
      BY <1>2, Account
    <3> QED
      BY <1>1, <3>1, ChangedAccount DEF Funds
  <2>2. participants' = Put(participants, a.receiver, credited)
    BY <1>4 DEF AcceptCredit
  <2> HIDE DEF credited, funds
  <2>3. /\ credited.balance + credited.credit \in Int
        /\ credited.balance + credited.credit >= Funds(a.receiver) \/ AnswersNegative
    BY <1>1, <1>3, <2>1
  <2> QED
    BY <2>2, <2>3, AccountSet
<1>5. CASE AcceptTransferCoins(p, a) /\ a.amount >= 0
  <2> DEFINE debited == [participants[p] EXCEPT !.balance = @ - a.amount]
             credited == [participants[a.receiver] EXCEPT !.balance = @ + a.amount]
             mine == participants[p].balance + participants[p].credit
             theirs == participants[a.receiver].balance + participants[a.receiver].credit
  <2>1. /\ participants[p].balance \in Int /\ participants[p].credit \in Int
        /\ mine \in Int /\ theirs \in Int
        /\ debited.balance + debited.credit = mine - a.amount
        /\ credited.balance + credited.credit = theirs + a.amount
    <3>1. /\ participants[p] \in Participant /\ participants[a.receiver] \in Participant
          /\ participants[p].balance \in Int /\ participants[p].credit \in Int
          /\ participants[a.receiver].balance \in Int /\ participants[a.receiver].credit \in Int
      BY <1>2, Account
    <3> QED
      BY <1>1, <3>1, ChangedAccount
  <2>2. participants[p].balance >= a.amount
    BY <1>5 DEF AcceptTransferCoins
  <2>3. participants' = Put(Put(participants, p, debited), a.receiver, credited)
    BY <1>5 DEF AcceptTransferCoins
  <2>4. participants[k].balance \in Int /\ participants[k].credit \in Int
    BY Account DEF Contains
  <2>5. Funds(k) = participants[k].balance + participants[k].credit
    BY DEF Funds
  <2>6. Funds(k)' = participants'[k].balance + participants'[k].credit
    BY DEF Funds
  <2>7. CASE k = a.receiver
    <3>1. participants'[k] = credited
      BY <2>3, <2>7 DEF Put
    <3>2. Funds(k) = theirs
      BY <2>7 DEF Funds
    <3> HIDE DEF credited, theirs
    <3>3. Funds(k)' >= Funds(k)
      BY <1>1, <1>5, <2>1, <2>6, <3>1, <3>2
    <3> QED
      BY <1>1, <2>1, <2>6, <3>1, <3>2, <3>3 DEF Covered
  <2>8. CASE k # a.receiver /\ k = p
    <3>1. participants'[k] = debited
      BY <2>3, <2>8 DEF Put
    <3>2. mine = participants[k].balance + participants[k].credit
      BY <2>8
    <3> HIDE DEF debited, mine
    <3>3. participants[k].credit >= 0 => Funds(k)' >= 0
      BY <1>1, <2>1, <2>2, <2>4, <2>6, <2>8, <3>1, <3>2
    <3> QED
      BY <1>1, <2>1, <2>6, <3>1, <3>3 DEF Covered
  <2>9. CASE k # a.receiver /\ k # p
    <3>1. participants'[k] = participants[k]
      BY <2>3, <2>9 DEF Put
    <3> QED
      BY <2>4, <2>5, <2>6, <3>1 DEF Covered
  <2> QED
    BY <2>7, <2>8, <2>9
<1> QED
  BY <1>1, <1>3, <1>4, <1>5 DEF Covered

(* Every transaction.                                                      *)
LEMMA NextCovered ==
  ASSUME TypeOK, [Next]_vars, NEW k \in DOMAIN participants
  PROVE  Covered(k)
<1>1. CASE UNCHANGED participants
  <2>1. participants[k].balance + participants[k].credit \in Int
    BY Account DEF Contains
  <2>2. Funds(k)' = Funds(k) /\ Funds(k) \in Int
    BY <1>1, <2>1 DEF Funds
  <2> QED
    BY <2>2 DEF Covered
<1>2. ASSUME NEW p \in Participants, RecordTransaction(p) PROVE Covered(k)
  <2>1. CASE CreateParticipant(p)
    <3>1. NewParticipant.balance + NewParticipant.credit = 0
      BY DEF NewParticipant
    <3> QED
      BY <2>1, <3>1, AccountSet DEF CreateParticipant
  <2>2. CASE ~CreateParticipant(p)
    <3>1. UNCHANGED participants
      BY <1>2, <2>2
      DEF RecordTransaction, CreateTable, CreateRecord, FinalizeRecord,
          UpdateProperties, RevokeReporter
    <3> QED
      BY <1>1, <3>1
  <2> QED
    BY <2>1, <2>2
<1>3. ASSUME NEW p \in Participants, ProposalTransaction(p) PROVE Covered(k)
  <2>1. CASE \E c \in ProposalPayloads : CreateProposal(p, c)
    BY <1>1, <2>1 DEF CreateProposal
  <2>2. ASSUME NEW a \in AnswerPayloads, AnswerProposal(p, a) PROVE Covered(k)
    <3>1. CASE \/ CancelProposal(p, a) \/ RejectProposal(p, a)
               \/ AcceptOwnership(p, a) \/ AcceptCustodianship(p, a)
               \/ AcceptReporter(p, a)
      BY <1>1, <3>1
      DEF CancelProposal, RejectProposal, AcceptOwnership, AcceptCustodianship,
          AcceptReporter
    <3> QED
      BY <2>2, <3>1, ExchangeCovered, AcceptCoinsCovered DEF AnswerProposal
  <2> QED
    BY <1>3, <2>1, <2>2 DEF ProposalTransaction
<1> QED
  BY <1>1, <1>2, <1>3 DEF Next, vars

(* Only negative amounts overdraw anybody who has credit, for any          *)
(* participants, proposals and amounts: the three checks of the handlers   *)
(* suffice for all others.                                                 *)
THEOREM OverdraftsAreNegative == Spec => NoOverdraft
<1> DEFINE Step ==
      \A p \in DOMAIN participants :
        participants[p].credit >= 0 /\ Funds(p)' < Funds(p) /\ Funds(p)' < 0 => AnswersNegative
<1>1. TypeOK /\ [Next]_vars => [Step]_vars
  BY NextCovered DEF Covered
<1> QED
  BY <1>1, TypeCorrect, PTL DEF Spec, NoOverdraft

-----------------------------------------------------------------------------
(* What moves. *)

(* A transaction that sets the entry of one participant moves no other     *)
(* balance.                                                                *)
LEMMA OneMoves ==
  /\ UNCHANGED participants => Moved = {}
  /\ \A x, entry : participants' = Put(participants, x, entry) => Moved \subseteq {x}
  BY DEF Moved, Put

(* Buying and selling set the balance of the signer.                       *)
LEMMA SignerMoves ==
  ASSUME TypeOK, NEW p, NEW a \in AnswerPayloads,
         \/ AutoOpenBuy(p, a) \/ AutoOpenSell(p, a)
         \/ AutoCloseBuy(p, a) \/ AutoCloseSell(p, a)
  PROVE  /\ Moved \subseteq {p}
         /\ p \in DOMAIN participants
         /\ participants'[p].balance - participants[p].balance \in {a.amount, -a.amount}
         /\ a.amount # 0 => p \in Moved
<1> DEFINE mine == participants[p]
           up == [mine EXCEPT !.balance = @ + a.amount]
           down == [mine EXCEPT !.balance = @ - a.amount]
<1>1. a.amount \in Int
  BY PayloadsAssumption DEF AnswerPayload
<1>2. p \in DOMAIN participants
  BY DEF AutoOpenBuy, AutoOpenSell, AutoCloseBuy, AutoCloseSell, MayAnswer, Contains
<1>3. mine \in Participant /\ mine.balance \in Int
  BY <1>2 DEF TypeOK, IsStore, Participant
<1>4. up.balance = mine.balance + a.amount /\ down.balance = mine.balance - a.amount
  BY <1>3 DEF Participant
<1>5. PICK entry \in {up, down} : participants' = Put(participants, p, entry)
  BY DEF AutoOpenBuy, AutoOpenSell, AutoCloseBuy, AutoCloseSell
<1>6. Moved \subseteq {p}
  BY <1>5, OneMoves
<1> HIDE DEF mine, up, down
<1>7. participants'[p] = entry
  BY <1>5 DEF Put
<1>8. entry.balance - mine.balance \in {a.amount, -a.amount}
  BY <1>1, <1>3, <1>4, <1>5
<1>9. a.amount # 0 => entry.balance # mine.balance
  BY <1>1, <1>3, <1>4, <1>5
<1> QED
  BY <1>2, <1>6, <1>7, <1>8, <1>9 DEF Moved, mine

(* What an answer does to what a proposal has exchanged.                   *)
LEMMA AmountsBooked ==
  ASSUME TypeOK, NEW a \in AnswerPayloads, Contains(proposals, a.id), NEW status,
         NEW id \in DOMAIN proposals
  PROVE  /\ SetStatus(a.id, status) => proposals'[id].exchanged = proposals[id].exchanged
         /\ Exchanged(a.id, a.amount, status) =>
              proposals'[id].exchanged - proposals[id].exchanged =
                IF id = a.id THEN a.amount ELSE 0
<1>1. a.amount \in Int
  BY PayloadsAssumption DEF AnswerPayload
<1>2. \A x \in DOMAIN proposals :
        proposals[x] \in Proposal /\ proposals[x].exchanged \in Int
  BY DEF TypeOK, IsStore, Proposal
<1>3. proposals[a.id] \in Proposal /\ proposals[a.id].exchanged \in Int
  BY <1>2 DEF Contains
<1>4. ASSUME SetStatus(a.id, status)
      PROVE  proposals'[id].exchanged = proposals[id].exchanged
  <2> DEFINE entry == [proposals[a.id] EXCEPT !.status = status]
  <2>1. entry.exchanged = proposals[a.id].exchanged
    BY <1>3 DEF Proposal
  <2>2. proposals' = Put(proposals, a.id, entry)
    BY <1>4 DEF SetStatus
  <2> HIDE DEF entry
  <2> QED
    BY <2>1, <2>2 DEF Put
<1>5. ASSUME Exchanged(a.id, a.amount, status)
      PROVE  proposals'[id].exchanged - proposals[id].exchanged =
               IF id = a.id THEN a.amount ELSE 0
  <2> DEFINE sum == proposals[a.id].exchanged + a.amount
             entry == [proposals[a.id] EXCEPT !.exchanged = sum, !.status = status]
  <2>1. proposals' = Put(proposals, a.id, entry)
    BY <1>5 DEF Exchanged
  <2>2. sum \in Int /\ sum - proposals[a.id].exchanged = a.amount
    BY <1>1, <1>3
  <2> HIDE DEF sum
  <2>3. entry.exchanged = sum
    BY <1>3 DEF Proposal
  <2> HIDE DEF entry
  <2>4. CASE id = a.id
    <3>1. proposals'[id].exchanged = sum
      BY <2>1, <2>3, <2>4 DEF Put
    <3> QED
      BY <2>2, <2>4, <3>1
  <2>5. CASE id # a.id
    <3>1. proposals'[id] = proposals[id]
      BY <2>1, <2>5 DEF Put
    <3>2. proposals[id].exchanged \in Int
      BY <1>2
    <3> QED
      BY <2>5, <3>1, <3>2
  <2> QED
    BY <2>4, <2>5
<1> QED
  BY <1>4, <1>5

(* Every transaction that books something, and what it moves.              *)
LEMMA BookedMoves ==
  ASSUME TypeOK, [Next]_vars, NEW id \in DOMAIN proposals,
         proposals'[id].exchanged - proposals[id].exchanged # 0, proposals'[id].exchanged # 0
  PROVE  \E p \in Moved :
           /\ Moved = {p}
           /\ participants'[p].balance - participants[p].balance
                \in {proposals'[id].exchanged - proposals[id].exchanged,
                     -(proposals'[id].exchanged - proposals[id].exchanged)}
<1> DEFINE amount == proposals'[id].exchanged - proposals[id].exchanged
<1>1. proposals[id].exchanged \in Int
  BY DEF TypeOK, IsStore, Proposal
<1>2. ~UNCHANGED proposals
  BY <1>1
<1>3. ASSUME NEW p, NEW c \in ProposalPayloads, CreateProposal(p, c) PROVE FALSE
  <2>1. id # c.id => proposals'[id] = proposals[id]
    BY <1>3 DEF CreateProposal, Put
  <2>2. id = c.id => proposals'[id].exchanged = 0
    BY <1>3 DEF CreateProposal, Put
  <2> QED
    BY <1>1, <2>1, <2>2
<1>4. PICK p \in Participants, a \in AnswerPayloads : AnswerProposal(p, a)
  <2>1. CASE UNCHANGED vars
    BY <1>2, <2>1 DEF vars
  <2>2. CASE Next
    <3>1. PICK p \in Participants : RecordTransaction(p) \/ ProposalTransaction(p)
      BY <2>2 DEF Next
    <3>2. ~RecordTransaction(p)
      BY <1>2
      DEF RecordTransaction, CreateParticipant, CreateTable, CreateRecord,
          FinalizeRecord, UpdateProperties, RevokeReporter
    <3> QED
      BY <1>3, <3>1, <3>2 DEF ProposalTransaction
  <2> QED
    BY <2>1, <2>2
<1>5. Contains(proposals, a.id)
  BY <1>4
  DEF AnswerProposal, CancelProposal, RejectProposal, AutoOpenBuy, AutoOpenSell,
      AutoCloseBuy, AutoCloseSell, AcceptCredit, AcceptTransferCoins,
      AcceptOwnership, AcceptCustodianship, AcceptReporter, MayAccept, MayAnswer
<1>6. \A status : ~SetStatus(a.id, status)
  <2> SUFFICES ASSUME NEW status, SetStatus(a.id, status) PROVE FALSE
    OBVIOUS
  <2>1. proposals'[id].exchanged = proposals[id].exchanged
    BY <1>5, AmountsBooked
  <2> QED
    BY <1>1, <2>1
<1>7. \/ AutoOpenBuy(p, a) \/ AutoOpenSell(p, a)
      \/ AutoCloseBuy(p, a) \/ AutoCloseSell(p, a)
  BY <1>4, <1>6
  DEF AnswerProposal, CancelProposal, RejectProposal, AcceptCredit,
      AcceptTransferCoins, AcceptOwnership, AcceptCustodianship, AcceptReporter
<1>8. \E status : Exchanged(a.id, a.amount, status)
  BY <1>7 DEF AutoOpenBuy, AutoOpenSell, AutoCloseBuy, AutoCloseSell
<1>9. amount = IF id = a.id THEN a.amount ELSE 0
  BY <1>5, <1>8, AmountsBooked
<1>10. amount # 0
  OBVIOUS
<1> HIDE DEF amount
<1>11. amount = a.amount /\ a.amount # 0
  BY <1>9, <1>10
<1>12. /\ Moved = {p} /\ p \in Moved
       /\ participants'[p].balance - participants[p].balance \in {a.amount, -a.amount}
  BY <1>7, <1>11, SignerMoves
<1> QED
  BY <1>11, <1>12 DEF amount

(* What is booked is what moved.                                           *)
THEOREM ExchangesAreBooked == Spec => ExchangesBooked
<1> DEFINE Step ==
      \A id \in DOMAIN proposals :
        LET amount == proposals'[id].exchanged - proposals[id].exchanged
        IN  amount # 0 /\ proposals'[id].exchanged # 0 =>
              \E p \in Moved :
                /\ Moved = {p}
                /\ participants'[p].balance - participants[p].balance
                     \in {amount, -amount}
<1>1. TypeOK /\ [Next]_vars => [Step]_vars
  BY BookedMoves
<1> QED
  BY <1>1, TypeCorrect, PTL DEF Spec, ExchangesBooked

-----------------------------------------------------------------------------
(* Transfers. *)

(* Two balances move in a transfer only.                                   *)
LEMMA TwoMove ==
  ASSUME TypeOK, [Next]_vars, NEW x \in Moved, NEW y \in Moved, x # y
  PROVE  \E p, a : a \in AnswerPayloads /\ AcceptTransferCoins(p, a)
<1>1. ~UNCHANGED participants
  BY OneMoves
<1>2. \A q, entry : participants' # Put(participants, q, entry)
  <2> SUFFICES ASSUME NEW q, NEW entry, participants' = Put(participants, q, entry)
               PROVE  FALSE
    OBVIOUS
  <2>1. Moved \subseteq {q}
    BY OneMoves
  <2> QED
    BY <2>1
<1>3. CASE UNCHANGED vars
  BY <1>1, <1>3 DEF vars
<1>4. CASE Next
  <2>1. PICK p \in Participants : RecordTransaction(p) \/ ProposalTransaction(p)
    BY <1>4 DEF Next
  <2>2. ~RecordTransaction(p)
    BY <1>1, <1>2
    DEF RecordTransaction, CreateParticipant, CreateTable, CreateRecord,
        FinalizeRecord, UpdateProperties, RevokeReporter
  <2>3. \A c : ~CreateProposal(p, c)
    BY <1>1 DEF CreateProposal
  <2>4. PICK a \in AnswerPayloads : AnswerProposal(p, a)
    BY <2>1, <2>2, <2>3 DEF ProposalTransaction
  <2>5. AcceptTransferCoins(p, a)
    <3>1. /\ ~AutoOpenBuy(p, a) /\ ~AutoOpenSell(p, a)
          /\ ~AutoCloseBuy(p, a) /\ ~AutoCloseSell(p, a) /\ ~AcceptCredit(p, a)
      BY <1>2
      DEF AutoOpenBuy, AutoOpenSell, AutoCloseBuy, AutoCloseSell, AcceptCredit
    <3>2. /\ ~CancelProposal(p, a) /\ ~RejectProposal(p, a) /\ ~AcceptOwnership(p, a)
          /\ ~AcceptCustodianship(p, a) /\ ~AcceptReporter(p, a)
      BY <1>1
      DEF CancelProposal, RejectProposal, AcceptOwnership, AcceptCustodianship,
          AcceptReporter
    <3> QED
      BY <2>4, <3>1, <3>2 DEF AnswerProposal
  <2> QED
    BY <2>5
<1> QED
  BY <1>3, <1>4

(* What leaves the signer arrives at the receiver.                         *)
LEMMA TransferMoves ==
  ASSUME TypeOK, NEW p, NEW a \in AnswerPayloads, AcceptTransferCoins(p, a)
  PROVE  /\ Moved \subseteq {p, a.receiver}
         /\ a.receiver # p =>
              participants'[p].balance + participants'[a.receiver].balance
                = participants[p].balance + participants[a.receiver].balance
<1> DEFINE q == a.receiver
           mine == participants[p]
           theirs == participants[q]
           debited == [mine EXCEPT !.balance = @ - a.amount]
           credited == [theirs EXCEPT !.balance = @ + a.amount]
<1>1. a.amount \in Int
  BY PayloadsAssumption DEF AnswerPayload
<1>2. p \in DOMAIN participants /\ q \in DOMAIN participants
  BY DEF AcceptTransferCoins, MayAccept, MayAnswer, Contains
<1>3. /\ mine \in Participant /\ mine.balance \in Int
      /\ theirs \in Participant /\ theirs.balance \in Int
  BY <1>2 DEF TypeOK, IsStore, Participant
<1>4. debited.balance = mine.balance - a.amount /\ credited.balance = theirs.balance + a.amount
  BY <1>3 DEF Participant
<1>5. participants' = Put(Put(participants, p, debited), q, credited)
  BY DEF AcceptTransferCoins
<1> HIDE DEF mine, theirs, debited, credited
<1>6. Moved \subseteq {p, q}
  BY <1>5 DEF Moved, Put
<1>7. q # p => participants'[p] = debited /\ participants'[q] = credited
  BY <1>2, <1>5 DEF Put
<1>8. debited.balance + credited.balance = mine.balance + theirs.balance
  BY <1>1, <1>3, <1>4
<1> QED
  BY <1>6, <1>7, <1>8 DEF mine, theirs

(* Coins neither appear nor disappear between two participants.            *)
THEOREM TransfersAreBalanced == Spec => TransfersBalanced
<1> DEFINE Step ==
      \A p, q \in Moved : p # q =>
        /\ Moved = {p, q}
        /\ participants'[p].balance + participants'[q].balance
             = participants[p].balance + participants[q].balance
<1>1. TypeOK /\ [Next]_vars => Step
  <2> SUFFICES ASSUME TypeOK, [Next]_vars, NEW p \in Moved, NEW q \in Moved, p # q
               PROVE  /\ Moved = {p, q}
                      /\ participants'[p].balance + participants'[q].balance
                           = participants[p].balance + participants[q].balance
    OBVIOUS
  <2>1. PICK x, a : a \in AnswerPayloads /\ AcceptTransferCoins(x, a)
    BY TwoMove
  <2> DEFINE y == a.receiver
  <2>2. /\ Moved \subseteq {x, y}
        /\ y # x => participants'[x].balance + participants'[y].balance
                      = participants[x].balance + participants[y].balance
    BY <2>1, TransferMoves
  <2> HIDE DEF y
  <2>3. \/ p = x /\ q = y
        \/ p = y /\ q = x
    BY <2>2
  <2>4. Moved = {p, q}
    BY <2>2, <2>3
  <2>5. CASE p = x /\ q = y
    BY <2>2, <2>4, <2>5
  <2>6. CASE p = y /\ q = x
    <3> DEFINE px == participants'[x].balance
               py == participants'[y].balance
               ox == participants[x].balance
               oy == participants[y].balance
    <3>1. px \in Int /\ py \in Int /\ ox \in Int /\ oy \in Int
      <4>1. x \in DOMAIN participants /\ y \in DOMAIN participants
        BY <2>6 DEF Moved
      <4>2. x \in DOMAIN participants' /\ y \in DOMAIN participants'
        BY <2>1, <4>1 DEF AcceptTransferCoins, Put
      <4>3. TypeOK'
        BY NextType
      <4> QED
        BY <4>1, <4>2, <4>3 DEF TypeOK, IsStore, Participant
    <3>2. px + py = ox + oy
      BY <2>2, <2>6
    <3> HIDE DEF px, py, ox, oy
    <3>3. py + px = oy + ox
      BY <3>1, <3>2
    <3> QED
      BY <2>4, <2>6, <3>3 DEF px, py, ox, oy
  <2> QED
    BY <2>3, <2>5, <2>6
<1>2. TypeOK /\ [Next]_vars => [Step]_vars
  BY <1>1
<1> QED
  BY <1>2, TypeCorrect, PTL DEF Spec, TransfersBalanced
=============================================================================
