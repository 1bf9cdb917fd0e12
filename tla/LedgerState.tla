----------------------------- MODULE LedgerState -----------------------------
(***************************************************************************)
(* The state the transaction processor keeps in the validator's Merkle     *)
(* state (processor/src/handler.rs, StateDGC).  Every accessor of StateDGC *)
(* reads or replaces the entry of one natural key in the container stored  *)
(* at the key's address, so each kind of entry is a store: a function      *)
(* whose domain is the set of keys that have an entry.                     *)
(***************************************************************************)
EXTENDS PropertyPages, Integers, Sequences, FiniteSets

CONSTANTS
  Participants,     \* public keys
  Tables,           \* table names
  Records,          \* record ids
  Properties,       \* property names
  ProposalIds,      \* proposal ids
  Types,            \* the data types a value can be reported in
  Schemas,          \* the table schemas clients create
  Timestamps,       \* payload timestamps
  ProposalPayloads, \* the CreateProposal payloads clients send
  AnswerPayloads,   \* the AnswerProposal payloads clients send
  Nobody,           \* an empty participant field of a payload
  NoRecord          \* an empty record field of a payload

VARIABLES
  participants,     \* public key -> coin balance and credit
  tables,           \* table name -> schema
  records,          \* record id -> table, owners, custodians, final
  properties,       \* <<record id, name>> -> reporters, current page, ...
  pages,            \* <<record id, name, page number>> -> reported values
  proposals,        \* proposal id -> proposal
  exchanges         \* the <<buy proposal id, sell proposal id>> pairs set

vars == <<participants, tables, records, properties, pages, proposals, exchanges>>

-----------------------------------------------------------------------------
(* Payload vocabulary.  An amount of coins is a number of whole units, of  *)
(* either sign: nothing on its way to a handler looks at the sign.         *)

RecordRoles == {"transferOwnership", "transferCustodianship", "authorizeReporter"}
CoinRoles == {"buyDGC", "sellDGC", "creditDGC", "transferDGC"}
Roles == RecordRoles \cup CoinRoles

Responses == {"ACCEPT", "REJECT", "CANCEL", "autoCLOSE", "autoOPEN"}
Statuses == {"OPEN", "ACCEPTED", "REJECTED", "CANCELED", "CLOSED"}

PropertySchema ==
  [type: Types, required: BOOLEAN, fixed: BOOLEAN, delayed: BOOLEAN]

ProposalPayload ==
  [id: ProposalIds, role: Roles, receiver: Participants \cup {Nobody},
   record: Records \cup {NoRecord}, properties: SUBSET Properties, amount: Int]

AnswerPayload ==
  [id: ProposalIds, response: Responses, role: Roles,
   receiver: Participants \cup {Nobody}, record: Records \cup {NoRecord},
   amount: Int, exchanges: SUBSET (ProposalIds \X ProposalIds)]

(* Table schemas are accepted with at least one property, and timestamps   *)
(* only when set (PayloadDGC::new).                                        *)
ASSUME SchemasAssumption ==
  \A s \in Schemas :
    /\ s \in [DOMAIN s -> PropertySchema]
    /\ DOMAIN s \subseteq Properties
    /\ DOMAIN s # {}
ASSUME TimestampsAssumption == Timestamps \subseteq Nat \ {0}
ASSUME PayloadsAssumption ==
  ProposalPayloads \subseteq ProposalPayload /\ AnswerPayloads \subseteq AnswerPayload
ASSUME EmptyFieldsAssumption == Nobody \notin Participants /\ NoRecord \notin Records

-----------------------------------------------------------------------------
(* Stores. *)

Contains(store, key) == key \in DOMAIN store

\* The entry of key is replaced, or added where there was none.
Put(store, key, entry) ==
  [k \in DOMAIN store \cup {key} |-> IF k = key THEN entry ELSE store[k]]

\* The entries of every key of `entries` are replaced or added.
PutAll(store, entries) ==
  [k \in DOMAIN store \cup DOMAIN entries |->
     IF k \in DOMAIN entries THEN entries[k] ELSE store[k]]

IsStore(store, Keys, Entries) ==
  /\ store = [k \in DOMAIN store |-> store[k]]
  /\ DOMAIN store \subseteq Keys
  /\ \A k \in DOMAIN store : store[k] \in Entries

-----------------------------------------------------------------------------
(* Entries. *)

Participant == [balance: Int, credit: Int]

Record ==
  [table: Tables, owners: Seq(Participants), custodians: Seq(Participants),
   final: BOOLEAN]

Reporter == [key: Participants, authorized: BOOLEAN, index: Nat]

Property ==
  [reporters: Seq(Reporter), currentPage: Nat, wrapped: BOOLEAN,
   fixed: BOOLEAN, type: Types]

ReportedValue == [timestamp: Timestamps, reporterIndex: Nat]

Proposal ==
  [status: Statuses, role: Roles, issuer: Participants,
   receiver: Participants \cup {Nobody}, record: Records \cup {NoRecord},
   properties: SUBSET Properties, amount: Int, exchanged: Int]

(* Every store holds well-formed entries under the keys of its kind.       *)
TypeOK ==
  /\ IsStore(participants, Participants, Participant)
  /\ IsStore(tables, Tables, Schemas)
  /\ IsStore(records, Records, Record)
  /\ IsStore(properties, Records \X Properties, Property)
  /\ IsStore(pages, Records \X Properties \X Nat, Seq(ReportedValue))
  /\ IsStore(proposals, ProposalIds, Proposal)
  /\ exchanges \subseteq ProposalIds \X ProposalIds

-----------------------------------------------------------------------------
(* What the handlers read of the entries. *)

Latest(s) == s[Len(s)]
Owner(r) == Latest(records[r].owners)
Custodian(r) == Latest(records[r].custodians)

\* A participant without a balance or credit entry has zero of it.
NewParticipant == [balance |-> 0, credit |-> 0]

EmptyStore == [k \in {} |-> 0]

Init ==
  /\ participants = EmptyStore
  /\ tables = EmptyStore
  /\ records = EmptyStore
  /\ properties = EmptyStore
  /\ pages = EmptyStore
  /\ proposals = EmptyStore
  /\ exchanges = {}
=============================================================================
