----------------------------- MODULE MCProcessor -----------------------------
(***************************************************************************)
(* Bounded instances of Processor.  The payload sets are what the server   *)
(* builds (server/transaction/proposals.js): the fields a role has no use  *)
(* for are empty.                                                          *)
(***************************************************************************)
EXTENDS Processor, Queries, TLC

CONSTANTS
  Amounts,        \* coin amounts in payloads
  MaxCoins,       \* bound on every balance, credit and exchanged amount
  MaxHistory,     \* bound on owners plus custodians of a record
  MaxReporters    \* bound on the reporter entries of a property

Within ==
  /\ \A p \in DOMAIN participants :
       /\ participants[p].balance \in -MaxCoins .. MaxCoins
       /\ participants[p].credit \in -MaxCoins .. MaxCoins
  /\ \A id \in DOMAIN proposals : proposals[id].exchanged \in -MaxCoins .. MaxCoins
  /\ \A r \in DOMAIN records :
       Len(records[r].owners) + Len(records[r].custodians) <= MaxHistory
  /\ \A k \in DOMAIN properties :
       Len(properties[k].reporters) <= MaxReporters

MCNext == Next /\ Within'

MCSpec == Init /\ [][MCNext]_vars

-----------------------------------------------------------------------------
(* Schemas. *)

Plain == [type |-> "NUMBER", required |-> FALSE, fixed |-> FALSE, delayed |-> FALSE]
Fixed == [Plain EXCEPT !.required = TRUE, !.fixed = TRUE]
Delayed == [Plain EXCEPT !.delayed = TRUE]

PlainSchema == {[n \in Properties |-> Plain]}
\* Each property plain beside one of another kind.
VariedSchemas ==
  {[n \in Properties |-> IF n = plain THEN Plain ELSE other] :
     plain \in Properties, other \in {Fixed, Delayed}}
NoSchemas == {}

-----------------------------------------------------------------------------
(* Payloads. *)

RecordProposals ==
  {c \in [id : ProposalIds, role : RecordRoles, receiver : Participants,
          record : Records, properties : {{}, Properties}, amount : {0}] :
     c.role = "authorizeReporter" <=> c.properties # {}}

ReporterProposals == {c \in RecordProposals : c.role = "authorizeReporter"}

Accepts(role) ==
  [id : ProposalIds, response : {"ACCEPT"}, role : {role},
   receiver : Participants \cup {Nobody}, record : Records, amount : {0}, exchanges : {{}}]

Refusals ==
  [id : ProposalIds, response : {"CANCEL", "REJECT"}, role : {"transferOwnership"},
   receiver : {Nobody}, record : {NoRecord}, amount : {0}, exchanges : {{}}]

RecordAnswers == Refusals \cup UNION {Accepts(role) : role \in RecordRoles}
ReporterAnswers == Accepts("authorizeReporter")

SignedAmounts == {-1, 1, 2}

\* What a proposal asks for is not what its answers say.
CoinProposals ==
  [id : ProposalIds, role : {"buyDGC", "sellDGC"}, receiver : {Nobody},
   record : {NoRecord}, properties : {{}}, amount : {2}]
  \cup
  [id : ProposalIds, role : {"creditDGC", "transferDGC"}, receiver : Participants,
   record : {NoRecord}, properties : {{}}, amount : {2}]

CoinAnswers ==
  [id : ProposalIds, response : {"autoOPEN", "autoCLOSE"}, role : {"buyDGC", "sellDGC"},
   receiver : {Nobody}, record : {NoRecord}, amount : Amounts,
   exchanges : {{<<i, j>>} : i, j \in ProposalIds}]
  \cup
  [id : ProposalIds, response : {"ACCEPT"}, role : {"creditDGC", "transferDGC"},
   receiver : Participants, record : {NoRecord}, amount : Amounts, exchanges : {{}}]

(* Participants are interchangeable, since no payload set names one, and   *)
(* so are properties, since schemas come with all names swapped.           *)
ParticipantSymmetry == Permutations(Participants)
NameSymmetry == ParticipantSymmetry \cup Permutations(Properties)
=============================================================================
