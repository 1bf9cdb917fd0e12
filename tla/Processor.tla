------------------------------ MODULE Processor ------------------------------
(***************************************************************************)
(* The transaction processor (processor/src/handler.rs): the validator     *)
(* hands it one transaction at a time (TransactionHandlerDGC::apply), and  *)
(* every transaction that is not rejected is one step.                     *)
(***************************************************************************)
EXTENDS ProposalHandlers

RecordTransaction(p) ==
  \/ CreateParticipant(p)
  \/ \E t \in Tables, schema \in Schemas : CreateTable(t, schema)
  \/ \E r \in Records, t \in Tables, names \in SUBSET Properties, ts \in Timestamps :
       \E provided \in [names -> Types] : CreateRecord(p, r, t, provided, ts)
  \/ \E r \in Records : FinalizeRecord(p, r)
  \/ \E r \in Records, names \in SUBSET Properties, ts \in Timestamps :
       \E updates \in [names -> Types] : UpdateProperties(p, r, updates, ts)
  \/ \E r \in Records, q \in Participants, names \in SUBSET Properties :
       RevokeReporter(p, r, q, names)

ProposalTransaction(p) ==
  \/ \E c \in ProposalPayloads : CreateProposal(p, c)
  \/ \E a \in AnswerPayloads : AnswerProposal(p, a)

Next == \E p \in Participants : RecordTransaction(p) \/ ProposalTransaction(p)

Spec == Init /\ [][Next]_vars

-----------------------------------------------------------------------------
(* Invariants. *)

(* Whoever owns, keeps or may report on a record, or issued a proposal, is *)
(* a registered participant, so no handler that follows such a reference   *)
(* can miss.                                                               *)
Mentioned ==
  (UNION {{r.owners[i] : i \in DOMAIN r.owners}
            \cup {r.custodians[i] : i \in DOMAIN r.custodians} :
          r \in {records[id] : id \in DOMAIN records}})
  \cup (UNION {{properties[k].reporters[i].key :
                  i \in DOMAIN properties[k].reporters} : k \in DOMAIN properties})
  \cup {proposals[id].issuer : id \in DOMAIN proposals}

Registered == Mentioned \subseteq DOMAIN participants

(* A record has an owner and a custodian, its table exists, and it has     *)
(* exactly the properties of its table, each with the page it is writing   *)
(* to: the lookups of _update_properties, of ownership transfer and of     *)
(* finalization find what they look for.                                   *)
WellLinked ==
  /\ \A r \in DOMAIN records :
       /\ records[r].owners # <<>> /\ records[r].custodians # <<>>
       /\ records[r].table \in DOMAIN tables
  /\ DOMAIN properties =
       UNION {{r} \X (DOMAIN tables[records[r].table]) : r \in DOMAIN records}
  /\ \A k \in DOMAIN properties : CurrentPage(k[1], k[2]) \in DOMAIN pages

(* A value names its reporter by position, and the stored index of a       *)
(* reporter is its position: _revoke_reporter, ownership transfer and      *)
(* authorization rebuild the list and must keep the two in step.           *)
ReportersIndexed ==
  \A k \in DOMAIN properties : \A i \in DOMAIN properties[k].reporters :
    properties[k].reporters[i].index = i - 1

(* Every value in every page names an entry of its property's reporters.   *)
Attributable ==
  \A k \in DOMAIN pages : \A i \in DOMAIN pages[k] :
    /\ <<k[1], k[2]>> \in DOMAIN properties
    /\ pages[k][i].reporterIndex < Len(properties[<<k[1], k[2]>>].reporters)

(* The values of a page are in the order of time and reporter, whatever    *)
(* the timestamps of the payloads that reported them: transactions are not *)
(* committed in the order of their timestamps.                             *)
PagesOrdered == \A k \in DOMAIN pages : Sorted(pages[k])

\* An answer with a negative amount, other than to a sale.
AnswersNegative ==
  \E q \in Participants, a \in AnswerPayloads :
    a.amount < 0 /\ a.role # "sellDGC" /\ AnswerProposal(q, a)

-----------------------------------------------------------------------------
(* What a transaction may never do. *)

(* A participant with a credit is taken below it, or further below it, by  *)
(* negative amounts alone, although the three places that debit a balance  *)
(* check it against different sums; and no sale ever does it, whatever its *)
(* amount.                                                                 *)
NoOverdraft ==
  [][\A p \in DOMAIN participants :
       participants[p].credit >= 0 /\ Funds(p)' < Funds(p) /\ Funds(p)' < 0
         => AnswersNegative]_vars

Extends(s, longer) == Len(longer) >= Len(s) /\ SubSeq(longer, 1, Len(s)) = s

(* The chain of owners and the chain of custodians of a record are never   *)
(* rewritten, and a transaction adds one link to one of them at most.      *)
ProvenanceKept ==
  [][\A r \in DOMAIN records :
       /\ r \in DOMAIN records'
       /\ Extends(records[r].owners, records'[r].owners)
       /\ Extends(records[r].custodians, records'[r].custodians)
       /\ Len(records'[r].owners) + Len(records'[r].custodians)
            <= Len(records[r].owners) + Len(records[r].custodians) + 1]_vars

(* A value already reported keeps its author: the entry its index names is *)
(* never given to somebody else nor moved, whatever is revoked, authorized *)
(* or handed over.                                                         *)
AuthorsKept ==
  [][\A k \in DOMAIN properties :
       /\ k \in DOMAIN properties'
       /\ \A i \in DOMAIN properties[k].reporters :
            /\ i \in DOMAIN properties'[k].reporters
            /\ properties'[k].reporters[i].key = properties[k].reporters[i].key]_vars

ValuesIn(page) == {page[i] : i \in DOMAIN page}

(* A value that appears in a page is attributed to an entry that is        *)
(* authorized at that moment: a participant revoked and authorized anew    *)
(* has two entries, and the value must name the one in force.              *)
ReportsInForce ==
  [][\A k \in DOMAIN properties \cap DOMAIN properties' :
       \A page \in {q \in DOMAIN pages : q[1] = k[1] /\ q[2] = k[2]} :
         \A v \in ValuesIn(pages'[page]) \ ValuesIn(pages[page]) :
           properties[k].reporters[v.reporterIndex + 1].authorized]_vars

(* Once a record is final its reported values are settled, and it stays    *)
(* final.                                                                  *)
FinalValuesKept ==
  [][\A r \in DOMAIN records : records[r].final =>
       /\ records'[r].final
       /\ \A k \in DOMAIN pages : k[1] = r => pages'[k] = pages[k]]_vars

(* A fixed property keeps the value it was created with, and a delayed one *)
(* is created without a value.                                             *)
SchemaHonoured ==
  [][/\ \A k \in DOMAIN pages : properties[<<k[1], k[2]>>].fixed => pages'[k] = pages[k]
     /\ \A k \in DOMAIN pages' \ DOMAIN pages :
          LET schema == tables[records'[k[1]].table][k[2]]
          IN  schema.delayed => pages'[k] = <<>>]_vars

(* Whoever becomes owner of a record may report on all its properties, and *)
(* the former owner on none of them, even where either had been authorized *)
(* or revoked before.                                                      *)
OwnershipCarriesReporting ==
  [][\A r \in DOMAIN records : records'[r].owners # records[r].owners =>
       LET old == Owner(r)
           new == Latest(records'[r].owners)
       IN  \A k \in DOMAIN properties : k[1] = r =>
             /\ Entitled(properties'[k].reporters, new) # {}
             /\ old # new => Entitled(properties'[k].reporters, old) = {}]_vars

(* What a proposal records as exchanged is what moved: when it changes,    *)
(* other than back to nothing, the balance of exactly one participant      *)
(* changes, by the same amount.                                            *)
Moved == {p \in DOMAIN participants :
            participants'[p].balance # participants[p].balance}

ExchangesBooked ==
  [][\A id \in DOMAIN proposals :
       LET amount == proposals'[id].exchanged - proposals[id].exchanged
       IN  amount # 0 /\ proposals'[id].exchanged # 0 =>
             \E p \in Moved :
               /\ Moved = {p}
               /\ participants'[p].balance - participants[p].balance
                    \in {amount, -amount}]_vars

(* Coins that leave one participant for another arrive in full, and no     *)
(* transaction touches the balances of three.                              *)
TransfersBalanced ==
  [][\A p, q \in Moved : p # q =>
       /\ Moved = {p, q}
       /\ participants'[p].balance + participants'[q].balance
            = participants[p].balance + participants[q].balance]_vars

(* A balance moves without a counterpart only in an exchange, which books  *)
(* it with a proposal.                                                     *)
TransfersConserve ==
  [][\A p \in Moved : Moved = {p} =>
       \E id \in DOMAIN proposals :
         proposals'[id].exchanged # proposals[id].exchanged]_vars
=============================================================================
