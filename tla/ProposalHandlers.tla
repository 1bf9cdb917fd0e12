-------------------------- MODULE ProposalHandlers --------------------------
(***************************************************************************)
(* The handlers for proposals (_create_proposal and _answer_proposal of    *)
(* processor/src/handler.rs).  p is the signer.  An answer carries its own *)
(* role, record, receiving participant and amount: the handler acts on     *)
(* those and takes from the stored proposal only its issuing and receiving *)
(* participants, its properties and what it has exchanged.                 *)
(***************************************************************************)
EXTENDS RecordHandlers

Funds(p) == participants[p].balance + participants[p].credit

\* The conditions of a new proposal that depend on its role.
MayPropose(p, c) ==
  /\ c.role \notin {"buyDGC", "sellDGC"} => Contains(participants, c.receiver)
  /\ c.role \in RecordRoles =>
       Contains(records, c.record) /\ ~records[c.record].final
  /\ c.role \in {"transferOwnership", "authorizeReporter"} => Owner(c.record) = p
  /\ c.role = "transferCustodianship" => Custodian(c.record) = p
  /\ c.role = "sellDGC" => Funds(p) >= c.amount
  /\ c.role = "transferDGC" => participants[p].balance >= c.amount

(* set_proposal replaces whatever proposal already has the id.             *)
CreateProposal(p, c) ==
  /\ Contains(participants, p)
  /\ MayPropose(p, c)
  /\ proposals' = Put(proposals, c.id,
       [status |-> "OPEN", role |-> c.role, issuer |-> p, receiver |-> c.receiver,
        record |-> c.record, properties |-> c.properties, amount |-> c.amount,
        exchanged |-> 0])
  /\ UNCHANGED <<participants, tables, records, properties, pages, exchanges>>

-----------------------------------------------------------------------------
(* Answers. *)

\* What every answer needs; the proposal's status is not looked at.
MayAnswer(p, a) == Contains(proposals, a.id) /\ Contains(participants, p)

SetStatus(id, status) ==
  proposals' = Put(proposals, id, [proposals[id] EXCEPT !.status = status])

CancelProposal(p, a) ==
  /\ a.response = "CANCEL"
  /\ MayAnswer(p, a)
  /\ proposals[a.id].issuer = p
  /\ SetStatus(a.id, "CANCELED")
  /\ UNCHANGED <<participants, tables, records, properties, pages, exchanges>>

RejectProposal(p, a) ==
  /\ a.response = "REJECT"
  /\ MayAnswer(p, a)
  /\ proposals[a.id].receiver = p
  /\ SetStatus(a.id, "REJECTED")
  /\ UNCHANGED <<participants, tables, records, properties, pages, exchanges>>

-----------------------------------------------------------------------------
(* Exchange of coins: the answers the server sends when it matches buy and *)
(* sell proposals.  The coins go to, or come from, the signer.             *)

ExchangedInFull(id, amount, status) == \* mutant: books what was proposed
  proposals' = Put(proposals, id,
    [proposals[id] EXCEPT !.exchanged = @ + proposals[id].amount, !.status = status])

Exchanged(id, amount, status) ==
  proposals' = Put(proposals, id,
    [proposals[id] EXCEPT !.exchanged = @ + amount, !.status = status])

AutoOpenBuy(p, a) ==
  /\ a.response = "autoOPEN" /\ a.role = "buyDGC"
  /\ MayAnswer(p, a)
  /\ participants' = Put(participants, p,
       [participants[p] EXCEPT !.balance = @ + a.amount])
  /\ Exchanged(a.id, a.amount, "OPEN")
  /\ UNCHANGED <<tables, records, properties, pages, exchanges>>

AutoOpenSell(p, a) ==
  /\ a.response = "autoOPEN" /\ a.role = "sellDGC"
  /\ MayAnswer(p, a)
  /\ Funds(p) >= a.amount
  /\ participants' = Put(participants, p,
       [participants[p] EXCEPT !.balance = @ - a.amount])
  /\ Exchanged(a.id, a.amount, "OPEN")
  /\ UNCHANGED <<tables, records, properties, pages, exchanges>>

AutoCloseBuy(p, a) ==
  /\ a.response = "autoCLOSE" /\ a.role = "buyDGC"
  /\ MayAnswer(p, a)
  /\ participants' = Put(participants, p,
       [participants[p] EXCEPT !.balance = @ + a.amount])
  /\ exchanges' = exchanges \cup a.exchanges
  /\ Exchanged(a.id, a.amount, "CLOSED")
  /\ UNCHANGED <<tables, records, properties, pages>>

AutoCloseSellUnchecked(p, a) == \* mutant: the copied funds check is forgotten
  /\ a.response = "autoCLOSE" /\ a.role = "sellDGC"
  /\ MayAnswer(p, a)
  /\ participants' = Put(participants, p,
       [participants[p] EXCEPT !.balance = @ - a.amount])
  /\ exchanges' = exchanges \cup a.exchanges
  /\ Exchanged(a.id, a.amount, "CLOSED")
  /\ UNCHANGED <<tables, records, properties, pages>>

AutoCloseSell(p, a) ==
  /\ a.response = "autoCLOSE" /\ a.role = "sellDGC"
  /\ MayAnswer(p, a)
  /\ Funds(p) >= a.amount
  /\ participants' = Put(participants, p,
       [participants[p] EXCEPT !.balance = @ - a.amount])
  /\ exchanges' = exchanges \cup a.exchanges
  /\ Exchanged(a.id, a.amount, "CLOSED")
  /\ UNCHANGED <<tables, records, properties, pages>>

-----------------------------------------------------------------------------
(* Acceptance. *)

MayAcceptForAnybody(p, a) == \* mutant: the receiver is not looked up
  /\ a.response = "ACCEPT"
  /\ MayAnswer(p, a)
  /\ proposals[a.id].receiver = p

MayAccept(p, a) ==
  /\ a.response = "ACCEPT"
  /\ MayAnswer(p, a)
  /\ proposals[a.id].receiver = p
  /\ Contains(participants, a.receiver)

AcceptCredit(p, a) ==
  /\ a.role = "creditDGC"
  /\ MayAccept(p, a)
  /\ participants' = Put(participants, a.receiver,
       [participants[a.receiver] EXCEPT !.credit = @ + a.amount])
  /\ SetStatus(a.id, "ACCEPTED")
  /\ UNCHANGED <<tables, records, properties, pages, exchanges>>

AcceptTransferOfProposed(p, a) == \* mutant: credits what was proposed
  LET debited == [participants[p] EXCEPT !.balance = @ - a.amount]
      credited == [participants[a.receiver] EXCEPT !.balance = @ + proposals[a.id].amount]
  IN  /\ a.role = "transferDGC"
      /\ MayAccept(p, a)
      /\ participants[p].balance >= a.amount
      /\ participants' = Put(Put(participants, p, debited), a.receiver, credited)
      /\ SetStatus(a.id, "ACCEPTED")
      /\ UNCHANGED <<tables, records, properties, pages, exchanges>>

(* The signer is debited.  Both participants were read before either is    *)
(* written: a receiver that is the signer is written back from the copy    *)
(* without the debit.                                                      *)
AcceptTransferCoins(p, a) ==
  LET debited == [participants[p] EXCEPT !.balance = @ - a.amount]
      credited == [participants[a.receiver] EXCEPT !.balance = @ + a.amount]
  IN  /\ a.role = "transferDGC"
      /\ MayAccept(p, a)
      /\ participants[p].balance >= a.amount
      /\ participants' = Put(Put(participants, p, debited), a.receiver, credited)
      /\ SetStatus(a.id, "ACCEPTED")
      /\ UNCHANGED <<tables, records, properties, pages, exchanges>>

HandedOverShared(reporters, old, new) == \* mutant: the old owner stays authorized
  LET marked == [i \in DOMAIN reporters |->
        [reporters[i] EXCEPT !.authorized = @ \/ reporters[i].key = new]]
  IN  IF Entries(reporters, new) # {}
      THEN marked
      ELSE Append(marked, NewReporter(new, Len(reporters)))

\* mutant: the index counts the authorized reporters only
HandedOverCounted(reporters, old, new) ==
  LET marked == [i \in DOMAIN reporters |->
        [reporters[i] EXCEPT !.authorized =
           reporters[i].key # old /\ (@ \/ reporters[i].key = new)]]
      inForce == {i \in DOMAIN marked : marked[i].authorized}
  IN  IF new # old /\ Entries(reporters, new) # {}
      THEN marked
      ELSE Append(marked, NewReporter(new, Cardinality(inForce)))

\* The entries of the old owner are unauthorized, those of the new owner
\* authorized, and the new owner gets an entry if that authorized none.
HandedOver(reporters, old, new) ==
  LET marked == [i \in DOMAIN reporters |->
        [reporters[i] EXCEPT !.authorized =
           reporters[i].key # old /\ (@ \/ reporters[i].key = new)]]
  IN  IF new # old /\ Entries(reporters, new) # {}
      THEN marked
      ELSE Append(marked, NewReporter(new, Len(reporters)))

(* Whether the record is final, and whether the issuer still owns it, is   *)
(* not checked.                                                            *)
AcceptOwnership(p, a) ==
  LET r == a.record
      names == DOMAIN tables[records[r].table]
  IN  /\ a.role = "transferOwnership"
      /\ MayAccept(p, a)
      /\ Contains(records, r)
      /\ Contains(tables, records[r].table)
      /\ \A n \in names : Contains(properties, <<r, n>>)
      /\ records' = Put(records, r,
           [records[r] EXCEPT !.owners = Append(@, a.receiver)])
      /\ properties' = PutAll(properties,
           [k \in {r} \X names |-> [properties[k] EXCEPT
              !.reporters = HandedOver(@, Owner(r), a.receiver)]])
      /\ SetStatus(a.id, "ACCEPTED")
      /\ UNCHANGED <<participants, tables, pages, exchanges>>

AcceptCustodianshipAnew(p, a) == \* mutant: the list is replaced, not extended
  /\ a.role = "transferCustodianship"
  /\ MayAccept(p, a)
  /\ Contains(records, a.record)
  /\ records' = Put(records, a.record,
       [records[a.record] EXCEPT !.custodians = <<a.receiver>>])
  /\ SetStatus(a.id, "ACCEPTED")
  /\ UNCHANGED <<participants, tables, properties, pages, exchanges>>

AcceptCustodianship(p, a) ==
  /\ a.role = "transferCustodianship"
  /\ MayAccept(p, a)
  /\ Contains(records, a.record)
  /\ records' = Put(records, a.record,
       [records[a.record] EXCEPT !.custodians = Append(@, a.receiver)])
  /\ SetStatus(a.id, "ACCEPTED")
  /\ UNCHANGED <<participants, tables, properties, pages, exchanges>>

(* A new entry for the receiver, for each property the proposal names.     *)
AcceptReporter(p, a) ==
  LET r == a.record
      names == proposals[a.id].properties
  IN  /\ a.role = "authorizeReporter"
      /\ MayAccept(p, a)
      /\ Contains(records, r)
      /\ \A n \in names : Contains(properties, <<r, n>>)
      /\ properties' = PutAll(properties,
           [k \in {r} \X names |-> [properties[k] EXCEPT
              !.reporters = Append(@, NewReporter(a.receiver, Len(@)))]])
      /\ SetStatus(a.id, "ACCEPTED")
      /\ UNCHANGED <<participants, tables, records, pages, exchanges>>

AnswerProposal(p, a) ==
  \/ CancelProposal(p, a)
  \/ RejectProposal(p, a)
  \/ AutoOpenBuy(p, a)
  \/ AutoOpenSell(p, a)
  \/ AutoCloseBuy(p, a)
  \/ AutoCloseSell(p, a)
  \/ AcceptCredit(p, a)
  \/ AcceptTransferCoins(p, a)
  \/ AcceptOwnership(p, a)
  \/ AcceptCustodianship(p, a)
  \/ AcceptReporter(p, a)
=============================================================================
