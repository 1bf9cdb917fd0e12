--------------------------- MODULE ExchangeProofs ---------------------------
(***************************************************************************)
(* Orders, credit and transfers, for any number of requests.               *)
(*                                                                         *)
(* TypeInv ties the ledger, the database's copy, the requests, their       *)
(* matches and their batches: a batch says what its request or its match   *)
(* says (SayOK), and what is matched has been read.  LedgerSteps is the    *)
(* step of the proofs about the ledger: it stays, or one batch is          *)
(* committed, which puts one order there or answers one proposal.          *)
(*                                                                         *)
(* OwnersKnown says whose each proposal is, PricesOK follows a pair of     *)
(* proposals from the match that compared their prices to the exchange.    *)
(* LoneInv is about orders that one match is about at most: such an order  *)
(* is as it was placed, or as its one answer says; what was read of it     *)
(* before it was matched is what there is; and so the match is for what    *)
(* both of its orders have.                                                *)
(***************************************************************************)
EXTENDS CoinExchange, LedgerLemmas, BatchProofs

\* The transactions that requests send.
ReplyPayload ==
  [id: ProposalIds, response: Responses, role: CoinRoles,
   receiver: Participants \cup {Nobody}, record: {NoRecord}, amount: Int,
   exchanges: SUBSET (ProposalIds \X ProposalIds)]

Creation == [what: {"create"}, signer: Participants, rate: Int, payload: ProposalPayload]

Reply == [what: {"answer"}, signer: Participants, rate: Int, payload: ReplyPayload]

AnyContent == Creation \cup Reply \subseteq Content

-----------------------------------------------------------------------------
(* What the handlers do to the proposals. *)

\* The entry of id is as it was but for its status and what is exchanged.
Changes(id, status, exchanged) ==
  /\ DOMAIN proposals' = DOMAIN proposals /\ id \in DOMAIN proposals
  /\ proposals' = [i \in DOMAIN proposals' |-> proposals'[i]]
  /\ \A i \in DOMAIN proposals : i # id => proposals'[i] = proposals[i]
  /\ proposals'[id] = [proposals[id] EXCEPT !.status = status, !.exchanged = exchanged]

LEMMA StatusChanges ==
  ASSUME IsStore(proposals, ProposalIds, Proposal), NEW id \in DOMAIN proposals, NEW status,
         SetStatus(id, status)
  PROVE  Changes(id, status, proposals[id].exchanged)
<1> DEFINE new == [proposals[id] EXCEPT !.status = status]
<1>1. proposals[id] \in Proposal
  BY DEF IsStore
<1>2. new = [proposals[id] EXCEPT !.status = status, !.exchanged = proposals[id].exchanged]
  BY <1>1 DEF Proposal
<1>3. proposals' = Put(proposals, id, new)
  BY DEF SetStatus
<1> HIDE DEF new
<1>4. /\ DOMAIN proposals' = DOMAIN proposals
      /\ proposals' = [i \in DOMAIN proposals' |-> proposals'[i]]
      /\ \A i \in DOMAIN proposals : i # id => proposals'[i] = proposals[i]
      /\ proposals'[id] = new
  BY <1>3 DEF Put
<1> QED
  BY <1>2, <1>4 DEF Changes

LEMMA ExchangeChanges ==
  ASSUME IsStore(proposals, ProposalIds, Proposal), NEW id \in DOMAIN proposals, NEW status,
         NEW amount, Exchanged(id, amount, status)
  PROVE  Changes(id, status, proposals[id].exchanged + amount)
<1> DEFINE new == [proposals[id] EXCEPT !.exchanged = @ + amount, !.status = status]
           x == proposals[id].exchanged + amount
<1>1. proposals[id] \in Proposal
  BY DEF IsStore
<1>2. new = [proposals[id] EXCEPT !.status = status, !.exchanged = x]
  BY <1>1 DEF Proposal
<1>3. proposals' = Put(proposals, id, new)
  BY DEF Exchanged
<1> HIDE DEF new, x
<1>4. /\ DOMAIN proposals' = DOMAIN proposals
      /\ proposals' = [i \in DOMAIN proposals' |-> proposals'[i]]
      /\ \A i \in DOMAIN proposals : i # id => proposals'[i] = proposals[i]
      /\ proposals'[id] = new
  BY <1>3 DEF Put
<1> QED
  BY <1>2, <1>4 DEF Changes, x

\* What an answer says is done to the proposal it names.
Answers(p, a) ==
  /\ a.id \in DOMAIN proposals
  /\ \/ a.response = "autoOPEN" /\ Changes(a.id, "OPEN", proposals[a.id].exchanged + a.amount)
           /\ UNCHANGED exchanges
     \/ a.response = "autoCLOSE" /\ Changes(a.id, "CLOSED", proposals[a.id].exchanged + a.amount)
           /\ exchanges' = exchanges \cup a.exchanges
     \/ /\ a.response \in {"ACCEPT", "REJECT", "CANCEL"} /\ UNCHANGED exchanges
        /\ \E status \in {"ACCEPTED", "REJECTED", "CANCELED"} :
             Changes(a.id, status, proposals[a.id].exchanged)
        /\ a.response = "ACCEPT" => proposals[a.id].receiver = p

LEMMA AnswerEffect ==
  ASSUME IsStore(proposals, ProposalIds, Proposal), NEW p, NEW a \in ReplyPayload,
         AnswerProposal(p, a)
  PROVE  Answers(p, a)
<1>1. a.role \in CoinRoles
  BY DEF ReplyPayload
<1>2. CASE CancelProposal(p, a)
  BY <1>2, StatusChanges DEF CancelProposal, Answers, MayAnswer, Contains
<1>3. CASE RejectProposal(p, a)
  BY <1>3, StatusChanges DEF RejectProposal, Answers, MayAnswer, Contains
<1>4. CASE AutoOpenBuy(p, a)
  BY <1>4, ExchangeChanges DEF AutoOpenBuy, Answers, MayAnswer, Contains
<1>5. CASE AutoOpenSell(p, a)
  BY <1>5, ExchangeChanges DEF AutoOpenSell, Answers, MayAnswer, Contains
<1>6. CASE AutoCloseBuy(p, a)
  BY <1>6, ExchangeChanges DEF AutoCloseBuy, Answers, MayAnswer, Contains
<1>7. CASE AutoCloseSell(p, a)
  BY <1>7, ExchangeChanges DEF AutoCloseSell, Answers, MayAnswer, Contains
<1>8. CASE AcceptCredit(p, a)
  BY <1>8, StatusChanges DEF AcceptCredit, Answers, MayAccept, MayAnswer, Contains
<1>9. CASE AcceptTransferCoins(p, a)
  BY <1>9, StatusChanges DEF AcceptTransferCoins, Answers, MayAccept, MayAnswer, Contains
<1>10. CASE AcceptOwnership(p, a) \/ AcceptCustodianship(p, a) \/ AcceptReporter(p, a)
  BY <1>1, <1>10 DEF AcceptOwnership, AcceptCustodianship, AcceptReporter, CoinRoles
<1> QED
  BY <1>2, <1>3, <1>4, <1>5, <1>6, <1>7, <1>8, <1>9, <1>10 DEF AnswerProposal

(* Participants stay well formed, if what is accepted is an amount.        *)
LEMMA AnswerPays ==
  ASSUME IsStore(participants, Participants, Participant), NEW p \in Participants, NEW a \in ReplyPayload,
         a.response = "ACCEPT" => a.amount \in Int, AnswerProposal(p, a)
  PROVE  IsStore(participants', Participants, Participant)
<1>1. a.role \in CoinRoles /\ a.amount \in Int
  BY DEF ReplyPayload
<1>2. ASSUME NEW q \in DOMAIN participants
      PROVE  /\ \A balance \in Int : [participants[q] EXCEPT !.balance = balance] \in Participant
             /\ \A credit \in Int : [participants[q] EXCEPT !.credit = credit] \in Participant
  BY DEF IsStore, Participant
<1>3. \A q \in DOMAIN participants : participants[q].balance \in Int /\ participants[q].credit \in Int
  BY DEF IsStore, Participant
<1>4. CASE UNCHANGED participants
  BY <1>4
<1>5. CASE AutoOpenBuy(p, a) \/ AutoCloseBuy(p, a)
  <2> DEFINE x == participants[p].balance + a.amount
             new == [participants[p] EXCEPT !.balance = x]
  <2>1. p \in DOMAIN participants /\ participants' = Put(participants, p, new)
    BY <1>5 DEF AutoOpenBuy, AutoCloseBuy, MayAnswer, Contains
  <2>2. x \in Int
    BY <1>1, <1>3, <2>1
  <2> HIDE DEF x
  <2>3. new \in Participant
    BY <1>2, <2>1, <2>2
  <2> HIDE DEF new
  <2> QED
    BY <2>1, <2>3, PutStore
<1>6. CASE AutoOpenSell(p, a) \/ AutoCloseSell(p, a)
  <2> DEFINE x == participants[p].balance - a.amount
             new == [participants[p] EXCEPT !.balance = x]
  <2>1. p \in DOMAIN participants /\ participants' = Put(participants, p, new)
    BY <1>6 DEF AutoOpenSell, AutoCloseSell, MayAnswer, Contains
  <2>2. x \in Int
    BY <1>1, <1>3, <2>1
  <2> HIDE DEF x
  <2>3. new \in Participant
    BY <1>2, <2>1, <2>2
  <2> HIDE DEF new
  <2> QED
    BY <2>1, <2>3, PutStore
<1>7. CASE AcceptCredit(p, a)
  <2> DEFINE x == participants[a.receiver].credit + a.amount
             new == [participants[a.receiver] EXCEPT !.credit = x]
  <2>1. /\ a.receiver \in DOMAIN participants /\ a.amount \in Int
        /\ participants' = Put(participants, a.receiver, new)
    BY <1>7 DEF AcceptCredit, MayAccept, Contains
  <2>2. x \in Int
    BY <1>3, <2>1
  <2> HIDE DEF x
  <2>3. new \in Participant
    BY <1>2, <2>1, <2>2
  <2>4. a.receiver \in Participants
    BY <2>1 DEF IsStore
  <2> HIDE DEF new
  <2> QED
    BY <2>1, <2>3, <2>4, PutStore
<1>8. CASE AcceptTransferCoins(p, a)
  <2> DEFINE x == participants[p].balance - a.amount
             y == participants[a.receiver].balance + a.amount
             debited == [participants[p] EXCEPT !.balance = x]
             credited == [participants[a.receiver] EXCEPT !.balance = y]
  <2>1. /\ a.receiver \in DOMAIN participants /\ p \in DOMAIN participants
        /\ participants' = Put(Put(participants, p, debited), a.receiver, credited)
    BY <1>8 DEF AcceptTransferCoins, MayAccept, MayAnswer, Contains
  <2>0. x \in Int /\ y \in Int
    BY <1>1, <1>3, <2>1
  <2> HIDE DEF x, y
  <2>2. debited \in Participant /\ credited \in Participant
    BY <1>2, <2>0, <2>1
  <2>3. a.receiver \in Participants
    BY <2>1 DEF IsStore
  <2> HIDE DEF debited, credited
  <2>4. IsStore(Put(participants, p, debited), Participants, Participant)
    BY <2>2, PutStore
  <2> QED
    BY <2>1, <2>2, <2>3, <2>4, PutStore
<1>9. CASE CancelProposal(p, a) \/ RejectProposal(p, a)
  BY <1>4, <1>9 DEF CancelProposal, RejectProposal
<1>10. CASE AcceptOwnership(p, a) \/ AcceptCustodianship(p, a) \/ AcceptReporter(p, a)
  BY <1>1, <1>10 DEF AcceptOwnership, AcceptCustodianship, AcceptReporter, CoinRoles
<1> QED
  BY <1>5, <1>6, <1>7, <1>8, <1>9, <1>10 DEF AnswerProposal

-----------------------------------------------------------------------------
(* What a step may be. *)

LEMMA SentBatch ==
  ASSUME NEW c, NEW t, NEW w, Submit(c, t, w)
  PROVE  /\ c \notin DOMAIN batches /\ DOMAIN batches' = DOMAIN batches \cup {c}
         /\ batches'[c].txns = t /\ batches'[c].fate = "none"
         /\ \A b \in DOMAIN batches : batches'[b] = batches[b]
<1> DEFINE new == [txns |-> t, wait |-> w, stage |-> "sent", fate |-> "none",
                   told |-> "none", answer |-> "none"]
<1>1. c \notin DOMAIN batches /\ Update(c, new)
  BY DEF Submit
<1>2. new.txns = t /\ new.fate = "none"
  OBVIOUS
<1> HIDE DEF new
<1>3. /\ DOMAIN batches' = DOMAIN batches \cup {c} /\ batches'[c] = new
      /\ \A b \in DOMAIN batches : batches'[b] = batches[b]
  BY <1>1 DEF Update
<1> QED
  BY <1>1, <1>2, <1>3

\* The steps that send a batch, and those that do not touch batches.
Sends == \/ \E r \in Requests : Place(r) \/ ApplyCredit(r) \/ TransferCoins(r)
         \/ \E m \in DOMAIN matches : SendOlder(m) \/ SendNewer(m)

Works == \/ \E r \in Requests : Placed(r) \/ ReadOwn(r) \/ ReadOpen(r)
         \/ \E m \in DOMAIN matches : OlderOver(m)
         \/ SyncProposals \/ UNCHANGED allVars

LEMMA ExchangeSteps ==
  ASSUME [ExchangeNext]_allVars
  PROVE  \/ Sends \/ Works
         \/ \E b \in DOMAIN batches : Carry(b) \/ CommitTxn(b) \/ InvalidateTxn(b)
BY DEF ExchangeNext, Serve, CarrySome, Decide, Sends, Works

SendsBatch == \E c, t : Submit(c, t, TRUE)

LEMMA SendsOne ==
  ASSUME Sends
  PROVE  /\ UNCHANGED <<ledgerVars, unusedVars, rates, view>>
         /\ SendsBatch \/ UNCHANGED batches
<1>1. ASSUME NEW r, Place(r)
      PROVE  UNCHANGED <<ledgerVars, unusedVars, rates, view>> /\ SendsBatch
  BY <1>1 DEF Place, SendsBatch
<1>2. ASSUME NEW r, NEW receiver, AcceptFor(r, receiver)
      PROVE  UNCHANGED <<ledgerVars, unusedVars, rates, view>> /\ (SendsBatch \/ UNCHANGED batches)
  BY <1>2 DEF AcceptFor, SendsBatch
<1>3. ASSUME NEW m, SendOlder(m) \/ SendNewer(m)
      PROVE  UNCHANGED <<ledgerVars, unusedVars, rates, view>> /\ SendsBatch
  BY <1>3 DEF SendOlder, SendNewer, SendsBatch
<1> QED
  BY <1>1, <1>2, <1>3 DEF Sends, ApplyCredit, TransferCoins

LEMMA WorksAlone ==
  ASSUME Works
  PROVE  UNCHANGED <<ledgerVars, unusedVars, rates, batches>>
BY DEF Works, Placed, ReadOwn, ReadOpen, OlderOver, SyncProposals, allVars

(* A step commits one batch, or it leaves the ledger as it is.             *)
LEMMA BookedStep ==
  ASSUME SubmitInv, [ExchangeNext]_allVars
  PROVE  /\ \A c \in DOMAIN batches : c \in DOMAIN batches' /\ batches'[c].txns = batches[c].txns
         /\ \/ /\ UNCHANGED <<ledgerVars, rates>> /\ \A c : Booked(c)' <=> Booked(c)
            \/ \E b \in DOMAIN batches :
                 /\ CommitTxn(b) /\ ~Booked(b) /\ Booked(b)'
                 /\ \A c : c # b => (Booked(c)' <=> Booked(c))
<1> DEFINE Kept == \A c \in DOMAIN batches : c \in DOMAIN batches' /\ batches'[c].txns = batches[c].txns
           Same == \A c : Booked(c)' <=> Booked(c)
           Taken == \E b \in DOMAIN batches :
                      /\ CommitTxn(b) /\ ~Booked(b) /\ Booked(b)'
                      /\ \A c : c # b => (Booked(c)' <=> Booked(c))
           Quiet == UNCHANGED <<ledgerVars, rates>> /\ Same
           Goal == Kept /\ (Quiet \/ Taken)
<1> SUFFICES Goal
  OBVIOUS
<1>1. UNCHANGED batches => Kept /\ Same
  BY DEF Booked
<1>2. SendsBatch => Kept /\ Same
  <2> SUFFICES ASSUME NEW c, NEW t, Submit(c, t, TRUE) PROVE Kept /\ Same
    BY DEF SendsBatch
  <2>1. /\ c \notin DOMAIN batches /\ DOMAIN batches' = DOMAIN batches \cup {c}
        /\ batches'[c].fate = "none"
        /\ \A b \in DOMAIN batches : batches'[b] = batches[b]
    BY SentBatch
  <2> QED
    BY <2>1 DEF Booked
<1>3. ASSUME NEW b \in DOMAIN batches, Carry(b) \/ CommitTxn(b) \/ InvalidateTxn(b)
      PROVE  Goal
  <2>1. Carried(b) \/ Commit(b) \/ Invalidate(b)
    BY <1>3 DEF Carry, CommitTxn, InvalidateTxn
  <2>2. /\ DOMAIN batches' = DOMAIN batches
        /\ \A c \in DOMAIN batches : c # b => batches'[c] = batches[c]
        /\ batches'[b].txns = batches[b].txns
        /\ Commit(b) => batches[b].fate = "pending" /\ batches'[b].fate = "committed"
        /\ ~Commit(b) => (batches'[b].fate = "committed" <=> batches[b].fate = "committed")
    BY <2>1, TransactionsStay
  <2>3. Kept
    BY <2>2
  <2>4. \A c : c # b => (Booked(c)' <=> Booked(c))
    BY <2>2 DEF Booked
  <2>5. CASE CommitTxn(b)
    <3>1. ~Booked(b) /\ Booked(b)'
      BY <2>2, <2>5 DEF Booked, CommitTxn
    <3> QED
      BY <2>3, <2>4, <2>5, <3>1
  <2>6. CASE ~Commit(b) /\ (Carry(b) \/ InvalidateTxn(b))
    <3>1. Booked(b)' <=> Booked(b)
      BY <2>2, <2>6 DEF Booked
    <3>2. UNCHANGED <<ledgerVars, rates>>
      BY <2>6 DEF Carry, InvalidateTxn
    <3> QED
      BY <2>3, <2>4, <3>1, <3>2
  <2>7. CASE Commit(b) /\ (Carry(b) \/ InvalidateTxn(b))
    BY <2>7, CommitsOnly DEF Carry, InvalidateTxn
  <2> QED
    BY <1>3, <2>5, <2>6, <2>7
<1>4. CASE Sends
  BY <1>1, <1>2, <1>4, SendsOne
<1>5. CASE Works
  BY <1>1, <1>5, WorksAlone
<1> HIDE DEF Goal
<1> QED
  BY <1>3, <1>4, <1>5, ExchangeSteps

-----------------------------------------------------------------------------
(* What steps do to requests and matches. *)

RequestStore == IsStore(requests, Requests, Request)

\* Request r has these values then; the others stay as they are.
Becomes(r, placed, unread, rate, balance, amount, pairs) ==
  /\ r \in DOMAIN requests /\ DOMAIN requests' = DOMAIN requests
  /\ requests' = [q \in DOMAIN requests' |-> requests'[q]]
  /\ \A q \in DOMAIN requests : q # r => requests'[q] = requests[q]
  /\ requests'[r] = [wish |-> requests[r].wish, placed |-> placed, unread |-> unread,
                     rate |-> rate, balance |-> balance, amount |-> amount, exchanges |-> pairs]

LEMMA BecomesStore ==
  ASSUME RequestStore, NEW r, NEW placed \in BOOLEAN, NEW unread \in SUBSET {"own", "open"},
         NEW rate \in Int \cup {Unknown}, NEW balance \in Int \cup {Unknown}, NEW amount \in Int,
         NEW pairs \in SUBSET (ProposalIds \X ProposalIds),
         Becomes(r, placed, unread, rate, balance, amount, pairs)
  PROVE  RequestStore'
<1>1. requests[r].wish \in Wish
  BY DEF Becomes, RequestStore, IsStore, Request
<1>2. requests'[r] \in Request
  BY <1>1 DEF Becomes, Request
<1> QED
  BY <1>2 DEF Becomes, RequestStore, IsStore

LEMMA PlacedEffect ==
  ASSUME RequestStore, NEW r, Placed(r)
  PROVE  LET own == requests[r]
         IN  /\ ~own.placed /\ UNCHANGED matches
             /\ \E unread \in SUBSET {"own", "open"} :
                  /\ Becomes(r, TRUE, unread, own.rate, own.balance, own.amount, own.exchanges)
                  /\ "open" \in unread => IsOrder(r)
<1> DEFINE own == requests[r]
           u == IF IsOrder(r) THEN {"own", "open"} ELSE {"own"}
           new == [own EXCEPT !.placed = TRUE, !.unread = u]
           lit == [wish |-> own.wish, placed |-> TRUE, unread |-> u, rate |-> own.rate,
                   balance |-> own.balance, amount |-> own.amount, exchanges |-> own.exchanges]
<1>1. /\ r \in DOMAIN requests /\ ~own.placed /\ UNCHANGED matches
      /\ requests' = [requests EXCEPT ![r] = new]
  BY DEF Placed
<1>2. own \in Request
  BY <1>1 DEF RequestStore, IsStore
<1>3. u \in SUBSET {"own", "open"} /\ ("open" \in u => IsOrder(r))
  OBVIOUS
<1> HIDE DEF u
<1>4. new = lit
  <2>1. new \in [wish : Wish, placed : BOOLEAN, unread : {u}, rate : Int \cup {Unknown},
                 balance : Int \cup {Unknown}, amount : Int, exchanges : SUBSET (ProposalIds \X ProposalIds)]
    BY <1>2 DEF Request
  <2>2. /\ new.wish = own.wish /\ new.unread = u /\ new.rate = own.rate
        /\ new.balance = own.balance /\ new.amount = own.amount /\ new.exchanges = own.exchanges
    BY <1>2 DEF Request
  <2>3. new.placed = TRUE
    BY <1>2 DEF Request
  <2> HIDE DEF new
  <2> QED
    BY <2>1, <2>2, <2>3
<1> HIDE DEF new, lit
<1>5. Becomes(r, TRUE, u, own.rate, own.balance, own.amount, own.exchanges)
  BY <1>1, <1>4 DEF Becomes, lit
<1> QED
  BY <1>1, <1>3, <1>5

LEMMA AcceptEffect ==
  ASSUME RequestStore, NEW r \in DOMAIN requests, NEW receiver, AcceptFor(r, receiver)
  PROVE  LET own == requests[r]
         IN  /\ UNCHANGED matches
             /\ Becomes(r, own.placed, {}, own.rate, own.balance, own.amount, own.exchanges)
<1> DEFINE own == requests[r]
           new == [own EXCEPT !.unread = {}]
           lit == [wish |-> own.wish, placed |-> own.placed, unread |-> {}, rate |-> own.rate,
                   balance |-> own.balance, amount |-> own.amount, exchanges |-> own.exchanges]
<1>1. UNCHANGED matches /\ requests' = [requests EXCEPT ![r] = new]
  BY DEF AcceptFor
<1>2. own \in Request
  BY DEF RequestStore, IsStore
<1>3. new = lit
  BY <1>2 DEF Request
<1> HIDE DEF new, lit
<1> QED
  BY <1>1, <1>3 DEF Becomes, lit

LEMMA ReadOwnEffect ==
  ASSUME RequestStore, NEW r, ReadOwn(r)
  PROVE  LET own == requests[r]
             found == OwnId(r) \in DOMAIN view.proposals
         IN  /\ "own" \in own.unread /\ IsOrder(r) /\ UNCHANGED matches
             /\ Becomes(r, own.placed, own.unread \ {"own"},
                        IF found THEN view.rates[OwnId(r)] ELSE own.rate,
                        IF found THEN Left(view.proposals[OwnId(r)]) ELSE own.balance,
                        own.amount, own.exchanges)
<1> DEFINE own == requests[r]
           found == OwnId(r) \in DOMAIN view.proposals
           u == own.unread \ {"own"}
           x == IF found THEN view.rates[OwnId(r)] ELSE own.rate
           y == IF found THEN Left(view.proposals[OwnId(r)]) ELSE own.balance
           new == [own EXCEPT !.unread = u, !.rate = x, !.balance = y]
           lit == [wish |-> own.wish, placed |-> own.placed, unread |-> u, rate |-> x,
                   balance |-> y, amount |-> own.amount, exchanges |-> own.exchanges]
<1>1. /\ r \in DOMAIN requests /\ "own" \in own.unread /\ IsOrder(r) /\ UNCHANGED matches
      /\ requests' = [requests EXCEPT ![r] = new]
  BY DEF ReadOwn, Reads
<1>2. own \in Request
  BY <1>1 DEF RequestStore, IsStore
<1> HIDE DEF u, x, y
<1>3. new = lit
  <2>1. new \in [wish : Wish, placed : BOOLEAN, unread : {u}, rate : {x}, balance : {y},
                 amount : Int, exchanges : SUBSET (ProposalIds \X ProposalIds)]
    BY <1>2 DEF Request
  <2>2. /\ new.wish = own.wish /\ new.unread = u /\ new.rate = x /\ new.balance = y
        /\ new.amount = own.amount /\ new.exchanges = own.exchanges
    BY <1>2 DEF Request
  <2>3. new.placed = own.placed
    BY <1>2 DEF Request
  <2> HIDE DEF new
  <2> QED
    BY <2>1, <2>2, <2>3
<1> HIDE DEF new, lit
<1>4. Becomes(r, own.placed, u, x, y, own.amount, own.exchanges)
  BY <1>1, <1>3 DEF Becomes, lit
<1> QED
  BY <1>1, <1>4 DEF u, x, y

LEMMA ReadOpenEffect ==
  ASSUME RequestStore, NEW r, ReadOpen(r)
  PROVE  LET own == requests[r]
             found == {id \in Counterparts(own.wish.kind) : PricesMeet(r, id)}
         IN  /\ "open" \in own.unread
             /\ Becomes(r, own.placed, own.unread \ {"open"}, own.rate, own.balance,
                        own.amount, own.exchanges)
             /\ matches' = [m \in DOMAIN matches' |-> matches'[m]]
             /\ DOMAIN matches' = DOMAIN matches \cup ({r} \X found)
             /\ \A m \in {r} \X found : matches'[m] = MatchOf(r, m[2])
             /\ \A m \in DOMAIN matches : m \notin {r} \X found => matches'[m] = matches[m]
<1> DEFINE own == requests[r]
           u == own.unread \ {"open"}
           new == [own EXCEPT !.unread = u]
           lit == [wish |-> own.wish, placed |-> own.placed, unread |-> u, rate |-> own.rate,
                   balance |-> own.balance, amount |-> own.amount, exchanges |-> own.exchanges]
           found == {id \in Counterparts(own.wish.kind) : PricesMeet(r, id)}
           more == [m \in {r} \X found |-> MatchOf(r, m[2])]
<1>1. /\ r \in DOMAIN requests /\ "open" \in own.unread
      /\ requests' = [requests EXCEPT ![r] = new] /\ matches' = PutAll(matches, more)
  BY DEF ReadOpen, Reads
<1>2. own \in Request
  BY <1>1 DEF RequestStore, IsStore
<1> HIDE DEF u
<1>3. new = lit
  BY <1>2 DEF Request
<1> HIDE DEF new, lit, found
<1>4. DOMAIN more = {r} \X found /\ \A m \in {r} \X found : more[m] = MatchOf(r, m[2])
  OBVIOUS
<1> HIDE DEF more
<1>5. Becomes(r, own.placed, u, own.rate, own.balance, own.amount, own.exchanges)
  BY <1>1, <1>3 DEF Becomes, lit
<1>6. /\ matches' = [m \in DOMAIN matches' |-> matches'[m]]
      /\ DOMAIN matches' = DOMAIN matches \cup ({r} \X found)
      /\ \A m \in {r} \X found : matches'[m] = MatchOf(r, m[2])
      /\ \A m \in DOMAIN matches : m \notin {r} \X found => matches'[m] = matches[m]
  BY <1>1, <1>4 DEF PutAll
<1> QED
  BY <1>1, <1>5, <1>6 DEF u, found

LEMMA OlderOverEffect ==
  ASSUME RequestStore, NEW m, OlderOver(m), m[1] \in DOMAIN requests
  PROVE  LET own == requests[m[1]]
             amount == matches[m].amount
         IN  \/ /\ matches[m].newer = "autoOPEN"
                /\ Becomes(m[1], own.placed, own.unread, own.rate, own.balance - amount,
                           amount, own.exchanges)
             \/ /\ matches[m].newer # "autoOPEN"
                /\ Becomes(m[1], own.placed, own.unread, own.rate, 0, own.balance,
                           IF matches[m].older = "autoOPEN" THEN {Pair(m[1], m[2])}
                           ELSE own.exchanges)
<1> DEFINE r == m[1]
           own == requests[r]
           amount == matches[m].amount
<1>1. own \in Request /\ requests' = [requests EXCEPT ![r] = Exchanging(m)]
  BY DEF OlderOver, RequestStore, IsStore
<1>2. CASE matches[m].newer = "autoOPEN"
  <2> DEFINE y == own.balance - amount
             new == [own EXCEPT !.amount = amount, !.balance = y]
             lit == [wish |-> own.wish, placed |-> own.placed, unread |-> own.unread, rate |-> own.rate,
                     balance |-> y, amount |-> amount, exchanges |-> own.exchanges]
  <2>1. Exchanging(m) = new
    BY <1>2 DEF Exchanging
  <2> HIDE DEF y, amount
  <2>2. new = lit
    <3>1. new \in [wish : Wish, placed : BOOLEAN, unread : SUBSET {"own", "open"},
                   rate : Int \cup {Unknown}, balance : {y}, amount : {amount},
                   exchanges : SUBSET (ProposalIds \X ProposalIds)]
      BY <1>1 DEF Request
    <3>2. /\ new.wish = own.wish /\ new.unread = own.unread /\ new.rate = own.rate
          /\ new.balance = y /\ new.amount = amount /\ new.exchanges = own.exchanges
      BY <1>1 DEF Request
    <3>3. new.placed = own.placed
      BY <1>1 DEF Request
    <3> HIDE DEF new
    <3> QED
      BY <3>1, <3>2, <3>3
  <2> HIDE DEF new, lit
  <2>3. Becomes(r, own.placed, own.unread, own.rate, y, amount, own.exchanges)
    BY <1>1, <2>1, <2>2 DEF Becomes, lit
  <2> QED
    BY <1>2, <2>3 DEF y, amount
<1>3. CASE matches[m].newer # "autoOPEN"
  <2> DEFINE e == IF matches[m].older = "autoOPEN" THEN {Pair(m[1], m[2])} ELSE own.exchanges
             x == own.balance
             new == [own EXCEPT !.amount = x, !.balance = 0, !.exchanges = e]
             lit == [wish |-> own.wish, placed |-> own.placed, unread |-> own.unread, rate |-> own.rate,
                     balance |-> 0, amount |-> x, exchanges |-> e]
  <2>1. Exchanging(m) = new
    BY <1>3 DEF Exchanging
  <2> HIDE DEF e, x
  <2>2. new = lit
    <3>1. new \in [wish : Wish, placed : BOOLEAN, unread : SUBSET {"own", "open"},
                   rate : Int \cup {Unknown}, balance : {0}, amount : {x}, exchanges : {e}]
      BY <1>1 DEF Request
    <3>2. /\ new.wish = own.wish /\ new.unread = own.unread /\ new.rate = own.rate /\ new.balance = 0
          /\ new.amount = x /\ new.exchanges = e
      BY <1>1 DEF Request
    <3>3. new.placed = own.placed
      BY <1>1 DEF Request
    <3> HIDE DEF new
    <3> QED
      BY <3>1, <3>2, <3>3
  <2> HIDE DEF new, lit
  <2>3. Becomes(r, own.placed, own.unread, own.rate, 0, x, e)
    BY <1>1, <2>1, <2>2 DEF Becomes, lit
  <2> QED
    BY <1>3, <2>3 DEF e, x
<1> QED
  BY <1>2, <1>3

\* A match goes on to another stage, and is what it was otherwise.
Moves(m, stage) ==
  /\ m \in DOMAIN matches /\ DOMAIN matches' = DOMAIN matches
  /\ matches' = [n \in DOMAIN matches' |-> matches'[n]]
  /\ \A n \in DOMAIN matches : n # m => matches'[n] = matches[n]
  /\ matches'[m] = [stage |-> stage, older |-> matches[m].older, newer |-> matches[m].newer,
                    amount |-> matches[m].amount]

LEMMA MoveEffect ==
  ASSUME IsStore(matches, Requests \X ProposalIds, Match), NEW m \in DOMAIN matches, NEW stage,
         Move(m, stage)
  PROVE  Moves(m, stage)
<1> DEFINE own == matches[m]
           new == [own EXCEPT !.stage = stage]
           lit == [stage |-> stage, older |-> own.older, newer |-> own.newer, amount |-> own.amount]
<1>1. own \in Match /\ matches' = [matches EXCEPT ![m] = new]
  BY DEF Move, IsStore
<1>2. new = lit
  BY <1>1 DEF Match
<1> HIDE DEF new, lit
<1> QED
  BY <1>1, <1>2 DEF Moves, lit

-----------------------------------------------------------------------------
(* Types. *)

\* The proposals and their prices, in the ledger or in the database.
Typed(props, prices) ==
  /\ IsStore(props, ProposalIds, Proposal) /\ IsStore(prices, ProposalIds, Int)
  /\ DOMAIN prices = DOMAIN props
  /\ \A id \in DOMAIN props : props[id].role = id[1]

LedgerOK == IsStore(participants, Participants, Participant) /\ Typed(proposals, rates)

ViewOK == Typed(view.proposals, view.rates)

\* What is read of a request's own proposal is read after it is placed.
RequestsOK ==
  /\ RequestStore
  /\ \E k \in Nat : DOMAIN requests = 1..k
  /\ \A r \in DOMAIN requests :
       /\ requests[r].wish \in Asks[r]
       /\ ~requests[r].placed => requests[r].unread = {} /\ requests[r].balance = Unknown
       /\ requests[r].balance # Unknown =>
            requests[r].placed /\ "own" \notin requests[r].unread /\ requests[r].rate \in Int
       /\ "open" \in requests[r].unread => IsOrder(r)

\* An order is matched when all has been read, with one that it can be.
MatchesOK ==
  /\ IsStore(matches, Requests \X ProposalIds, Match)
  /\ \A m \in DOMAIN matches :
       /\ m[1] \in DOMAIN requests /\ IsOrder(m[1])
       /\ requests[m[1]].placed /\ requests[m[1]].unread = {}
       /\ requests[m[1]].balance \in Int /\ requests[m[1]].rate \in Int
       /\ {OwnId(m[1])[1], m[2][1]} = {"buyDGC", "sellDGC"}

\* What is asked for, and how two orders are matched, stays.
Grows ==
  /\ \A r \in DOMAIN requests : r \in DOMAIN requests' /\ requests'[r].wish = requests[r].wish
  /\ \A m \in DOMAIN matches :
       /\ m \in DOMAIN matches' /\ matches'[m].older = matches[m].older
       /\ matches'[m].newer = matches[m].newer /\ matches'[m].amount = matches[m].amount

Kept == RequestsOK' /\ MatchesOK' /\ Grows

LEMMA IdsTyped ==
  ASSUME NEW wish \in Wish
  PROVE  Id(wish) \in ProposalIds /\ Id(wish)[1] = wish.kind
BY IdsAssumption DEF Id, Wish

LEMMA PlaceKeeps ==
  ASSUME RequestsOK, MatchesOK, NEW r \in Requests, Place(r)
  PROVE  Kept /\ r \notin DOMAIN requests
<1>1. PICK k \in Nat : DOMAIN requests = 1..k
  BY DEF RequestsOK
<1>2. r = k + 1
  <2>1. Cardinality(1..k) = k
    BY FS_Interval
  <2> QED
    BY <1>1, <2>1 DEF Place
<1>3. PICK wish \in Asks[r] : requests' = Put(requests, r,
        [wish |-> wish, placed |-> FALSE, unread |-> {}, rate |-> Unknown,
         balance |-> Unknown, amount |-> wish.amount, exchanges |-> {}])
  BY DEF Place
<1> DEFINE new == [wish |-> wish, placed |-> FALSE, unread |-> {}, rate |-> Unknown,
                   balance |-> Unknown, amount |-> wish.amount, exchanges |-> {}]
<1>4. wish \in Wish
  BY AsksAssumption
<1>5. new \in Request /\ new.wish = wish /\ new.placed = FALSE /\ new.unread = {} /\ new.balance = Unknown
  BY <1>4 DEF Request, Wish
<1>6. UNCHANGED matches /\ requests' = Put(requests, r, new)
  BY <1>3 DEF Place
<1> HIDE DEF new
<1>7. /\ RequestStore' /\ DOMAIN requests' = DOMAIN requests \cup {r} /\ requests'[r] = new
      /\ \A q \in DOMAIN requests : q # r => requests'[q] = requests[q]
  <2>1. IsStore(requests, Requests, Request)
    BY DEF RequestsOK, RequestStore
  <2> DEFINE after == Put(requests, r, new)
  <2>2. /\ IsStore(after, Requests, Request) /\ DOMAIN after = DOMAIN requests \cup {r}
        /\ after[r] = new /\ \A q \in DOMAIN requests \ {r} : after[q] = requests[q]
    BY <1>5, <2>1, PutStore
  <2>3. requests' = after
    BY <1>6
  <2> HIDE DEF after
  <2> QED
    BY <2>2, <2>3 DEF RequestStore
<1>8. r \notin DOMAIN requests
  BY <1>1, <1>2
<1>9. DOMAIN requests' = 1..(k + 1) /\ k + 1 \in Nat
  BY <1>1, <1>2, <1>7
<1>10. \A q \in DOMAIN requests : q \in DOMAIN requests' /\ requests'[q] = requests[q]
  BY <1>7, <1>8
<1>11. \A q \in DOMAIN requests : (IsOrder(q)' <=> IsOrder(q)) /\ OwnId(q)' = OwnId(q)
  BY <1>10 DEF IsOrder, OwnId
<1>12. RequestsOK'
  <2> SUFFICES ASSUME NEW q \in DOMAIN requests'
               PROVE  /\ requests'[q].wish \in Asks[q]
                      /\ ~requests'[q].placed => requests'[q].unread = {} /\ requests'[q].balance = Unknown
                      /\ requests'[q].balance # Unknown =>
                           requests'[q].placed /\ "own" \notin requests'[q].unread /\ requests'[q].rate \in Int
                      /\ "open" \in requests'[q].unread => IsOrder(q)'
    BY <1>7, <1>9 DEF RequestsOK
  <2>1. CASE q = r
    BY <1>5, <1>7, <2>1
  <2>2. CASE q # r
    BY <1>7, <1>10, <1>11, <2>2 DEF RequestsOK
  <2> QED
    BY <2>1, <2>2
<1>13. MatchesOK'
  BY <1>6, <1>10, <1>11 DEF MatchesOK
<1>14. Grows
  BY <1>6, <1>10 DEF Grows
<1> QED
  BY <1>8, <1>12, <1>13, <1>14 DEF Kept

\* A request may become this.
Sound(r, placed, unread, rate, balance, amount, pairs) ==
  /\ placed \in BOOLEAN /\ unread \in SUBSET {"own", "open"} /\ rate \in Int \cup {Unknown}
  /\ balance \in Int \cup {Unknown} /\ amount \in Int /\ pairs \in SUBSET (ProposalIds \X ProposalIds)
  /\ ~placed => unread = {} /\ balance = Unknown
  /\ balance # Unknown => placed /\ "own" \notin unread /\ rate \in Int
  /\ "open" \in unread => IsOrder(r)

LEMMA BecomesKeeps ==
  ASSUME RequestsOK, NEW r, NEW placed, NEW unread, NEW rate, NEW balance, NEW amount, NEW pairs,
         Becomes(r, placed, unread, rate, balance, amount, pairs),
         Sound(r, placed, unread, rate, balance, amount, pairs)
  PROVE  /\ RequestsOK' /\ DOMAIN requests' = DOMAIN requests
         /\ \A q \in DOMAIN requests :
              /\ requests'[q].wish = requests[q].wish
              /\ (IsOrder(q)' <=> IsOrder(q)) /\ OwnId(q)' = OwnId(q)
         /\ \A q \in DOMAIN requests : q # r => requests'[q] = requests[q]
         /\ requests'[r].placed = placed /\ requests'[r].unread = unread
         /\ requests'[r].rate = rate /\ requests'[r].balance = balance
         /\ requests'[r].amount = amount /\ requests'[r].exchanges = pairs
<1>1. RequestStore'
  BY BecomesStore DEF RequestsOK, Sound
<1>2. /\ r \in DOMAIN requests /\ DOMAIN requests' = DOMAIN requests
      /\ \A q \in DOMAIN requests : q # r => requests'[q] = requests[q]
  BY DEF Becomes
<1>3. /\ requests'[r].wish = requests[r].wish
      /\ requests'[r].unread = unread
      /\ requests'[r].rate = rate /\ requests'[r].balance = balance
      /\ requests'[r].amount = amount /\ requests'[r].exchanges = pairs
  BY DEF Becomes
<1>4. requests'[r].placed = placed
  BY DEF Becomes
<1>5. \A q \in DOMAIN requests : requests'[q].wish = requests[q].wish
  BY <1>2, <1>3
<1>6. \A q \in DOMAIN requests : (IsOrder(q)' <=> IsOrder(q)) /\ OwnId(q)' = OwnId(q)
  BY <1>5 DEF IsOrder, OwnId
<1>7. RequestsOK'
  <2> SUFFICES ASSUME NEW q \in DOMAIN requests'
               PROVE  /\ requests'[q].wish \in Asks[q]
                      /\ ~requests'[q].placed => requests'[q].unread = {} /\ requests'[q].balance = Unknown
                      /\ requests'[q].balance # Unknown =>
                           requests'[q].placed /\ "own" \notin requests'[q].unread /\ requests'[q].rate \in Int
                      /\ "open" \in requests'[q].unread => IsOrder(q)'
    BY <1>1, <1>2 DEF RequestsOK
  <2>1. CASE q = r
    BY <1>2, <1>3, <1>4, <1>6, <2>1 DEF RequestsOK, Sound
  <2>2. CASE q # r
    BY <1>2, <1>6, <2>2 DEF RequestsOK
  <2> QED
    BY <2>1, <2>2
<1> QED
  BY <1>2, <1>3, <1>4, <1>5, <1>6, <1>7

LEMMA RequestIs ==
  ASSUME RequestsOK, NEW r \in DOMAIN requests
  PROVE  LET own == requests[r]
         IN  /\ r \in Requests /\ own.wish \in Wish /\ own.wish \in Asks[r]
             /\ OwnId(r) \in ProposalIds /\ OwnId(r)[1] = own.wish.kind
             /\ own.unread \in SUBSET {"own", "open"} /\ own.rate \in Int \cup {Unknown}
             /\ own.balance \in Int \cup {Unknown} /\ own.amount \in Int
             /\ own.exchanges \in SUBSET (ProposalIds \X ProposalIds)
             /\ own.placed \in BOOLEAN
<1> DEFINE own == requests[r]
<1>1. r \in Requests /\ own \in Request /\ own.wish \in Asks[r]
  BY DEF RequestsOK, RequestStore, IsStore
<1>2. own.wish \in Wish
  BY <1>1 DEF Request
<1>3. OwnId(r) \in ProposalIds /\ OwnId(r)[1] = own.wish.kind
  BY <1>2, IdsTyped DEF OwnId
<1>4. /\ own.unread \in SUBSET {"own", "open"} /\ own.rate \in Int \cup {Unknown}
      /\ own.balance \in Int \cup {Unknown} /\ own.amount \in Int
      /\ own.exchanges \in SUBSET (ProposalIds \X ProposalIds)
  BY <1>1 DEF Request
<1>5. own.placed \in BOOLEAN
  BY <1>1 DEF Request
<1> QED
  BY <1>1, <1>2, <1>3, <1>4, <1>5

LEMMA MatchIs ==
  ASSUME MatchesOK, NEW m \in DOMAIN matches
  PROVE  /\ m \in Requests \X ProposalIds /\ m = <<m[1], m[2]>>
         /\ matches[m].older \in {"autoCLOSE", "autoOPEN"}
         /\ matches[m].newer \in {"autoCLOSE", "autoOPEN"} /\ matches[m].amount \in Int
BY DEF MatchesOK, IsStore, Match

(* A request that has no match yet, or that keeps what a match needs.      *)
LEMMA BecomesKept ==
  ASSUME RequestsOK, MatchesOK, NEW r, NEW placed, NEW unread, NEW rate, NEW balance, NEW amount, NEW pairs,
         Becomes(r, placed, unread, rate, balance, amount, pairs),
         Sound(r, placed, unread, rate, balance, amount, pairs),
         \A m \in DOMAIN matches : m[1] = r => placed /\ unread = {} /\ balance \in Int /\ rate \in Int
  PROVE  /\ RequestsOK' /\ DOMAIN requests' = DOMAIN requests
         /\ \A q \in DOMAIN requests : requests'[q].wish = requests[q].wish
         /\ \A m \in DOMAIN matches :
              /\ m[1] \in DOMAIN requests' /\ IsOrder(m[1])'
              /\ requests'[m[1]].placed /\ requests'[m[1]].unread = {}
              /\ requests'[m[1]].balance \in Int /\ requests'[m[1]].rate \in Int
              /\ {OwnId(m[1])'[1], m[2][1]} = {"buyDGC", "sellDGC"}
<1>1. /\ RequestsOK' /\ DOMAIN requests' = DOMAIN requests
      /\ \A q \in DOMAIN requests :
           /\ requests'[q].wish = requests[q].wish
           /\ (IsOrder(q)' <=> IsOrder(q)) /\ OwnId(q)' = OwnId(q)
      /\ \A q \in DOMAIN requests : q # r => requests'[q] = requests[q]
      /\ requests'[r].placed = placed /\ requests'[r].unread = unread
      /\ requests'[r].rate = rate /\ requests'[r].balance = balance
  BY BecomesKeeps
<1>2. ASSUME NEW m \in DOMAIN matches
      PROVE  /\ m[1] \in DOMAIN requests' /\ IsOrder(m[1])'
             /\ requests'[m[1]].placed /\ requests'[m[1]].unread = {}
             /\ requests'[m[1]].balance \in Int /\ requests'[m[1]].rate \in Int
             /\ {OwnId(m[1])'[1], m[2][1]} = {"buyDGC", "sellDGC"}
  <2>1. PICK q : q = m[1]
    OBVIOUS
  <2>2. /\ q \in DOMAIN requests /\ IsOrder(q) /\ requests[q].placed /\ requests[q].unread = {}
        /\ requests[q].balance \in Int /\ requests[q].rate \in Int
        /\ {OwnId(q)[1], m[2][1]} = {"buyDGC", "sellDGC"}
    BY <2>1 DEF MatchesOK
  <2>3. CASE q = r
    BY <1>1, <2>1, <2>2, <2>3
  <2>4. CASE q # r
    BY <1>1, <2>1, <2>2, <2>4
  <2> QED
    BY <2>3, <2>4
<1> QED
  BY <1>1, <1>2

LEMMA BecomesAlone ==
  ASSUME RequestsOK, MatchesOK, NEW r, NEW placed, NEW unread, NEW rate, NEW balance, NEW amount, NEW pairs,
         Becomes(r, placed, unread, rate, balance, amount, pairs),
         Sound(r, placed, unread, rate, balance, amount, pairs),
         \A m \in DOMAIN matches : m[1] = r => placed /\ unread = {} /\ balance \in Int /\ rate \in Int,
         UNCHANGED matches
  PROVE  Kept
<1>1. /\ RequestsOK' /\ DOMAIN requests' = DOMAIN requests
      /\ \A q \in DOMAIN requests : requests'[q].wish = requests[q].wish
      /\ \A m \in DOMAIN matches :
           /\ m[1] \in DOMAIN requests' /\ IsOrder(m[1])'
           /\ requests'[m[1]].placed /\ requests'[m[1]].unread = {}
           /\ requests'[m[1]].balance \in Int /\ requests'[m[1]].rate \in Int
           /\ {OwnId(m[1])'[1], m[2][1]} = {"buyDGC", "sellDGC"}
  BY BecomesKept
<1>2. MatchesOK'
  BY <1>1 DEF MatchesOK
<1>3. Grows
  BY <1>1 DEF Grows
<1> QED
  BY <1>1, <1>2, <1>3 DEF Kept

LEMMA PlacedKeeps ==
  ASSUME RequestsOK, MatchesOK, NEW r, Placed(r)
  PROVE  Kept
<1>1. RequestStore /\ r \in DOMAIN requests
  BY DEF RequestsOK, Placed
<1>2. PICK unread \in SUBSET {"own", "open"} :
        /\ Becomes(r, TRUE, unread, requests[r].rate, requests[r].balance, requests[r].amount,
                   requests[r].exchanges)
        /\ "open" \in unread => IsOrder(r)
  BY <1>1, PlacedEffect
<1>3. ~requests[r].placed /\ UNCHANGED matches
  BY <1>1, PlacedEffect
<1>4. PICK rate, balance, amount, pairs :
        /\ rate = requests[r].rate /\ balance = requests[r].balance /\ amount = requests[r].amount
        /\ pairs = requests[r].exchanges
  OBVIOUS
<1>5. Sound(r, TRUE, unread, rate, balance, amount, pairs)
  BY <1>1, <1>2, <1>3, <1>4, RequestIs DEF Sound, RequestsOK
<1>6. \A m \in DOMAIN matches : m[1] # r
  BY <1>3 DEF MatchesOK
<1>7. Becomes(r, TRUE, unread, rate, balance, amount, pairs)
  BY <1>2, <1>4
<1> QED
  BY <1>3, <1>5, <1>6, <1>7, BecomesAlone

LEMMA AcceptKeeps ==
  ASSUME RequestsOK, MatchesOK, NEW r, ApplyCredit(r) \/ TransferCoins(r)
  PROVE  Kept
<1>1. PICK receiver : AcceptFor(r, receiver)
  BY DEF ApplyCredit, TransferCoins
<1>2. r \in DOMAIN requests /\ "own" \in requests[r].unread /\ ~IsOrder(r)
  BY DEF ApplyCredit, TransferCoins, Reads, IsOrder
<1>3. PICK placed, rate, balance, amount, pairs :
        /\ placed = requests[r].placed /\ rate = requests[r].rate /\ balance = requests[r].balance
        /\ amount = requests[r].amount /\ pairs = requests[r].exchanges
  OBVIOUS
<1>4. UNCHANGED matches /\ Becomes(r, placed, {}, rate, balance, amount, pairs)
  BY <1>1, <1>2, <1>3, AcceptEffect DEF RequestsOK
<1>5. Sound(r, placed, {}, rate, balance, amount, pairs)
  BY <1>2, <1>3, RequestIs DEF Sound, RequestsOK
<1>6. \A m \in DOMAIN matches : m[1] # r
  BY <1>2 DEF MatchesOK
<1> QED
  BY <1>4, <1>5, <1>6, BecomesAlone

LEMMA ReadOwnKeeps ==
  ASSUME ViewOK, RequestsOK, MatchesOK, NEW r, ReadOwn(r)
  PROVE  Kept
<1> DEFINE own == requests[r]
           found == OwnId(r) \in DOMAIN view.proposals
<1>0. r \in DOMAIN requests /\ "own" \in own.unread /\ IsOrder(r)
  BY DEF ReadOwn, Reads
<1>1. PICK unread, rate, balance :
        /\ unread = own.unread \ {"own"}
        /\ rate = IF found THEN view.rates[OwnId(r)] ELSE own.rate
        /\ balance = IF found THEN Left(view.proposals[OwnId(r)]) ELSE own.balance
  OBVIOUS
<1>2. PICK placed, amount, pairs :
        placed = own.placed /\ amount = own.amount /\ pairs = own.exchanges
  OBVIOUS
<1>3. UNCHANGED matches /\ Becomes(r, placed, unread, rate, balance, amount, pairs)
  BY <1>1, <1>2, ReadOwnEffect DEF RequestsOK
<1>4. found => view.rates[OwnId(r)] \in Int
  BY DEF ViewOK, Typed, IsStore
<1>5. found => Left(view.proposals[OwnId(r)]) \in Int
  <2>1. found => view.proposals[OwnId(r)] \in Proposal
    BY DEF ViewOK, Typed, IsStore
  <2>2. found => view.proposals[OwnId(r)].amount \in Int /\ view.proposals[OwnId(r)].exchanged \in Int
    BY <2>1 DEF Proposal
  <2> QED
    BY <2>2 DEF Left
<1>6. /\ own.rate \in Int \cup {Unknown} /\ own.balance \in Int \cup {Unknown}
      /\ own.unread \in SUBSET {"own", "open"} /\ own.placed \in BOOLEAN /\ own.amount \in Int
      /\ own.exchanges \in SUBSET (ProposalIds \X ProposalIds)
  BY <1>0, RequestIs
<1>7. own.placed /\ (own.balance # Unknown => "own" \notin own.unread)
  BY <1>0 DEF RequestsOK
<1>8. Sound(r, placed, unread, rate, balance, amount, pairs)
  BY <1>0, <1>1, <1>2, <1>4, <1>5, <1>6, <1>7 DEF Sound
<1>9. \A m \in DOMAIN matches : m[1] # r
  BY <1>0 DEF MatchesOK
<1> QED
  BY <1>3, <1>8, <1>9, BecomesAlone

\* The match of a request with another order, read together.
LEMMA MatchOfIs ==
  ASSUME ViewOK, RequestsOK, NEW r \in DOMAIN requests, IsOrder(r),
         NEW id \in Counterparts(requests[r].wish.kind), PricesMeet(r, id)
  PROVE  /\ id \in ProposalIds /\ MatchOf(r, id) \in Match
         /\ requests[r].balance \in Int /\ requests[r].rate \in Int
         /\ "own" \notin requests[r].unread /\ requests[r].placed
         /\ {OwnId(r)[1], id[1]} = {"buyDGC", "sellDGC"}
<1>1. /\ id \in DOMAIN view.proposals
      /\ {requests[r].wish.kind, view.proposals[id].role} = {"buyDGC", "sellDGC"}
  BY DEF Counterparts
<1>2. view.proposals[id] \in Proposal /\ id \in ProposalIds /\ view.proposals[id].role = id[1]
  BY <1>1 DEF ViewOK, Typed, IsStore
<1>3. view.proposals[id].amount \in Int /\ view.proposals[id].exchanged \in Int
  BY <1>2 DEF Proposal
<1>4. requests[r].balance \in Int
  BY RequestIs DEF PricesMeet
<1>5. requests[r].placed /\ "own" \notin requests[r].unread /\ requests[r].rate \in Int
  BY DEF PricesMeet, RequestsOK
<1>6. {OwnId(r)[1], id[1]} = {"buyDGC", "sellDGC"}
  BY <1>1, <1>2, RequestIs
<1>7. Left(view.proposals[id]) \in Int
  BY <1>3 DEF Left
<1>8. MatchOf(r, id) \in Match
  BY <1>4, <1>7 DEF MatchOf, Match
<1> QED
  BY <1>2, <1>4, <1>5, <1>6, <1>8

LEMMA ReadOpenKeeps ==
  ASSUME ViewOK, RequestsOK, MatchesOK, NEW r, ReadOpen(r)
  PROVE  Kept
<1> DEFINE own == requests[r]
           found == {id \in Counterparts(own.wish.kind) : PricesMeet(r, id)}
<1>0. r \in DOMAIN requests /\ "open" \in own.unread
  BY DEF ReadOpen, Reads
<1>1. PICK placed, unread, rate, balance, amount, pairs :
        /\ placed = own.placed /\ unread = own.unread \ {"open"} /\ rate = own.rate
        /\ balance = own.balance /\ amount = own.amount /\ pairs = own.exchanges
  OBVIOUS
<1>2. /\ Becomes(r, placed, unread, rate, balance, amount, pairs)
      /\ matches' = [m \in DOMAIN matches' |-> matches'[m]]
      /\ DOMAIN matches' = DOMAIN matches \cup ({r} \X found)
      /\ \A m \in {r} \X found : matches'[m] = MatchOf(r, m[2])
      /\ \A m \in DOMAIN matches : m \notin {r} \X found => matches'[m] = matches[m]
  BY <1>1, ReadOpenEffect DEF RequestsOK
<1>3. IsOrder(r) /\ r \in Requests /\ own.placed
  BY <1>0, RequestIs DEF RequestsOK
<1>4. /\ own.rate \in Int \cup {Unknown} /\ own.balance \in Int \cup {Unknown}
      /\ own.unread \in SUBSET {"own", "open"} /\ own.placed \in BOOLEAN /\ own.amount \in Int
      /\ own.exchanges \in SUBSET (ProposalIds \X ProposalIds)
  BY <1>0, RequestIs
<1>5. own.balance # Unknown => own.placed /\ "own" \notin own.unread /\ own.rate \in Int
  BY <1>0 DEF RequestsOK
<1>6. Sound(r, placed, unread, rate, balance, amount, pairs)
  BY <1>1, <1>3, <1>4, <1>5 DEF Sound
<1>7. \A m \in DOMAIN matches : m[1] # r
  BY <1>0 DEF MatchesOK
<1>8. \A id \in found :
        /\ id \in ProposalIds /\ MatchOf(r, id) \in Match
        /\ own.balance \in Int /\ own.rate \in Int
        /\ "own" \notin own.unread /\ {OwnId(r)[1], id[1]} = {"buyDGC", "sellDGC"}
  BY <1>0, <1>3, MatchOfIs
<1> HIDE DEF found
<1>9. /\ RequestsOK' /\ DOMAIN requests' = DOMAIN requests
      /\ \A q \in DOMAIN requests :
           /\ requests'[q].wish = requests[q].wish
           /\ (IsOrder(q)' <=> IsOrder(q)) /\ OwnId(q)' = OwnId(q)
      /\ \A q \in DOMAIN requests : q # r => requests'[q] = requests[q]
      /\ requests'[r].placed = placed /\ requests'[r].unread = unread
      /\ requests'[r].rate = rate /\ requests'[r].balance = balance
  BY <1>2, <1>6, BecomesKeeps
<1>10. \A m \in DOMAIN matches : m \in DOMAIN matches' /\ matches'[m] = matches[m]
  BY <1>2, <1>7
<1>11. IsStore(matches', Requests \X ProposalIds, Match)
  <2>1. \A m \in DOMAIN matches : m \in Requests \X ProposalIds /\ matches[m] \in Match
    BY DEF MatchesOK, IsStore
  <2>2. \A m \in {r} \X found : m \in Requests \X ProposalIds /\ matches'[m] \in Match
    BY <1>2, <1>3, <1>8
  <2>3. \A m \in DOMAIN matches' : m \in Requests \X ProposalIds /\ matches'[m] \in Match
    BY <1>2, <1>10, <2>1, <2>2
  <2> QED
    BY <1>2, <2>3 DEF IsStore
<1>12. ASSUME NEW m \in DOMAIN matches'
       PROVE  /\ m[1] \in DOMAIN requests' /\ IsOrder(m[1])'
              /\ requests'[m[1]].placed /\ requests'[m[1]].unread = {}
              /\ requests'[m[1]].balance \in Int /\ requests'[m[1]].rate \in Int
              /\ {OwnId(m[1])'[1], m[2][1]} = {"buyDGC", "sellDGC"}
  <2>1. CASE m \in {r} \X found
    <3>1. m[1] = r /\ m[2] \in found
      BY <2>1
    <3>2. /\ own.balance \in Int /\ own.rate \in Int /\ "own" \notin own.unread
          /\ {OwnId(r)[1], m[2][1]} = {"buyDGC", "sellDGC"}
      BY <1>8, <3>1
    <3>3. unread = {}
      BY <1>1, <1>4, <3>2
    <3>4. /\ r \in DOMAIN requests' /\ IsOrder(r)' /\ requests'[r].placed /\ requests'[r].unread = {}
          /\ requests'[r].balance \in Int /\ requests'[r].rate \in Int /\ OwnId(r)' = OwnId(r)
      BY <1>0, <1>1, <1>3, <1>9, <3>2, <3>3
    <3>5. PICK q : q = m[1]
      OBVIOUS
    <3> QED
      BY <3>1, <3>2, <3>4, <3>5
  <2>2. CASE m \in DOMAIN matches
    <3>1. PICK q : q = m[1]
      OBVIOUS
    <3>2. /\ q \in DOMAIN requests /\ IsOrder(q) /\ requests[q].placed /\ requests[q].unread = {}
          /\ requests[q].balance \in Int /\ requests[q].rate \in Int
          /\ {OwnId(q)[1], m[2][1]} = {"buyDGC", "sellDGC"} /\ q # r
      BY <1>7, <2>2, <3>1 DEF MatchesOK
    <3> QED
      BY <1>9, <3>1, <3>2
  <2> QED
    BY <1>2, <2>1, <2>2
<1>13. MatchesOK'
  BY <1>11, <1>12 DEF MatchesOK
<1>14. Grows
  BY <1>9, <1>10 DEF Grows
<1> QED
  BY <1>9, <1>13, <1>14 DEF Kept

LEMMA MovesStore ==
  ASSUME MatchesOK, NEW m, NEW stage \in {"older", "set", "sent"}, Moves(m, stage)
  PROVE  /\ IsStore(matches', Requests \X ProposalIds, Match) /\ DOMAIN matches' = DOMAIN matches
         /\ \A n \in DOMAIN matches :
              /\ matches'[n].older = matches[n].older
              /\ matches'[n].newer = matches[n].newer /\ matches'[n].amount = matches[n].amount
<1>1. /\ m \in DOMAIN matches /\ DOMAIN matches' = DOMAIN matches
      /\ \A n \in DOMAIN matches : n # m => matches'[n] = matches[n]
  BY DEF Moves
<1>2. /\ matches'[m].older = matches[m].older
      /\ matches'[m].newer = matches[m].newer /\ matches'[m].amount = matches[m].amount
  BY DEF Moves
<1>3. matches'[m] \in Match
  BY <1>1, MatchIs DEF Moves, Match
<1>4. IsStore(matches', Requests \X ProposalIds, Match)
  BY <1>1, <1>3 DEF Moves, MatchesOK, IsStore
<1> QED
  BY <1>1, <1>2, <1>4

LEMMA MoveKeeps ==
  ASSUME RequestsOK, MatchesOK, NEW m, SendOlder(m) \/ SendNewer(m)
  PROVE  Kept
<1>1. m \in DOMAIN matches /\ UNCHANGED requests
  BY DEF SendOlder, SendNewer, In
<1>2. PICK stage \in {"older", "set", "sent"} : Moves(m, stage)
  <2>1. Move(m, "older") \/ Move(m, "sent")
    BY DEF SendOlder, SendNewer
  <2>2. Move(m, "older") => Moves(m, "older")
    BY <1>1, MoveEffect DEF MatchesOK
  <2>3. Move(m, "sent") => Moves(m, "sent")
    BY <1>1, MoveEffect DEF MatchesOK
  <2> QED
    BY <2>1, <2>2, <2>3
<1>3. /\ IsStore(matches', Requests \X ProposalIds, Match) /\ DOMAIN matches' = DOMAIN matches
      /\ \A n \in DOMAIN matches :
           /\ matches'[n].older = matches[n].older
           /\ matches'[n].newer = matches[n].newer /\ matches'[n].amount = matches[n].amount
  BY <1>2, MovesStore
<1>4. Grows
  BY <1>1, <1>3 DEF Grows
<1>5. RequestsOK'
  BY <1>1 DEF RequestsOK, RequestStore, IsOrder
<1>6. MatchesOK'
  BY <1>1, <1>3 DEF MatchesOK, IsOrder, OwnId
<1> QED
  BY <1>4, <1>5, <1>6 DEF Kept

LEMMA PairIs ==
  ASSUME RequestsOK, MatchesOK, NEW m \in DOMAIN matches
  PROVE  Pair(m[1], m[2]) \in ProposalIds \X ProposalIds
<1>1. m[2] \in ProposalIds /\ m[1] \in DOMAIN requests
  BY MatchIs DEF MatchesOK
<1>2. OwnId(m[1]) \in ProposalIds
  BY <1>1, RequestIs
<1> QED
  BY <1>1, <1>2 DEF Pair

LEMMA OlderOverKeeps ==
  ASSUME RequestsOK, MatchesOK, NEW m, OlderOver(m)
  PROVE  Kept
<1> DEFINE r == m[1]
           own == requests[r]
<1>1. m \in DOMAIN matches /\ r \in DOMAIN requests
  BY DEF OlderOver, In, MatchesOK
<1>2. Moves(m, "set")
  BY <1>1, MoveEffect DEF OlderOver, MatchesOK
<1>3. /\ IsStore(matches', Requests \X ProposalIds, Match) /\ DOMAIN matches' = DOMAIN matches
      /\ \A n \in DOMAIN matches :
           /\ matches'[n].older = matches[n].older
           /\ matches'[n].newer = matches[n].newer /\ matches'[n].amount = matches[n].amount
  BY <1>2, MovesStore
<1>4. PICK placed, unread, rate : placed = own.placed /\ unread = own.unread /\ rate = own.rate
  OBVIOUS
<1>5. /\ placed = TRUE /\ unread = {} /\ own.balance \in Int /\ rate \in Int /\ matches[m].amount \in Int
      /\ own.exchanges \in SUBSET (ProposalIds \X ProposalIds)
  <2>1. placed /\ unread = {} /\ own.balance \in Int /\ rate \in Int
    BY <1>1, <1>4 DEF MatchesOK
  <2>2. own.placed \in BOOLEAN /\ own.exchanges \in SUBSET (ProposalIds \X ProposalIds)
    BY <1>1, RequestIs
  <2>3. matches[m].amount \in Int
    BY <1>1, MatchIs
  <2> QED
    BY <1>4, <2>1, <2>2, <2>3
<1>6. \E balance \in Int, amount \in Int, pairs \in SUBSET (ProposalIds \X ProposalIds) :
        Becomes(r, placed, unread, rate, balance, amount, pairs)
  <2>1. PICK x, y : x = own.balance /\ y = matches[m].amount
    OBVIOUS
  <2>2. x \in Int /\ y \in Int /\ x - y \in Int
    BY <1>5, <2>1
  <2>3. PICK pairs : pairs = IF matches[m].older = "autoOPEN" THEN {Pair(m[1], m[2])} ELSE own.exchanges
    OBVIOUS
  <2>4. pairs \in SUBSET (ProposalIds \X ProposalIds)
    BY <1>1, <1>5, <2>3, PairIs
  <2>5. \/ Becomes(r, placed, unread, rate, x - y, y, own.exchanges)
        \/ Becomes(r, placed, unread, rate, 0, x, pairs)
    BY <1>1, <1>4, <2>1, <2>3, OlderOverEffect DEF RequestsOK
  <2>6. 0 \in Int
    OBVIOUS
  <2> HIDE DEF r
  <2>7. CASE Becomes(r, placed, unread, rate, x - y, y, own.exchanges)
    BY <1>5, <2>2, <2>7
  <2>8. CASE Becomes(r, placed, unread, rate, 0, x, pairs)
    BY <2>2, <2>4, <2>6, <2>8
  <2> QED
    BY <2>5, <2>7, <2>8
<1>7. PICK balance \in Int, amount \in Int, pairs \in SUBSET (ProposalIds \X ProposalIds) :
        Becomes(r, placed, unread, rate, balance, amount, pairs)
  BY <1>6
<1>8. Sound(r, placed, unread, rate, balance, amount, pairs)
  BY <1>5 DEF Sound
<1>9. /\ RequestsOK' /\ DOMAIN requests' = DOMAIN requests
      /\ \A q \in DOMAIN requests : requests'[q].wish = requests[q].wish
      /\ \A n \in DOMAIN matches :
           /\ n[1] \in DOMAIN requests' /\ IsOrder(n[1])'
           /\ requests'[n[1]].placed /\ requests'[n[1]].unread = {}
           /\ requests'[n[1]].balance \in Int /\ requests'[n[1]].rate \in Int
           /\ {OwnId(n[1])'[1], n[2][1]} = {"buyDGC", "sellDGC"}
  BY <1>5, <1>7, <1>8, BecomesKept
<1>10. MatchesOK'
  BY <1>3, <1>9 DEF MatchesOK
<1>11. Grows
  BY <1>3, <1>9 DEF Grows
<1> QED
  BY <1>9, <1>10, <1>11 DEF Kept

(* Every step keeps requests and matches well formed.                      *)
LEMMA StepKept ==
  ASSUME ViewOK, RequestsOK, MatchesOK, [ExchangeNext]_allVars
  PROVE  Kept
<1>1. ASSUME UNCHANGED <<requests, matches>> PROVE Kept
  <2>1. RequestsOK'
    BY <1>1 DEF RequestsOK, RequestStore, IsOrder
  <2>2. MatchesOK'
    BY <1>1 DEF MatchesOK, IsOrder, OwnId
  <2>3. Grows
    BY <1>1 DEF Grows
  <2> QED
    BY <2>1, <2>2, <2>3 DEF Kept
<1>2. CASE Sends
  BY <1>2, PlaceKeeps, AcceptKeeps, MoveKeeps DEF Sends
<1>3. CASE Works
  BY <1>1, <1>3, PlacedKeeps, ReadOwnKeeps, ReadOpenKeeps, OlderOverKeeps
     DEF Works, SyncProposals, allVars
<1>4. ASSUME NEW b, Carry(b) \/ CommitTxn(b) \/ InvalidateTxn(b) PROVE Kept
  BY <1>1, <1>4 DEF Carry, CommitTxn, InvalidateTxn
<1> QED
  BY <1>2, <1>3, <1>4, ExchangeSteps

-----------------------------------------------------------------------------
(* What each batch says. *)

AcceptSays(r, t) ==
  /\ ~IsOrder(r) /\ t.payload.id = OwnId(r) /\ t.payload.response = "ACCEPT"
  /\ t.payload.amount \in Int /\ t.payload.exchanges = {}

OlderSays(m, t) ==
  /\ t.payload.id = m[2] /\ t.payload.response = matches[m].older
  /\ t.payload.amount = matches[m].amount
  /\ t.payload.exchanges \subseteq {Pair(m[1], m[2])}

NewerSays(m, t) == t.payload.id = OwnId(m[1]) /\ t.payload.response = matches[m].newer

Says(c, t) ==
  /\ c = <<c[1], c[2], c[3]>> /\ c[1] \in DOMAIN requests
  /\ \/ c[3] = "place" /\ c[2] = OwnId(c[1]) /\ t = Create(requests[c[1]].wish)
     \/ /\ c[3] # "place" /\ t \in Reply
        /\ t.signer = requests[c[1]].wish.trader /\ t.payload.role = t.payload.id[1]
        /\ \/ c[3] = "answer" /\ c[2] = OwnId(c[1]) /\ AcceptSays(c[1], t)
           \/ /\ c[3] \in {"older", "newer"} /\ <<c[1], c[2]>> \in DOMAIN matches
              /\ c[3] = "older" => OlderSays(<<c[1], c[2]>>, t)
              /\ c[3] = "newer" => NewerSays(<<c[1], c[2]>>, t)

\* A batch is sent that says this; the second answer of a match says what
\* the request's object holds.
Sent(c, t) ==
  /\ Submit(c, t, TRUE) /\ Says(c, t)'
  /\ c[3] \in {"older", "newer"} => c[1] \in DOMAIN requests /\ <<c[1], c[2]>> \in DOMAIN matches
  /\ c[3] = "older" => t.payload.exchanges \subseteq {Pair(c[1], c[2])}
  /\ c[3] = "newer" => /\ matches[<<c[1], c[2]>>].stage = "set"
                       /\ t.payload.amount = requests[c[1]].amount
                       /\ t.payload.exchanges \subseteq requests[c[1]].exchanges

SayOK == \A c \in DOMAIN batches : Says(c, batches[c].txns)

LEMMA SaysStay ==
  ASSUME Grows, NEW c, NEW t, Says(c, t)
  PROVE  Says(c, t)'
<1>1. PICK r, id : r = c[1] /\ id = c[2]
  OBVIOUS
<1>2. r \in DOMAIN requests /\ r \in DOMAIN requests' /\ requests'[r].wish = requests[r].wish
  BY <1>1 DEF Says, Grows
<1>3. OwnId(r)' = OwnId(r) /\ (IsOrder(r)' <=> IsOrder(r)) /\ Pair(r, id)' = Pair(r, id)
  BY <1>2 DEF OwnId, IsOrder, Pair
<1>4. PICK m : m = <<r, id>>
  OBVIOUS
<1>5. m \in DOMAIN matches =>
        /\ m \in DOMAIN matches' /\ matches'[m].older = matches[m].older
        /\ matches'[m].newer = matches[m].newer /\ matches'[m].amount = matches[m].amount
  BY DEF Grows
<1>6. AcceptSays(r, t) => AcceptSays(r, t)'
  BY <1>3 DEF AcceptSays
<1>7. m \in DOMAIN matches /\ OlderSays(m, t) => OlderSays(m, t)'
  BY <1>3, <1>4, <1>5 DEF OlderSays
<1>8. m \in DOMAIN matches /\ NewerSays(m, t) => NewerSays(m, t)'
  BY <1>3, <1>4, <1>5 DEF NewerSays
<1>9. c = <<c[1], c[2], c[3]>>
  BY DEF Says
<1>10. CASE c[3] = "place" /\ c[2] = OwnId(c[1]) /\ t = Create(requests[c[1]].wish)
  BY <1>1, <1>2, <1>3, <1>9, <1>10 DEF Says
<1>11. CASE ~(c[3] = "place" /\ c[2] = OwnId(c[1]) /\ t = Create(requests[c[1]].wish))
  <2>1. /\ c[3] # "place" /\ t \in Reply
        /\ t.signer = requests[r].wish.trader /\ t.payload.role = t.payload.id[1]
        /\ \/ c[3] = "answer" /\ id = OwnId(r) /\ AcceptSays(r, t)
           \/ /\ c[3] \in {"older", "newer"} /\ m \in DOMAIN matches
              /\ c[3] = "older" => OlderSays(m, t)
              /\ c[3] = "newer" => NewerSays(m, t)
    BY <1>1, <1>4, <1>11 DEF Says
  <2>2. /\ t.signer = requests'[r].wish.trader
        /\ \/ c[3] = "answer" /\ id = OwnId(r)' /\ AcceptSays(r, t)'
           \/ /\ c[3] \in {"older", "newer"} /\ m \in DOMAIN matches'
              /\ c[3] = "older" => OlderSays(m, t)'
              /\ c[3] = "newer" => NewerSays(m, t)'
    BY <1>2, <1>3, <1>5, <1>6, <1>7, <1>8, <2>1
  <2> QED
    BY <1>1, <1>2, <1>4, <1>9, <2>1, <2>2 DEF Says
<1> QED
  BY <1>10, <1>11

LEMMA BatchIn ==
  ASSUME NEW r \in Requests, NEW id \in ProposalIds, NEW part \in {"place", "older", "newer", "answer"}
  PROVE  <<r, id, part>> \in BatchIds
BY BatchesAssumption

LEMMA CreationIs ==
  ASSUME NEW wish \in Wish
  PROVE  Create(wish) \in Creation
<1>1. Id(wish) \in ProposalIds
  BY IdsTyped
<1>2. /\ wish.kind \in CoinRoles /\ wish.trader \in Participants /\ wish.amount \in Int /\ wish.rate \in Int
      /\ wish.receiver \in Participants \cup {Nobody}
  BY DEF Wish
<1> QED
  BY <1>1, <1>2 DEF Create, Creation, ProposalPayload, Roles

LEMMA ReplyIs ==
  ASSUME NEW id \in ProposalIds, NEW signer \in Participants, NEW response \in Responses,
         NEW receiver \in Participants \cup {Nobody}, NEW amount \in Int,
         NEW pairs \in SUBSET (ProposalIds \X ProposalIds),
         NEW t, t = AnswerTo(id, signer, response, receiver, amount, pairs)
  PROVE  /\ t \in Reply /\ t.signer = signer /\ t.payload.role = id[1] /\ t.payload.id = id
         /\ t.payload.response = response /\ t.payload.amount = amount
         /\ t.payload.exchanges = pairs
<1>1. id[1] \in CoinRoles
  BY IdsAssumption
<1> QED
  BY <1>1 DEF AnswerTo, Reply, ReplyPayload

LEMMA PlaceSays ==
  ASSUME RequestsOK, MatchesOK, NEW r \in Requests, Place(r)
  PROVE  \E c \in BatchIds, t \in Creation \cup Reply : Sent(c, t)
<1>1. Kept /\ r \notin DOMAIN requests
  BY PlaceKeeps
<1>2. PICK wish \in Asks[r] :
        /\ requests' = Put(requests, r,
             [wish |-> wish, placed |-> FALSE, unread |-> {}, rate |-> Unknown,
              balance |-> Unknown, amount |-> wish.amount, exchanges |-> {}])
        /\ Submit(<<r, Id(wish), "place">>, Create(wish), TRUE)
  BY DEF Place
<1>3. wish \in Wish
  BY AsksAssumption
<1>4. Id(wish) \in ProposalIds /\ Create(wish) \in Creation
  BY <1>3, IdsTyped, CreationIs
<1>5. r \in DOMAIN requests' /\ requests'[r].wish = wish
  <2> DEFINE new == [wish |-> wish, placed |-> FALSE, unread |-> {}, rate |-> Unknown,
                     balance |-> Unknown, amount |-> wish.amount, exchanges |-> {}]
  <2>1. new.wish = wish /\ requests' = Put(requests, r, new)
    BY <1>2
  <2> HIDE DEF new
  <2>2. r \in DOMAIN requests' /\ requests'[r] = new
    BY <2>1 DEF Put
  <2> QED
    BY <2>1, <2>2
<1>6. PICK id, t : id = Id(wish) /\ t = Create(wish)
  OBVIOUS
<1>7. OwnId(r)' = id
  BY <1>5, <1>6 DEF OwnId
<1>8. Says(<<r, id, "place">>, t)'
  BY <1>5, <1>6, <1>7 DEF Says
<1>9. <<r, id, "place">> \in BatchIds
  BY <1>4, <1>6, BatchIn
<1>10. Sent(<<r, id, "place">>, t)
  BY <1>2, <1>6, <1>8 DEF Sent
<1> QED
  BY <1>4, <1>6, <1>9, <1>10

LEMMA AcceptSaysSo ==
  ASSUME ViewOK, RequestsOK, MatchesOK, NEW r, ApplyCredit(r) \/ TransferCoins(r)
  PROVE  \/ UNCHANGED batches
         \/ \E c \in BatchIds, t \in Creation \cup Reply : Sent(c, t)
<1>1. Kept
  BY AcceptKeeps
<1>2. r \in DOMAIN requests /\ ~IsOrder(r)
  BY DEF ApplyCredit, TransferCoins, Reads, IsOrder
<1>3. PICK id, trader : id = OwnId(r) /\ trader = requests[r].wish.trader
  OBVIOUS
<1>4. id \in ProposalIds /\ trader \in Participants /\ r \in Requests
  BY <1>2, <1>3, RequestIs DEF Wish
<1>5. CASE id \notin DOMAIN view.proposals
  BY <1>3, <1>5 DEF ApplyCredit, TransferCoins, AcceptFor
<1>6. CASE id \in DOMAIN view.proposals
  <2>1. view.proposals[id] \in Proposal
    BY <1>6 DEF ViewOK, Typed, IsStore
  <2>2. PICK receiver \in Participants \cup {Nobody} : AcceptFor(r, receiver)
    <3>1. /\ view.proposals[id].issuer \in Participants \cup {Nobody}
          /\ view.proposals[id].receiver \in Participants \cup {Nobody}
      BY <2>1 DEF Proposal
    <3> QED
      BY <1>3, <3>1 DEF ApplyCredit, TransferCoins
  <2>3. PICK amount : amount = view.proposals[id].amount
    OBVIOUS
  <2>4. amount \in Int
    BY <2>1, <2>3 DEF Proposal
  <2>5. PICK t : t = AnswerTo(id, trader, "ACCEPT", receiver, amount, {})
    OBVIOUS
  <2>6. Submit(<<r, id, "answer">>, t, TRUE)
    BY <1>3, <1>6, <2>2, <2>3, <2>5 DEF AcceptFor, Own
  <2>7. /\ t \in Reply /\ t.signer = trader /\ t.payload.role = id[1] /\ t.payload.id = id
        /\ t.payload.response = "ACCEPT" /\ t.payload.amount = amount /\ t.payload.exchanges = {}
    <3>1. "ACCEPT" \in Responses /\ {} \in SUBSET (ProposalIds \X ProposalIds) /\ amount \in Int
      BY <2>4 DEF Responses
    <3> QED
      BY <1>4, <2>5, <3>1, ReplyIs
  <2>8. r \in DOMAIN requests' /\ requests'[r].wish = requests[r].wish
    BY <1>1, <1>2 DEF Kept, Grows
  <2>9. OwnId(r)' = id /\ ~IsOrder(r)' /\ requests'[r].wish.trader = trader
    BY <1>2, <1>3, <2>8 DEF OwnId, IsOrder
  <2>10. AcceptSays(r, t)'
    BY <2>4, <2>7, <2>9 DEF AcceptSays
  <2>11. Says(<<r, id, "answer">>, t)'
    BY <2>7, <2>8, <2>9, <2>10 DEF Says
  <2>12. <<r, id, "answer">> \in BatchIds
    BY <1>4, BatchIn
  <2>13. Sent(<<r, id, "answer">>, t)
    BY <2>6, <2>11 DEF Sent
  <2> QED
    BY <2>7, <2>12, <2>13
<1> QED
  BY <1>5, <1>6

LEMMA MatchSays ==
  ASSUME RequestsOK, MatchesOK, NEW m, SendOlder(m) \/ SendNewer(m)
  PROVE  \E c \in BatchIds, t \in Creation \cup Reply : Sent(c, t)
<1>1. Kept
  BY MoveKeeps
<1>2. m \in DOMAIN matches
  BY DEF SendOlder, SendNewer, In
<1>3. PICK r, id, trader, own : r = m[1] /\ id = m[2] /\ trader = requests[r].wish.trader /\ own = OwnId(r)
  OBVIOUS
<1>4. /\ m = <<r, id>> /\ r \in DOMAIN requests /\ r \in Requests /\ id \in ProposalIds
      /\ own \in ProposalIds /\ trader \in Participants
  <2>1. m = <<r, id>> /\ r \in Requests /\ id \in ProposalIds
    BY <1>2, <1>3, MatchIs
  <2>2. r \in DOMAIN requests
    BY <1>2, <1>3 DEF MatchesOK
  <2>3. own \in ProposalIds /\ trader \in Participants
    BY <1>3, <2>2, RequestIs DEF Wish
  <2> QED
    BY <2>1, <2>2, <2>3
<1>5. r \in DOMAIN requests' /\ requests'[r].wish = requests[r].wish
  BY <1>1, <1>4 DEF Kept, Grows
<1>6. OwnId(r)' = own /\ requests'[r].wish.trader = trader /\ Pair(r, id)' = Pair(r, id)
  BY <1>3, <1>5 DEF OwnId, Pair
<1>7. /\ m \in DOMAIN matches' /\ matches'[m].older = matches[m].older
      /\ matches'[m].newer = matches[m].newer /\ matches'[m].amount = matches[m].amount
  BY <1>1, <1>2 DEF Kept, Grows
<1>8. /\ matches[m].older \in Responses /\ matches[m].newer \in Responses /\ matches[m].amount \in Int
  BY <1>2, MatchIs DEF Responses
<1>9. Pair(r, id) \in ProposalIds \X ProposalIds
  BY <1>2, <1>3, PairIs
<1>10. CASE SendOlder(m)
  <2>1. PICK response, amount, pairs :
          /\ response = matches[m].older /\ amount = matches[m].amount
          /\ pairs = IF matches[m].older = "autoCLOSE" THEN {Pair(m[1], m[2])} ELSE {}
    OBVIOUS
  <2>2. PICK t : t = AnswerTo(id, trader, response, Nobody, amount, pairs)
    OBVIOUS
  <2>3. Submit(<<r, id, "older">>, t, TRUE)
    BY <1>3, <1>10, <2>1, <2>2 DEF SendOlder, Batch, Trader
  <2>4. pairs \subseteq {Pair(r, id)} /\ pairs \in SUBSET (ProposalIds \X ProposalIds)
    BY <1>3, <1>9, <2>1
  <2>5. /\ t \in Reply /\ t.signer = trader /\ t.payload.role = id[1] /\ t.payload.id = id
        /\ t.payload.response = response /\ t.payload.amount = amount /\ t.payload.exchanges = pairs
    <3>1. response \in Responses /\ Nobody \in Participants \cup {Nobody} /\ amount \in Int
      BY <1>8, <2>1
    <3>2. id \in ProposalIds /\ trader \in Participants
      BY <1>4
    <3>3. pairs \in SUBSET (ProposalIds \X ProposalIds)
      BY <2>4
    <3> QED
      BY <2>2, <3>1, <3>2, <3>3, ReplyIs
  <2>6. OlderSays(m, t)'
    BY <1>3, <1>6, <1>7, <2>1, <2>4, <2>5 DEF OlderSays
  <2>7. Says(<<r, id, "older">>, t)'
    BY <1>4, <1>5, <1>6, <1>7, <2>5, <2>6 DEF Says
  <2>8. <<r, id, "older">> \in BatchIds
    BY <1>4, BatchIn
  <2>9. Sent(<<r, id, "older">>, t)
    BY <1>2, <1>4, <2>3, <2>4, <2>5, <2>7 DEF Sent
  <2> QED
    BY <2>5, <2>8, <2>9
<1>11. CASE SendNewer(m)
  <2>1. PICK response, amount, pairs :
          /\ response = matches[m].newer /\ amount = requests[m[1]].amount
          /\ pairs = IF matches[m].newer = "autoCLOSE" THEN requests[m[1]].exchanges ELSE {}
    OBVIOUS
  <2>2. PICK t : t = AnswerTo(own, trader, response, Nobody, amount, pairs)
    OBVIOUS
  <2>3. Submit(<<r, id, "newer">>, t, TRUE)
    BY <1>3, <1>11, <2>1, <2>2 DEF SendNewer, Batch, Trader
  <2>4. pairs \in SUBSET (ProposalIds \X ProposalIds) /\ amount \in Int
    BY <1>3, <1>4, <2>1, RequestIs
  <2>5. /\ t \in Reply /\ t.signer = trader /\ t.payload.role = own[1] /\ t.payload.id = own
        /\ t.payload.response = response /\ t.payload.amount = amount /\ t.payload.exchanges = pairs
    <3>1. response \in Responses /\ Nobody \in Participants \cup {Nobody}
      BY <1>8, <2>1
    <3>2. own \in ProposalIds /\ trader \in Participants
      BY <1>4
    <3> QED
      BY <2>2, <2>4, <3>1, <3>2, ReplyIs
  <2>6. NewerSays(m, t)'
    BY <1>3, <1>6, <1>7, <2>1, <2>5 DEF NewerSays
  <2>7. Says(<<r, id, "newer">>, t)'
    BY <1>4, <1>5, <1>6, <1>7, <2>5, <2>6 DEF Says
  <2>8. <<r, id, "newer">> \in BatchIds
    BY <1>4, BatchIn
  <2>9. Sent(<<r, id, "newer">>, t)
    <3>1. matches[<<r, id>>].stage = "set"
      BY <1>4, <1>11 DEF SendNewer, In
    <3> QED
      BY <1>2, <1>3, <1>4, <2>1, <2>3, <2>5, <2>7, <3>1 DEF Sent
  <2> QED
    BY <2>5, <2>8, <2>9
<1> QED
  BY <1>10, <1>11

-----------------------------------------------------------------------------
(* What a commit does. *)

PutsOrder(b) ==
  /\ b[3] = "place" /\ UNCHANGED <<participants, exchanges>>
  /\ proposals' = Put(proposals, b[2], Placing(requests[b[1]].wish))
  /\ rates' = Put(rates, b[2], requests[b[1]].wish.rate)

PutsAnswer(b) ==
  /\ b[3] # "place" /\ UNCHANGED rates
  /\ Answers(batches[b].txns.signer, batches[b].txns.payload)

LEMMA CommitEffect ==
  ASSUME LedgerOK, MatchesOK, NEW b \in DOMAIN batches, Says(b, batches[b].txns), CommitTxn(b)
  PROVE  /\ PutsOrder(b) \/ PutsAnswer(b)
         /\ IsStore(participants', Participants, Participant)
<1>1. PICK t : t = batches[b].txns
  OBVIOUS
<1>2. \/ t.what = "create" /\ CreateProposal(t.signer, t.payload)
           /\ rates' = Put(rates, t.payload.id, t.rate)
      \/ t.what = "answer" /\ AnswerProposal(t.signer, t.payload) /\ UNCHANGED rates
  BY <1>1 DEF CommitTxn
<1>3. CASE b[3] = "place"
  <2>1. PICK wish : wish = requests[b[1]].wish
    OBVIOUS
  <2>2. t = Create(wish) /\ b[2] = Id(wish)
    BY <1>1, <1>3, <2>1 DEF Says, OwnId
  <2>3. /\ t.what = "create" /\ t.payload.id = b[2] /\ t.rate = wish.rate /\ t.signer = wish.trader
        /\ t.payload.role = wish.kind /\ t.payload.receiver = wish.receiver
        /\ t.payload.record = NoRecord /\ t.payload.properties = {} /\ t.payload.amount = wish.amount
    BY <2>2 DEF Create
  <2>4. CreateProposal(t.signer, t.payload) /\ rates' = Put(rates, b[2], wish.rate)
    BY <1>2, <2>3
  <2>5. UNCHANGED <<participants, exchanges>> /\ proposals' = Put(proposals, b[2], Placing(wish))
    BY <2>3, <2>4 DEF CreateProposal, Placing
  <2> QED
    BY <1>3, <2>1, <2>4, <2>5 DEF PutsOrder, LedgerOK
<1>4. CASE b[3] # "place"
  <2>1. /\ t \in Reply
        /\ \/ AcceptSays(b[1], t)
           \/ OlderSays(<<b[1], b[2]>>, t) /\ <<b[1], b[2]>> \in DOMAIN matches
           \/ NewerSays(<<b[1], b[2]>>, t) /\ <<b[1], b[2]>> \in DOMAIN matches
    BY <1>1, <1>4 DEF Says
  <2>2. t.what = "answer" /\ t.signer \in Participants /\ t.payload \in ReplyPayload
    BY <2>1 DEF Reply
  <2>3. PICK p, a : p = t.signer /\ a = t.payload
    OBVIOUS
  <2>4. p \in Participants /\ a \in ReplyPayload /\ AnswerProposal(p, a) /\ UNCHANGED rates
    BY <1>2, <2>2, <2>3
  <2>5. Answers(p, a)
    BY <2>4, AnswerEffect DEF LedgerOK, Typed
  <2>6. a.response = "ACCEPT" => a.amount \in Int
    <3>1. <<b[1], b[2]>> \in DOMAIN matches =>
            /\ matches[<<b[1], b[2]>>].older # "ACCEPT"
            /\ matches[<<b[1], b[2]>>].newer # "ACCEPT"
      BY MatchIs
    <3> QED
      BY <2>1, <2>3, <3>1 DEF AcceptSays, OlderSays, NewerSays
  <2>7. IsStore(participants', Participants, Participant)
    BY <2>4, <2>6, AnswerPays DEF LedgerOK
  <2> QED
    BY <1>1, <1>4, <2>3, <2>4, <2>5, <2>7 DEF PutsAnswer
<1> QED
  BY <1>3, <1>4

\* The proposals after an answer.
LEMMA ChangesTyped ==
  ASSUME Typed(proposals, rates), NEW id, NEW status \in Statuses, NEW exchanged \in Int,
         Changes(id, status, exchanged), UNCHANGED rates
  PROVE  /\ Typed(proposals, rates)' /\ DOMAIN proposals' = DOMAIN proposals
         /\ \A i \in DOMAIN proposals :
              /\ proposals'[i].receiver = proposals[i].receiver
              /\ proposals'[i].amount = proposals[i].amount
<1> DEFINE new == [proposals[id] EXCEPT !.status = status, !.exchanged = exchanged]
<1>1. id \in DOMAIN proposals /\ proposals[id] \in Proposal
  BY DEF Changes, Typed, IsStore
<1>2. new \in Proposal
  BY <1>1 DEF Proposal
<1>3. /\ new.role = proposals[id].role /\ new.receiver = proposals[id].receiver
      /\ new.amount = proposals[id].amount
  BY <1>1 DEF Proposal
<1>4. /\ DOMAIN proposals' = DOMAIN proposals /\ proposals'[id] = new
      /\ \A i \in DOMAIN proposals : i # id => proposals'[i] = proposals[i]
  BY DEF Changes
<1> HIDE DEF new
<1>5. proposals' = [i \in DOMAIN proposals' |-> proposals'[i]]
  BY DEF Changes
<1> QED
  BY <1>1, <1>2, <1>3, <1>4, <1>5 DEF Typed, IsStore

LEMMA OrderTyped ==
  ASSUME Typed(proposals, rates), RequestsOK, NEW b, b[1] \in DOMAIN requests,
         b[2] = OwnId(b[1]), PutsOrder(b)
  PROVE  /\ Typed(proposals, rates)' /\ DOMAIN proposals' = DOMAIN proposals \cup {b[2]}
         /\ proposals'[b[2]] = Placing(requests[b[1]].wish) /\ rates'[b[2]] = requests[b[1]].wish.rate
         /\ \A i \in DOMAIN proposals : i # b[2] => proposals'[i] = proposals[i] /\ rates'[i] = rates[i]
<1>1. PICK wish, id, new : wish = requests[b[1]].wish /\ id = b[2] /\ new = Placing(wish)
  OBVIOUS
<1>2. wish \in Wish /\ id \in ProposalIds /\ id[1] = wish.kind
  BY <1>1, RequestIs
<1>3. new \in Proposal /\ new.role = wish.kind /\ wish.rate \in Int
  BY <1>1, <1>2 DEF Placing, Proposal, Wish, Statuses, Roles
<1>0. IsStore(proposals, ProposalIds, Proposal) /\ IsStore(rates, ProposalIds, Int)
  BY DEF Typed
<1>4. /\ IsStore(Put(proposals, id, new), ProposalIds, Proposal)
      /\ DOMAIN Put(proposals, id, new) = DOMAIN proposals \cup {id}
      /\ Put(proposals, id, new)[id] = new
      /\ \A i \in DOMAIN proposals \ {id} : Put(proposals, id, new)[i] = proposals[i]
  BY <1>0, <1>2, <1>3 DEF Put, IsStore
<1>5. PICK x : x = wish.rate
  OBVIOUS
<1>11. x \in Int
  BY <1>3, <1>5
<1>6. /\ IsStore(Put(rates, id, x), ProposalIds, Int)
      /\ DOMAIN Put(rates, id, x) = DOMAIN rates \cup {id}
      /\ Put(rates, id, x)[id] = x
      /\ \A i \in DOMAIN rates \ {id} : Put(rates, id, x)[i] = rates[i]
  BY <1>0, <1>2, <1>11 DEF Put, IsStore
<1>7. proposals' = Put(proposals, id, new) /\ rates' = Put(rates, id, x)
  BY <1>1, <1>5 DEF PutsOrder
<1>8. DOMAIN rates = DOMAIN proposals /\ \A i \in DOMAIN proposals : proposals[i].role = i[1]
  BY DEF Typed
<1>9. /\ IsStore(proposals', ProposalIds, Proposal) /\ IsStore(rates', ProposalIds, Int)
      /\ DOMAIN rates' = DOMAIN proposals' /\ DOMAIN proposals' = DOMAIN proposals \cup {id}
      /\ proposals'[id] = new /\ rates'[id] = x
      /\ \A i \in DOMAIN proposals : i # id => proposals'[i] = proposals[i] /\ rates'[i] = rates[i]
  BY <1>4, <1>6, <1>7, <1>8
<1>10. \A i \in DOMAIN proposals' : proposals'[i].role = i[1]
  BY <1>2, <1>3, <1>8, <1>9
<1> QED
  BY <1>1, <1>5, <1>9, <1>10 DEF Typed

LEMMA AnswerTyped ==
  ASSUME Typed(proposals, rates), NEW p, NEW a \in ReplyPayload, Answers(p, a), UNCHANGED rates
  PROVE  /\ Typed(proposals, rates)' /\ DOMAIN proposals' = DOMAIN proposals
         /\ \A i \in DOMAIN proposals :
              /\ proposals'[i].receiver = proposals[i].receiver
              /\ proposals'[i].amount = proposals[i].amount
<1>1. a.id \in DOMAIN proposals /\ a.amount \in Int
  BY DEF Answers, ReplyPayload
<1>2. PICK was : was = proposals[a.id].exchanged
  OBVIOUS
<1>3. was \in Int /\ was + a.amount \in Int
  <2>1. proposals[a.id] \in Proposal
    BY <1>1 DEF Typed, IsStore
  <2> QED
    BY <1>1, <1>2, <2>1 DEF Proposal
<1>4. PICK status \in Statuses, exchanged \in Int : Changes(a.id, status, exchanged)
  <2>1. {"OPEN", "CLOSED", "ACCEPTED", "REJECTED", "CANCELED"} \subseteq Statuses
    BY DEF Statuses
  <2>2. PICK sum : sum = was + a.amount
    OBVIOUS
  <2>3. \/ Changes(a.id, "OPEN", sum) \/ Changes(a.id, "CLOSED", sum)
        \/ \E status \in {"ACCEPTED", "REJECTED", "CANCELED"} : Changes(a.id, status, was)
    BY <1>2, <2>2 DEF Answers
  <2> QED
    BY <1>3, <2>1, <2>2, <2>3
<1> QED
  BY <1>4, ChangesTyped

TypeInv == LedgerOK /\ ViewOK /\ RequestsOK /\ MatchesOK /\ SayOK /\ SubmitInv

LEMMA LedgerKept ==
  ASSUME TypeInv, [ExchangeNext]_allVars
  PROVE  LedgerOK' /\ DOMAIN proposals \subseteq DOMAIN proposals'
<1>1. CASE UNCHANGED <<ledgerVars, rates>>
  BY <1>1 DEF TypeInv, LedgerOK, Typed, ledgerVars
<1>2. ASSUME NEW b \in DOMAIN batches, CommitTxn(b)
      PROVE  LedgerOK' /\ DOMAIN proposals \subseteq DOMAIN proposals'
  <2>1. Says(b, batches[b].txns) /\ LedgerOK /\ RequestsOK /\ MatchesOK
    BY DEF TypeInv, SayOK
  <2>2. (PutsOrder(b) \/ PutsAnswer(b)) /\ IsStore(participants', Participants, Participant)
    BY <1>2, <2>1, CommitEffect
  <2>3. CASE PutsOrder(b)
    <3>1. b[1] \in DOMAIN requests /\ b[2] = OwnId(b[1])
      BY <2>1, <2>3 DEF Says, PutsOrder
    <3>2. Typed(proposals, rates)' /\ DOMAIN proposals' = DOMAIN proposals \cup {b[2]}
      BY <2>1, <2>3, <3>1, OrderTyped DEF LedgerOK
    <3> QED
      BY <2>2, <3>2 DEF LedgerOK
  <2>4. CASE PutsAnswer(b)
    <3>1. PICK t : t = batches[b].txns
      OBVIOUS
    <3>2. t.payload \in ReplyPayload /\ Answers(t.signer, t.payload) /\ UNCHANGED rates
      BY <2>1, <2>4, <3>1 DEF Says, PutsAnswer, Reply
    <3>3. Typed(proposals, rates)' /\ DOMAIN proposals' = DOMAIN proposals
      BY <2>1, <3>2, AnswerTyped DEF LedgerOK
    <3> QED
      BY <2>2, <3>3 DEF LedgerOK
  <2> QED
    BY <2>2, <2>3, <2>4
<1> QED
  BY <1>1, <1>2, BookedStep DEF TypeInv

LEMMA ViewSteps ==
  ASSUME [ExchangeNext]_allVars
  PROVE  SyncProposals \/ UNCHANGED view
<1>1. Sends => UNCHANGED view
  BY SendsOne
<1>2. Works => SyncProposals \/ UNCHANGED view
  <2>1. \A r : Placed(r) \/ ReadOwn(r) \/ ReadOpen(r) => UNCHANGED view
    BY DEF Placed, ReadOwn, ReadOpen
  <2>2. \A m : OlderOver(m) => UNCHANGED view
    BY DEF OlderOver
  <2> QED
    BY <2>1, <2>2 DEF Works, allVars
<1>3. \A b : Carry(b) \/ CommitTxn(b) \/ InvalidateTxn(b) => UNCHANGED view
  BY DEF Carry, CommitTxn, InvalidateTxn
<1> QED
  BY <1>1, <1>2, <1>3, ExchangeSteps

LEMMA ViewKept ==
  ASSUME LedgerOK, ViewOK, [ExchangeNext]_allVars
  PROVE  ViewOK'
<1>1. CASE UNCHANGED view
  BY <1>1 DEF ViewOK, Typed
<1>2. CASE SyncProposals
  <2>1. view'.proposals = proposals /\ view'.rates = rates
    BY <1>2 DEF SyncProposals
  <2> QED
    BY <2>1 DEF ViewOK, LedgerOK, Typed
<1> QED
  BY <1>1, <1>2, ViewSteps

(* A step sends one batch, which says what it should, or decides one, or   *)
(* leaves batches alone.                                                   *)
LEMMA SendsSay ==
  ASSUME ViewOK, RequestsOK, MatchesOK, Sends
  PROVE  \/ UNCHANGED batches
         \/ \E c \in BatchIds, t \in Creation \cup Reply : Sent(c, t)
BY PlaceSays, AcceptSaysSo, MatchSays DEF Sends

\* What a step that is not the server's does to batches.
LEMMA CarriedOne ==
  ASSUME SubmitInv, NEW b \in DOMAIN batches, Carry(b) \/ CommitTxn(b) \/ InvalidateTxn(b)
  PROVE  DOMAIN batches' = DOMAIN batches /\ BatchStep
<1>1. Carried(b) \/ Commit(b) \/ Invalidate(b)
  BY DEF Carry, CommitTxn, InvalidateTxn
<1>2. b \in BatchIds
  BY DEF SubmitInv, BatchesOK
<1>3. DOMAIN batches' = DOMAIN batches
  BY <1>1, TransactionsStay
<1> QED
  BY <1>1, <1>2, <1>3 DEF BatchStep, Carried

(* The requests take only steps of BatchSubmit.                            *)
LEMMA ExchangeBatches ==
  ASSUME AnyContent, TypeInv, [ExchangeNext]_allVars
  PROVE  [BatchStep]_batches
<1>1. ViewOK /\ RequestsOK /\ MatchesOK /\ SubmitInv
  BY DEF TypeInv
<1>2. ASSUME NEW c \in BatchIds, NEW t \in Creation \cup Reply, Sent(c, t)
      PROVE  BatchStep
  <2>1. Submit(c, t, TRUE) /\ t \in Content
    BY <1>2 DEF Sent, AnyContent
  <2> QED
    BY <2>1 DEF BatchStep
<1>3. CASE Sends
  BY <1>1, <1>2, <1>3, SendsSay
<1>4. CASE Works
  BY <1>4, WorksAlone
<1> QED
  BY <1>1, <1>3, <1>4, CarriedOne, ExchangeSteps

LEMMA SayKept ==
  ASSUME AnyContent, TypeInv, [ExchangeNext]_allVars
  PROVE  SayOK' /\ SubmitInv'
<1>1. ViewOK /\ RequestsOK /\ MatchesOK /\ SayOK /\ SubmitInv
  BY DEF TypeInv
<1>2. Grows
  BY <1>1, StepKept DEF Kept
<1>3. ASSUME NEW c \in DOMAIN batches, c \in DOMAIN batches', batches'[c].txns = batches[c].txns
      PROVE  Says(c, batches[c].txns)'
  <2>1. PICK t : t = batches[c].txns
    OBVIOUS
  <2>2. Says(c, t)'
    BY <1>1, <1>2, <2>1, SaysStay DEF SayOK
  <2>3. t = batches[c].txns'
    BY <1>3, <2>1
  <2> QED
    BY <2>2, <2>3
<1>4. \A c \in DOMAIN batches : c \in DOMAIN batches' /\ batches'[c].txns = batches[c].txns
  BY <1>1, BookedStep
<1>5. ASSUME DOMAIN batches' = DOMAIN batches PROVE SayOK'
  BY <1>3, <1>4, <1>5 DEF SayOK
<1>6. ASSUME NEW c \in BatchIds, NEW t \in Creation \cup Reply, Sent(c, t)
      PROVE  SayOK'
  <2>1. Submit(c, t, TRUE) /\ Says(c, t)'
    BY <1>6 DEF Sent
  <2>2. DOMAIN batches' = DOMAIN batches \cup {c} /\ batches'[c].txns = t
    BY <2>1, SentBatch
  <2>3. Says(c, batches[c].txns)'
    BY <2>1, <2>2
  <2> QED
    BY <1>3, <1>4, <2>2, <2>3 DEF SayOK
<1>7. SubmitInv'
  BY <1>1, ExchangeBatches, StepKeeps, StutterKeeps
<1>8. CASE Sends
  BY <1>1, <1>5, <1>6, <1>7, <1>8, SendsSay
<1>9. CASE Works
  BY <1>5, <1>7, <1>9, WorksAlone
<1> QED
  BY <1>1, <1>5, <1>7, <1>8, <1>9, CarriedOne, ExchangeSteps

-----------------------------------------------------------------------------
(* Orders, requests and answers stay well formed. *)

LEMMA StandingTyped ==
  ASSUME ExchangeInit
  PROVE  /\ Typed(proposals, rates)
         /\ \A id \in DOMAIN proposals : \E w \in Standing :
              Id(w) = id /\ proposals[id] = Placing(w) /\ rates[id] = w.rate
<1>1. /\ DOMAIN proposals = {Id(w) : w \in Standing} /\ DOMAIN rates = DOMAIN proposals
      /\ proposals = [id \in DOMAIN proposals |-> proposals[id]]
      /\ rates = [id \in DOMAIN rates |-> rates[id]]
      /\ \A id \in DOMAIN proposals : LET w == CHOOSE w \in Standing : Id(w) = id
                                      IN  proposals[id] = Placing(w) /\ rates[id] = Price(w)
  BY DEF ExchangeInit, OfStanding
<1>2. ASSUME NEW id \in DOMAIN proposals
      PROVE  \E w \in Standing : Id(w) = id /\ proposals[id] = Placing(w) /\ rates[id] = w.rate
  <2> DEFINE w == CHOOSE w \in Standing : Id(w) = id
  <2>1. w \in Standing /\ Id(w) = id
    BY <1>1
  <2> QED
    BY <1>1, <2>1 DEF Price
<1>3. ASSUME NEW id \in DOMAIN proposals
      PROVE  /\ id \in ProposalIds /\ proposals[id] \in Proposal /\ rates[id] \in Int
             /\ proposals[id].role = id[1]
  <2>1. PICK w \in Standing : Id(w) = id /\ proposals[id] = Placing(w) /\ rates[id] = w.rate
    BY <1>2
  <2>2. w \in Wish
    BY AsksAssumption
  <2>3. id \in ProposalIds /\ id[1] = w.kind
    BY <2>1, <2>2, IdsTyped
  <2> QED
    BY <2>1, <2>2, <2>3 DEF Placing, Proposal, Wish, Statuses, Roles
<1>4. Typed(proposals, rates)
  BY <1>1, <1>3 DEF Typed, IsStore
<1> QED
  BY <1>2, <1>4

LEMMA TypeStarts ==
  ASSUME ExchangeInit
  PROVE  TypeInv
<1>1. IsStore(participants, Participants, Participant)
  <2>1. \A p \in Participants : [balance |-> Balance[p], credit |-> Credit[p]] \in Participant
    BY CreditAssumption, BalanceAssumption DEF Participant
  <2> QED
    BY <2>1 DEF ExchangeInit, IsStore
<1>2. Typed(proposals, rates)
  BY StandingTyped
<1>3. view.proposals = proposals /\ view.rates = rates
  BY DEF ExchangeInit
<1>4. ViewOK
  BY <1>2, <1>3 DEF ViewOK
<1>5. DOMAIN requests = {} /\ DOMAIN matches = {} /\ requests = EmptyStore /\ matches = EmptyStore
  BY DEF ExchangeInit, EmptyStore
<1>6. RequestsOK
  <2>1. DOMAIN requests = 1..0 /\ 0 \in Nat
    BY <1>5
  <2>2. RequestStore
    BY <1>5 DEF RequestStore, IsStore, EmptyStore
  <2> QED
    BY <1>5, <2>1, <2>2 DEF RequestsOK
<1>7. MatchesOK
  BY <1>5 DEF MatchesOK, IsStore, EmptyStore
<1>8. SubmitInv /\ SayOK
  BY SubmitInit DEF ExchangeInit, SayOK, InitBatches, NoBatches
<1> QED
  BY <1>1, <1>2, <1>4, <1>6, <1>7, <1>8 DEF TypeInv, LedgerOK

LEMMA TypeKept ==
  ASSUME AnyContent, TypeInv, [ExchangeNext]_allVars
  PROVE  TypeInv'
<1>1. LedgerOK /\ ViewOK /\ RequestsOK /\ MatchesOK
  BY DEF TypeInv
<1>2. LedgerOK'
  BY LedgerKept
<1>3. ViewOK'
  BY <1>1, ViewKept
<1>4. RequestsOK' /\ MatchesOK'
  BY <1>1, StepKept DEF Kept
<1>5. SayOK' /\ SubmitInv'
  BY SayKept
<1> QED
  BY <1>2, <1>3, <1>4, <1>5 DEF TypeInv

LEMMA TypeEnough ==
  ASSUME TypeInv
  PROVE  ExchangeTypeOK
<1>1. IsStore(participants, Participants, Participant)
  BY DEF TypeInv, LedgerOK
<1>2. IsStore(proposals, ProposalIds, Proposal)
  BY DEF TypeInv, LedgerOK, Typed
<1>3. BatchesOK
  BY DEF TypeInv, SubmitInv
<1>4. IsStore(requests, Requests, Request) /\ IsStore(matches, Requests \X ProposalIds, Match)
  BY DEF TypeInv, RequestsOK, RequestStore, MatchesOK
<1> QED
  BY <1>1, <1>2, <1>3, <1>4 DEF ExchangeTypeOK

(* Every object of the server, and every entry of the ledger it causes, is *)
(* well formed: a batch says what its request or its match says, the roles *)
(* of proposals are those in their ids, and what waits for a query has the *)
(* fields that its answer will use.                                        *)
THEOREM ExchangeTyped ==
  ASSUME AnyContent
  PROVE  ExchangeSpec => []ExchangeTypeOK
<1>1. ExchangeInit => TypeInv
  BY TypeStarts
<1>2. TypeInv /\ [ExchangeNext]_allVars => TypeInv'
  BY TypeKept
<1>3. TypeInv => ExchangeTypeOK
  BY TypeEnough
<1> QED
  BY <1>1, <1>2, <1>3, PTL DEF ExchangeSpec

(* Every batch of a request or of a match keeps the promise of Submission: *)
(* an answer that the server is told is committed is in the chain, though  *)
(* it goes on as well if it is told otherwise.                             *)
THEOREM ExchangePromise ==
  ASSUME AnyContent
  PROVE  ExchangeSpec => PromiseKept
<1>1. ExchangeInit => InitBatches /\ TypeInv
  BY TypeStarts DEF ExchangeInit
<1>2. TypeInv /\ [ExchangeNext]_allVars => TypeInv' /\ [BatchStep]_batches
  BY TypeKept, ExchangeBatches
<1>3. ExchangeSpec => SubmitSpec
  BY <1>1, <1>2, PTL DEF ExchangeSpec, SubmitSpec
<1> QED
  BY <1>3, SubmitPromise

-----------------------------------------------------------------------------
(* Every proposal of the ledger is a standing one, or one request's own. *)

\* Proposal ids are made of a prefix and the time in seconds
\* (proposals.js): no two requests of a kind are made in the same second.
\* The server does not see to it; the theorems that need it assume it.
OneClock ==
  /\ \A r, q \in Requests : r # q =>
       \A wish \in Asks[r], other \in Asks[q] : Id(wish) # Id(other)
  /\ \A r \in Requests : \A wish \in Asks[r], other \in Standing : Id(wish) # Id(other)

StandingIds == {Id(w) : w \in Standing}

Known(id) ==
  id \in StandingIds \/ \E r \in DOMAIN requests : id = OwnId(r) /\ Booked(<<r, id, "place">>)

OwnersKnown ==
  /\ \A id \in DOMAIN proposals : Known(id)
  /\ \A r \in DOMAIN requests : OwnId(r) \in DOMAIN proposals =>
       proposals[OwnId(r)].receiver = requests[r].wish.receiver

\* The price, the receiver and the amount of a proposal stay.
Steady == \A id \in DOMAIN proposals :
  /\ id \in DOMAIN proposals' /\ rates'[id] = rates[id]
  /\ proposals'[id].receiver = proposals[id].receiver /\ proposals'[id].amount = proposals[id].amount

LEMMA OwnOnce ==
  ASSUME OneClock, RequestsOK, NEW r \in DOMAIN requests
  PROVE  /\ OwnId(r) \notin StandingIds
         /\ \A q \in DOMAIN requests : OwnId(q) = OwnId(r) => q = r
<1>1. \A q \in DOMAIN requests : q \in Requests /\ requests[q].wish \in Asks[q]
  BY DEF RequestsOK, RequestStore, IsStore
<1> QED
  BY <1>1 DEF OneClock, OwnId, StandingIds

LEMMA OrderFresh ==
  ASSUME OneClock, RequestsOK, OwnersKnown, NEW b, b = <<b[1], b[2], b[3]>>, b[1] \in DOMAIN requests,
         b[2] = OwnId(b[1]), b[3] = "place", ~Booked(b)
  PROVE  b[2] \notin DOMAIN proposals
<1>1. b[2] \notin StandingIds /\ \A q \in DOMAIN requests : OwnId(q) = b[2] => q = b[1]
  BY OwnOnce
<1>2. ~Known(b[2])
  BY <1>1 DEF Known
<1> QED
  BY <1>2 DEF OwnersKnown

\* What a step does to the ledger.
Orders(b) ==
  /\ PutsOrder(b) /\ b[1] \in DOMAIN requests /\ b[2] = OwnId(b[1])
  /\ b[2] \notin DOMAIN proposals /\ DOMAIN proposals' = DOMAIN proposals \cup {b[2]}
  /\ proposals'[b[2]] = Placing(requests[b[1]].wish)
  /\ b = <<b[1], b[2], "place">>

LEMMA LedgerSteps ==
  ASSUME OneClock, TypeInv, OwnersKnown, [ExchangeNext]_allVars
  PROVE  /\ Steady
         /\ \/ UNCHANGED <<ledgerVars, rates>> /\ \A c : Booked(c)' <=> Booked(c)
            \/ \E b \in DOMAIN batches :
                 /\ CommitTxn(b) /\ Says(b, batches[b].txns) /\ Booked(b)' /\ ~Booked(b)
                 /\ \A c : c # b => (Booked(c)' <=> Booked(c))
                 /\ \/ Orders(b)
                    \/ PutsAnswer(b) /\ DOMAIN proposals' = DOMAIN proposals
<1> DEFINE Quiet == UNCHANGED <<ledgerVars, rates>> /\ \A c : Booked(c)' <=> Booked(c)
           Taken(b) == /\ CommitTxn(b) /\ Says(b, batches[b].txns) /\ Booked(b)' /\ ~Booked(b)
                       /\ \A c : c # b => (Booked(c)' <=> Booked(c))
                       /\ \/ Orders(b)
                          \/ PutsAnswer(b) /\ DOMAIN proposals' = DOMAIN proposals
<1>1. LedgerOK /\ RequestsOK /\ MatchesOK /\ SayOK /\ Typed(proposals, rates)
  BY DEF TypeInv, LedgerOK
<1>2. Quiet => Steady
  BY DEF Steady, ledgerVars
<1>3. ASSUME NEW b \in DOMAIN batches, CommitTxn(b), ~Booked(b), Booked(b)',
             \A c : c # b => (Booked(c)' <=> Booked(c))
      PROVE  Steady /\ Taken(b)
  <2>1. Says(b, batches[b].txns)
    BY <1>1 DEF SayOK
  <2>2. PutsOrder(b) \/ PutsAnswer(b)
    BY <1>1, <1>3, <2>1, CommitEffect
  <2>3. CASE PutsOrder(b)
    <3>1. /\ b[1] \in DOMAIN requests /\ b[2] = OwnId(b[1]) /\ b[3] = "place"
          /\ b = <<b[1], b[2], b[3]>>
      BY <2>1, <2>3 DEF Says, PutsOrder
    <3>2. b[2] \notin DOMAIN proposals
      BY <1>1, <1>3, <3>1, OrderFresh
    <3>3. /\ DOMAIN proposals' = DOMAIN proposals \cup {b[2]}
          /\ proposals'[b[2]] = Placing(requests[b[1]].wish)
          /\ \A i \in DOMAIN proposals : i # b[2] => proposals'[i] = proposals[i] /\ rates'[i] = rates[i]
      BY <1>1, <2>3, <3>1, OrderTyped
    <3>4. Orders(b)
      BY <2>3, <3>1, <3>2, <3>3 DEF Orders
    <3>5. Steady
      BY <3>2, <3>3 DEF Steady
    <3> QED
      BY <1>3, <2>1, <3>4, <3>5
  <2>4. CASE PutsAnswer(b)
    <3>1. PICK t : t = batches[b].txns
      OBVIOUS
    <3>2. t.payload \in ReplyPayload /\ Answers(t.signer, t.payload) /\ UNCHANGED rates
      BY <2>1, <2>4, <3>1 DEF Says, PutsAnswer, Reply
    <3>3. /\ DOMAIN proposals' = DOMAIN proposals
          /\ \A i \in DOMAIN proposals :
               /\ proposals'[i].receiver = proposals[i].receiver
               /\ proposals'[i].amount = proposals[i].amount
      BY <1>1, <3>2, AnswerTyped
    <3>4. Steady
      BY <3>2, <3>3 DEF Steady
    <3> QED
      BY <1>3, <2>1, <2>4, <3>3, <3>4
  <2> QED
    BY <2>2, <2>3, <2>4
<1>4. Quiet \/ \E b \in DOMAIN batches :
                 /\ CommitTxn(b) /\ ~Booked(b) /\ Booked(b)'
                 /\ \A c : c # b => (Booked(c)' <=> Booked(c))
  BY BookedStep DEF TypeInv
<1>5. CASE Quiet
  BY <1>2, <1>5
<1>6. ASSUME NEW b \in DOMAIN batches, CommitTxn(b), ~Booked(b), Booked(b)',
             \A c : c # b => (Booked(c)' <=> Booked(c))
      PROVE  Steady /\ \E c \in DOMAIN batches : Taken(c)
  BY <1>3, <1>6
<1> QED
  BY <1>4, <1>5, <1>6

LEMMA OwnOncePrimed ==
  ASSUME OneClock, RequestsOK', NEW r \in DOMAIN requests'
  PROVE  /\ OwnId(r)' \notin StandingIds
         /\ \A q \in DOMAIN requests' : OwnId(q)' = OwnId(r)' => q = r
<1>1. \A q \in DOMAIN requests' : q \in Requests /\ requests'[q].wish \in Asks[q]
  BY DEF RequestsOK, RequestStore, IsStore
<1> QED
  BY <1>1 DEF OneClock, OwnId, StandingIds

LEMMA OwnersStay ==
  ASSUME OneClock, TypeInv, OwnersKnown, [ExchangeNext]_allVars
  PROVE  OwnersKnown'
<1>1. RequestsOK /\ RequestsOK' /\ Grows
  BY StepKept DEF TypeInv, Kept
<1>2. \A r \in DOMAIN requests : r \in DOMAIN requests' /\ OwnId(r)' = OwnId(r)
  BY <1>1 DEF Grows, OwnId
<1>3. /\ Steady
      /\ \/ UNCHANGED <<ledgerVars, rates>> /\ \A c : Booked(c)' <=> Booked(c)
         \/ \E b \in DOMAIN batches :
              /\ CommitTxn(b) /\ Says(b, batches[b].txns) /\ Booked(b)' /\ ~Booked(b)
              /\ \A c : c # b => (Booked(c)' <=> Booked(c))
              /\ \/ Orders(b)
                 \/ PutsAnswer(b) /\ DOMAIN proposals' = DOMAIN proposals
  BY LedgerSteps
<1>4. \A c : Booked(c) => Booked(c)'
  BY <1>3
<1>5. ASSUME NEW id \in DOMAIN proposals PROVE Known(id)'
  BY <1>2, <1>4 DEF OwnersKnown, Known
<1>6. DOMAIN proposals' = DOMAIN proposals \/ \E b \in DOMAIN batches : Booked(b)' /\ Orders(b)
  BY <1>3 DEF ledgerVars
<1>7. ASSUME NEW id \in DOMAIN proposals', id \notin DOMAIN proposals
      PROVE  /\ Known(id)'
             /\ \E q \in DOMAIN requests : id = OwnId(q) /\ proposals'[id].receiver = requests[q].wish.receiver
  <2>1. PICK b \in DOMAIN batches : Booked(b)' /\ Orders(b)
    BY <1>6, <1>7
  <2>2. /\ id = b[2] /\ b[1] \in DOMAIN requests /\ b[2] = OwnId(b[1]) /\ b = <<b[1], b[2], "place">>
        /\ proposals'[id] = Placing(requests[b[1]].wish)
    BY <1>7, <2>1 DEF Orders
  <2>3. PICK q : q = b[1]
    OBVIOUS
  <2>4. q \in DOMAIN requests' /\ OwnId(q)' = id /\ Booked(<<q, id, "place">>)'
    BY <1>2, <2>1, <2>2, <2>3
  <2>5. proposals'[id].receiver = requests[q].wish.receiver
    BY <2>2, <2>3 DEF Placing
  <2> QED
    BY <2>2, <2>3, <2>4, <2>5 DEF Known
<1>8. ASSUME NEW r \in DOMAIN requests', OwnId(r)' \in DOMAIN proposals'
      PROVE  proposals'[OwnId(r)'].receiver = requests'[r].wish.receiver
  <2>1. PICK id : id = OwnId(r)'
    OBVIOUS
  <2>2. CASE id \notin DOMAIN proposals
    <3>1. PICK q \in DOMAIN requests : id = OwnId(q) /\ proposals'[id].receiver = requests[q].wish.receiver
      BY <1>7, <1>8, <2>1, <2>2
    <3>2. q \in DOMAIN requests' /\ OwnId(q)' = OwnId(r)' /\ requests'[q].wish = requests[q].wish
      BY <1>1, <1>2, <2>1, <3>1 DEF Grows
    <3>3. q = r
      BY <1>1, <3>2, OwnOncePrimed
    <3> QED
      BY <2>1, <3>1, <3>2, <3>3
  <2>3. CASE id \in DOMAIN proposals /\ r \in DOMAIN requests
    BY <1>1, <1>2, <1>3, <2>1, <2>3 DEF OwnersKnown, Steady, Grows
  <2>4. CASE id \in DOMAIN proposals /\ r \notin DOMAIN requests
    <3>1. Known(id)'
      BY <1>5, <2>4
    <3>2. id \notin StandingIds /\ \A q \in DOMAIN requests' : OwnId(q)' = id => q = r
      BY <1>1, <1>8, <2>1, OwnOncePrimed
    <3>3. Known(id)
      BY <2>4 DEF OwnersKnown
    <3> QED
      BY <1>2, <2>4, <3>2, <3>3 DEF Known
  <2> QED
    BY <2>2, <2>3, <2>4
<1> QED
  BY <1>5, <1>7, <1>8 DEF OwnersKnown

LEMMA OwnersStart ==
  ASSUME ExchangeInit
  PROVE  OwnersKnown
<1>1. DOMAIN requests = {}
  BY DEF ExchangeInit, EmptyStore
<1>2. \A id \in DOMAIN proposals : id \in StandingIds
  BY StandingTyped DEF StandingIds
<1> QED
  BY <1>1, <1>2 DEF OwnersKnown, Known

-----------------------------------------------------------------------------
(* Prices. *)

Fair(pair) == /\ pair[1] \in DOMAIN proposals /\ pair[2] \in DOMAIN proposals
              /\ rates[pair[1]] >= rates[pair[2]]

\* The database agrees with the ledger about what has been proposed.
Agrees ==
  \A id \in DOMAIN view.proposals :
    /\ id \in DOMAIN proposals /\ view.rates[id] = rates[id]
    /\ view.proposals[id].amount = proposals[id].amount

\* The price that a request has read is that of its proposal.
PriceRead(r) == OwnId(r) \in DOMAIN proposals /\ requests[r].rate = rates[OwnId(r)]

RequestFair(r) ==
  /\ requests[r].balance # Unknown => PriceRead(r)
  /\ \A pair \in requests[r].exchanges : Fair(pair)

MatchFair(m) == PriceRead(m[1]) /\ m[2] \in DOMAIN proposals /\ Fair(Pair(m[1], m[2]))

BatchFair(b) == b[3] # "place" => \A pair \in batches[b].txns.payload.exchanges : Fair(pair)

PricesOK ==
  /\ Agrees
  /\ \A r \in DOMAIN requests : RequestFair(r)
  /\ \A m \in DOMAIN matches : MatchFair(m)
  /\ \A b \in DOMAIN batches : BatchFair(b)
  /\ \A pair \in exchanges : Fair(pair)

LEMMA FairStays ==
  ASSUME Steady, NEW pair, Fair(pair)
  PROVE  Fair(pair)'
BY DEF Steady, Fair

LEMMA PricesStart ==
  ASSUME ExchangeInit
  PROVE  PricesOK
<1>1. DOMAIN requests = {} /\ DOMAIN matches = {} /\ DOMAIN batches = {} /\ exchanges = {}
  BY DEF ExchangeInit, EmptyStore, InitBatches, NoBatches
<1>2. view.proposals = proposals /\ view.rates = rates
  BY DEF ExchangeInit
<1> QED
  BY <1>1, <1>2 DEF PricesOK, Agrees

LEMMA AgreesStays ==
  ASSUME Steady, Agrees, [ExchangeNext]_allVars
  PROVE  Agrees'
<1>1. CASE UNCHANGED view
  BY <1>1 DEF Agrees, Steady
<1>2. CASE SyncProposals
  <2>1. view'.proposals = proposals /\ view'.rates = rates
    BY <1>2 DEF SyncProposals
  <2> QED
    BY <2>1 DEF Agrees, Steady
<1> QED
  BY <1>1, <1>2, ViewSteps

LEMMA RequestFairStays ==
  ASSUME Steady, Grows, NEW r \in DOMAIN requests, RequestFair(r), requests'[r] = requests[r]
  PROVE  RequestFair(r)'
<1>1. OwnId(r)' = OwnId(r)
  BY DEF OwnId
<1>2. PriceRead(r) => PriceRead(r)'
  BY <1>1 DEF PriceRead, Steady
<1> QED
  BY <1>2, FairStays DEF RequestFair

LEMMA MatchFairStays ==
  ASSUME Steady, Grows, NEW m, m[1] \in DOMAIN requests, MatchFair(m),
         requests'[m[1]].rate = requests[m[1]].rate
  PROVE  MatchFair(m)'
<1>1. PICK r, id : r = m[1] /\ id = m[2]
  OBVIOUS
<1>2. /\ r \in DOMAIN requests /\ requests'[r].rate = requests[r].rate
      /\ PriceRead(r) /\ id \in DOMAIN proposals /\ Fair(Pair(r, id))
  BY <1>1 DEF MatchFair
<1>3. requests'[r].wish = requests[r].wish
  BY <1>2 DEF Grows
<1>4. OwnId(r)' = OwnId(r) /\ Pair(r, id)' = Pair(r, id)
  BY <1>3 DEF OwnId, Pair
<1>5. PriceRead(r)'
  BY <1>2, <1>4 DEF PriceRead, Steady
<1>6. id \in DOMAIN proposals'
  BY <1>2 DEF Steady
<1>7. PICK pair : pair = Pair(r, id)
  OBVIOUS
<1>8. Fair(pair)'
  BY <1>2, <1>7, FairStays
<1>9. Fair(Pair(r, id))'
  BY <1>4, <1>7, <1>8
<1> QED
  BY <1>1, <1>5, <1>6, <1>9 DEF MatchFair

LEMMA BecomesFair ==
  ASSUME Steady, Grows, MatchesOK, PricesOK, NEW r, NEW placed, NEW unread, NEW rate, NEW balance,
         NEW amount, NEW pairs, Becomes(r, placed, unread, rate, balance, amount, pairs),
         (\A m \in DOMAIN matches : m[1] # r) \/ rate = requests[r].rate,
         balance # Unknown => OwnId(r) \in DOMAIN proposals /\ rate = rates[OwnId(r)],
         \A pair \in pairs : Fair(pair)
  PROVE  /\ \A q \in DOMAIN requests' : RequestFair(q)'
         /\ \A m \in DOMAIN matches : MatchFair(m)'
<1>1. /\ r \in DOMAIN requests /\ DOMAIN requests' = DOMAIN requests
      /\ \A q \in DOMAIN requests : q # r => requests'[q] = requests[q]
      /\ requests'[r].wish = requests[r].wish
      /\ requests'[r].rate = rate /\ requests'[r].balance = balance
      /\ requests'[r].exchanges = pairs
  BY DEF Becomes
<1>2. OwnId(r)' = OwnId(r)
  BY <1>1 DEF OwnId
<1>3. RequestFair(r)'
  <2>1. balance # Unknown => PriceRead(r)'
    BY <1>1, <1>2 DEF PriceRead, Steady
  <2>2. \A pair \in pairs : Fair(pair)'
    BY FairStays
  <2> QED
    BY <1>1, <2>1, <2>2 DEF RequestFair
<1>4. ASSUME NEW q \in DOMAIN requests, q # r PROVE RequestFair(q)'
  BY <1>1, <1>4, RequestFairStays DEF PricesOK
<1>5. ASSUME NEW m \in DOMAIN matches PROVE MatchFair(m)'
  <2>1. m[1] \in DOMAIN requests /\ MatchFair(m)
    BY DEF MatchesOK, PricesOK
  <2>2. requests'[m[1]].rate = requests[m[1]].rate
    BY <1>1, <2>1
  <2> QED
    BY <2>1, <2>2, MatchFairStays
<1> QED
  BY <1>1, <1>3, <1>4, <1>5

FairThen == (\A r \in DOMAIN requests' : RequestFair(r)') /\ (\A m \in DOMAIN matches' : MatchFair(m)')

LEMMA UntouchedFair ==
  ASSUME Steady, Grows, MatchesOK, PricesOK, UNCHANGED requests, DOMAIN matches' = DOMAIN matches
  PROVE  FairThen
<1>1. \A r \in DOMAIN requests' : RequestFair(r)'
  BY RequestFairStays DEF PricesOK
<1>2. \A m \in DOMAIN matches : MatchFair(m)'
  BY MatchFairStays DEF PricesOK, MatchesOK
<1> QED
  BY <1>1, <1>2 DEF FairThen

LEMMA PlaceFair ==
  ASSUME Steady, Grows, RequestsOK, MatchesOK, PricesOK, NEW r \in Requests, Place(r)
  PROVE  FairThen
<1>1. r \notin DOMAIN requests
  BY PlaceKeeps
<1>2. PICK wish : requests' = Put(requests, r,
        [wish |-> wish, placed |-> FALSE, unread |-> {}, rate |-> Unknown,
         balance |-> Unknown, amount |-> wish.amount, exchanges |-> {}])
  BY DEF Place
<1> DEFINE new == [wish |-> wish, placed |-> FALSE, unread |-> {}, rate |-> Unknown,
                   balance |-> Unknown, amount |-> wish.amount, exchanges |-> {}]
<1>3. new.balance = Unknown /\ new.exchanges = {} /\ requests' = Put(requests, r, new)
  BY <1>2
<1> HIDE DEF new
<1>4. /\ DOMAIN requests' = DOMAIN requests \cup {r} /\ requests'[r] = new
      /\ \A q \in DOMAIN requests : requests'[q] = requests[q]
  BY <1>1, <1>3 DEF Put
<1>5. RequestFair(r)'
  BY <1>3, <1>4 DEF RequestFair
<1>6. \A q \in DOMAIN requests : RequestFair(q)'
  BY <1>4, RequestFairStays DEF PricesOK
<1>7. \A m \in DOMAIN matches : MatchFair(m)'
  BY <1>4, MatchFairStays DEF PricesOK, MatchesOK
<1>8. UNCHANGED matches
  BY DEF Place
<1> QED
  BY <1>4, <1>5, <1>6, <1>7, <1>8 DEF FairThen

LEMMA AskFair ==
  ASSUME Steady, Grows, RequestsOK, MatchesOK, PricesOK, NEW r,
         Placed(r) \/ ApplyCredit(r) \/ TransferCoins(r)
  PROVE  FairThen
<1> DEFINE own == requests[r]
<1>1. r \in DOMAIN requests
  BY DEF Placed, ApplyCredit, TransferCoins, Reads
<1>2. /\ UNCHANGED matches
      /\ \E placed, unread : Becomes(r, placed, unread, own.rate, own.balance, own.amount, own.exchanges)
  BY <1>1, PlacedEffect, AcceptEffect DEF RequestsOK, ApplyCredit, TransferCoins
<1>3. PICK placed, unread, rate, balance, amount, pairs :
        /\ Becomes(r, placed, unread, rate, balance, amount, pairs)
        /\ rate = own.rate /\ balance = own.balance /\ pairs = own.exchanges
  BY <1>2
<1>4. /\ balance # Unknown => OwnId(r) \in DOMAIN proposals /\ rate = rates[OwnId(r)]
      /\ \A pair \in pairs : Fair(pair)
  BY <1>1, <1>3 DEF PricesOK, RequestFair, PriceRead
<1> QED
  BY <1>2, <1>3, <1>4, BecomesFair DEF FairThen

LEMMA ReadOwnFair ==
  ASSUME Steady, Grows, RequestsOK, MatchesOK, PricesOK, NEW r, ReadOwn(r)
  PROVE  FairThen
<1> DEFINE own == requests[r]
           found == OwnId(r) \in DOMAIN view.proposals
<1>1. r \in DOMAIN requests /\ "own" \in own.unread /\ UNCHANGED matches
  BY DEF ReadOwn, Reads
<1>2. PICK placed, unread, rate, balance, amount, pairs :
        /\ Becomes(r, placed, unread, rate, balance, amount, pairs)
        /\ rate = IF found THEN view.rates[OwnId(r)] ELSE own.rate
        /\ balance = IF found THEN Left(view.proposals[OwnId(r)]) ELSE own.balance
        /\ pairs = own.exchanges
  BY ReadOwnEffect DEF RequestsOK
<1>3. balance # Unknown => OwnId(r) \in DOMAIN proposals /\ rate = rates[OwnId(r)]
  <2>1. CASE found
    BY <1>2, <2>1 DEF PricesOK, Agrees
  <2>2. CASE ~found
    BY <1>1, <1>2, <2>2 DEF PricesOK, RequestFair, PriceRead
  <2> QED
    BY <2>1, <2>2
<1>4. \A pair \in pairs : Fair(pair)
  BY <1>1, <1>2 DEF PricesOK, RequestFair
<1>5. \A m \in DOMAIN matches : m[1] # r
  BY <1>1 DEF MatchesOK
<1> QED
  BY <1>1, <1>2, <1>3, <1>4, <1>5, BecomesFair DEF FairThen

LEMMA ReadOpenFair ==
  ASSUME Steady, Grows, ViewOK, RequestsOK, MatchesOK, PricesOK, NEW r, ReadOpen(r)
  PROVE  FairThen
<1> DEFINE own == requests[r]
           found == {id \in Counterparts(own.wish.kind) : PricesMeet(r, id)}
<1>1. r \in DOMAIN requests /\ "open" \in own.unread
  BY DEF ReadOpen, Reads
<1>2. PICK placed, unread, rate, balance, amount, pairs :
        /\ Becomes(r, placed, unread, rate, balance, amount, pairs)
        /\ rate = own.rate /\ balance = own.balance /\ pairs = own.exchanges
  BY ReadOpenEffect DEF RequestsOK
<1>3. DOMAIN matches' = DOMAIN matches \cup ({r} \X found)
  BY ReadOpenEffect DEF RequestsOK
<1>4. /\ balance # Unknown => OwnId(r) \in DOMAIN proposals /\ rate = rates[OwnId(r)]
      /\ \A pair \in pairs : Fair(pair)
  BY <1>1, <1>2 DEF PricesOK, RequestFair, PriceRead
<1>5. /\ \A q \in DOMAIN requests' : RequestFair(q)'
      /\ \A m \in DOMAIN matches : MatchFair(m)'
  BY <1>2, <1>4, BecomesFair
<1>6. ASSUME NEW id \in found PROVE MatchFair(<<r, id>>)
  <2>1. /\ id \in DOMAIN view.proposals /\ PricesMeet(r, id)
        /\ {own.wish.kind, view.proposals[id].role} = {"buyDGC", "sellDGC"}
    BY DEF Counterparts
  <2>2. id \in DOMAIN proposals /\ view.rates[id] = rates[id]
    BY <2>1 DEF PricesOK, Agrees
  <2>3. PriceRead(r)
    BY <1>1, <2>1 DEF PricesMeet, PricesOK, RequestFair
  <2>4. OwnId(r) \in DOMAIN proposals /\ own.rate = rates[OwnId(r)]
    BY <2>3 DEF PriceRead
  <2>5. Fair(Pair(r, id))
    <3>1. CASE own.wish.kind = "buyDGC"
      BY <2>1, <2>2, <2>4, <3>1 DEF Fair, Pair, PricesMeet
    <3>2. CASE own.wish.kind # "buyDGC"
      BY <2>1, <2>2, <2>4, <3>2 DEF Fair, Pair, PricesMeet
    <3> QED
      BY <3>1, <3>2
  <2> QED
    BY <2>2, <2>3, <2>5 DEF MatchFair
<1>7. requests'[r].rate = own.rate
  BY <1>2 DEF Becomes
<1> HIDE DEF found
<1>8. ASSUME NEW id \in found PROVE MatchFair(<<r, id>>)'
  BY <1>1, <1>6, <1>7, MatchFairStays
<1>9. \A m \in {r} \X found : MatchFair(m)'
  BY <1>8
<1> QED
  BY <1>3, <1>5, <1>9 DEF FairThen

LEMMA OlderOverFair ==
  ASSUME Steady, Grows, RequestsOK, MatchesOK, PricesOK, NEW m, OlderOver(m)
  PROVE  FairThen
<1>1. m \in DOMAIN matches /\ m[1] \in DOMAIN requests
  BY DEF OlderOver, In, MatchesOK
<1>2. DOMAIN matches' = DOMAIN matches
  BY DEF OlderOver, Move
<1>3. PICK r, own : r = m[1] /\ own = requests[r]
  OBVIOUS
<1>4. PICK pairs : pairs = IF matches[m].older = "autoOPEN" THEN {Pair(m[1], m[2])} ELSE own.exchanges
  OBVIOUS
<1>5. \E placed, unread, balance, amount :
        \/ Becomes(r, placed, unread, own.rate, balance, amount, own.exchanges)
        \/ Becomes(r, placed, unread, own.rate, balance, amount, pairs)
  BY <1>1, <1>3, <1>4, OlderOverEffect DEF RequestsOK
<1>6. MatchFair(m) /\ RequestFair(r)
  BY <1>1, <1>3 DEF PricesOK
<1>7. (\A pair \in pairs : Fair(pair)) /\ (\A pair \in own.exchanges : Fair(pair))
  BY <1>3, <1>4, <1>6 DEF MatchFair, RequestFair
<1>8. OwnId(r) \in DOMAIN proposals /\ own.rate = rates[OwnId(r)]
  BY <1>3, <1>6 DEF MatchFair, PriceRead
<1>9. PICK placed, unread, rate, balance, amount, some :
        /\ Becomes(r, placed, unread, rate, balance, amount, some)
        /\ rate = own.rate /\ \A pair \in some : Fair(pair)
  BY <1>5, <1>7
<1>10. rate = requests[r].rate
  BY <1>3, <1>9
<1> QED
  BY <1>2, <1>8, <1>9, <1>10, BecomesFair DEF FairThen

LEMMA StepFair ==
  ASSUME Steady, TypeInv, PricesOK, [ExchangeNext]_allVars
  PROVE  FairThen
<1>1. ViewOK /\ RequestsOK /\ MatchesOK /\ Grows
  BY StepKept DEF TypeInv, Kept
<1>2. UNCHANGED <<requests, matches>> => FairThen
  BY <1>1, UntouchedFair
<1>3. \A m : SendOlder(m) \/ SendNewer(m) => FairThen
  <2> SUFFICES ASSUME NEW m, SendOlder(m) \/ SendNewer(m) PROVE FairThen
    OBVIOUS
  <2>1. UNCHANGED requests /\ DOMAIN matches' = DOMAIN matches
    BY DEF SendOlder, SendNewer, Move
  <2> QED
    BY <1>1, <2>1, UntouchedFair
<1>4. CASE Sends
  BY <1>1, <1>3, <1>4, PlaceFair, AskFair DEF Sends
<1>5. CASE Works
  BY <1>1, <1>2, <1>5, AskFair, ReadOwnFair, ReadOpenFair, OlderOverFair
     DEF Works, SyncProposals, allVars
<1>6. ASSUME NEW b, Carry(b) \/ CommitTxn(b) \/ InvalidateTxn(b) PROVE FairThen
  BY <1>2, <1>6 DEF Carry, CommitTxn, InvalidateTxn
<1> QED
  BY <1>4, <1>5, <1>6, ExchangeSteps

\* A batch that is there already, or one that a request sends.
LEMMA NewBatches ==
  ASSUME TypeInv, [ExchangeNext]_allVars
  PROVE  \A c \in DOMAIN batches' :
           \/ c \in DOMAIN batches /\ batches'[c].txns = batches[c].txns
           \/ \E t : t = batches'[c].txns /\ Sent(c, t)
<1>1. ViewOK /\ RequestsOK /\ MatchesOK /\ SubmitInv
  BY DEF TypeInv
<1>2. \A c \in DOMAIN batches : batches'[c].txns = batches[c].txns
  BY <1>1, BookedStep
<1>3. CASE DOMAIN batches' = DOMAIN batches
  BY <1>2, <1>3
<1>4. ASSUME NEW c, NEW t, Sent(c, t)
      PROVE  \A d \in DOMAIN batches' : d \in DOMAIN batches \/ (d = c /\ batches'[d].txns = t)
  BY <1>4, SentBatch DEF Sent
<1>5. CASE Sends
  BY <1>1, <1>2, <1>3, <1>4, <1>5, SendsSay
<1>6. CASE Works
  BY <1>3, <1>6, WorksAlone
<1>7. ASSUME NEW b \in DOMAIN batches, Carry(b) \/ CommitTxn(b) \/ InvalidateTxn(b)
      PROVE  DOMAIN batches' = DOMAIN batches
  BY <1>1, <1>7, TransactionsStay DEF Carry, CommitTxn, InvalidateTxn
<1> QED
  BY <1>3, <1>5, <1>6, <1>7, ExchangeSteps

LEMMA BatchesFair ==
  ASSUME Steady, TypeInv, PricesOK, [ExchangeNext]_allVars
  PROVE  \A c \in DOMAIN batches' : BatchFair(c)'
<1> SUFFICES ASSUME NEW c \in DOMAIN batches', c[3] # "place",
                    NEW pair \in batches'[c].txns.payload.exchanges
             PROVE  Fair(pair)'
  BY DEF BatchFair
<1>1. CASE c \in DOMAIN batches /\ batches'[c].txns = batches[c].txns
  BY <1>1, FairStays DEF PricesOK, BatchFair
<1>2. CASE \E t : t = batches'[c].txns /\ Sent(c, t)
  <2>1. PICK t : t = batches'[c].txns /\ Sent(c, t)
    BY <1>2
  <2>2. Says(c, t)' /\ pair \in t.payload.exchanges /\ Sent(c, t)
    BY <2>1 DEF Sent
  <2>3. c[3] \in {"older", "newer"} \/ (c[3] = "answer" /\ t.payload.exchanges = {})
    BY <2>2 DEF Says, AcceptSays
  <2>4. c[3] \in {"older", "newer"}
    BY <2>2, <2>3
  <2>5. PICK m : m = <<c[1], c[2]>>
    OBVIOUS
  <2>6. m \in DOMAIN matches /\ m[1] = c[1] /\ m[2] = c[2] /\ c[1] \in DOMAIN requests
    BY <2>2, <2>4, <2>5 DEF Sent
  <2>7. MatchFair(m) /\ RequestFair(c[1])
    BY <2>6 DEF PricesOK
  <2>8. Fair(pair)
    BY <2>2, <2>4, <2>6, <2>7 DEF Sent, MatchFair, RequestFair
  <2> QED
    BY <2>8, FairStays
<1> QED
  BY <1>1, <1>2, NewBatches

LEMMA PricesStep ==
  ASSUME OneClock, TypeInv, OwnersKnown, PricesOK, [ExchangeNext]_allVars
  PROVE  PricesOK'
<1>1. /\ Steady
      /\ \/ UNCHANGED exchanges
         \/ \E b \in DOMAIN batches : PutsOrder(b) \/ PutsAnswer(b)
  BY LedgerSteps DEF Orders, ledgerVars
<1>2. Agrees'
  BY <1>1, AgreesStays DEF PricesOK
<1>3. FairThen
  BY <1>1, StepFair
<1>4. \A c \in DOMAIN batches' : BatchFair(c)'
  BY <1>1, BatchesFair
<1>5. \/ UNCHANGED exchanges
      \/ \E b \in DOMAIN batches :
           b[3] # "place" /\ exchanges' = exchanges \cup batches[b].txns.payload.exchanges
  BY <1>1 DEF PutsOrder, PutsAnswer, Answers
<1>6. \A pair \in exchanges' : Fair(pair)
  BY <1>5 DEF PricesOK, BatchFair
<1>7. \A pair \in exchanges' : Fair(pair)'
  BY <1>1, <1>6, FairStays
<1> QED
  BY <1>2, <1>3, <1>4, <1>7 DEF PricesOK, FairThen

(* No exchange is recorded between a buyer and a seller whose prices do    *)
(* not meet, however stale the server's copy of the proposals: while ids   *)
(* do not collide the price of a proposal never changes, and a pair of     *)
(* proposals goes from the match that compared them through the request's  *)
(* object, which other matches write too, and the answer to the ledger.    *)
THEOREM PricesMeetAlways ==
  ASSUME AnyContent, OneClock
  PROVE  ExchangeSpec => []FairPrices
<1> DEFINE Inv == TypeInv /\ OwnersKnown /\ PricesOK
<1>1. ExchangeInit => Inv
  BY TypeStarts, OwnersStart, PricesStart
<1>2. Inv /\ [ExchangeNext]_allVars => Inv'
  BY TypeKept, OwnersStay, PricesStep
<1>3. Inv => FairPrices
  BY DEF PricesOK, Fair, FairPrices
<1> HIDE DEF Inv
<1> QED
  BY <1>1, <1>2, <1>3, PTL DEF ExchangeSpec

-----------------------------------------------------------------------------
(* Orders that one match is about. *)

\* An order that no two matches compete for.
Alone(id) == \A m, n \in MatchesOf(id) : m = n

\* The batch in which match m answers proposal id.
AnswerOf(m, id) == Batch(m, IF id = m[2] THEN "older" ELSE "newer")

Unanswered(id) ==
  /\ proposals[id].exchanged = 0 /\ proposals[id].status # "CLOSED"
  /\ \A m \in MatchesOf(id) : ~Booked(AnswerOf(m, id))

AnsweredOnce(id) == \E m \in MatchesOf(id) : LET b == AnswerOf(m, id) IN
  /\ Booked(b) /\ proposals[id].exchanged = batches[b].txns.payload.amount
  /\ (proposals[id].status = "CLOSED") <=> (batches[b].txns.payload.response = "autoCLOSE")

AnswersOK == \A id \in DOMAIN proposals : Alone(id) => Unanswered(id) \/ AnsweredOnce(id)

\* What the server reads of an order before any match of it.
ViewLone == \A id \in DOMAIN view.proposals : MatchesOf(id) = {} => view.proposals[id].exchanged = 0

BalancesOK == \A r \in DOMAIN requests :
  requests[r].balance # Unknown /\ MatchesOf(OwnId(r)) = {} => requests[r].balance = AmountOf(OwnId(r))

\* What the second answer of a match is to pay.
Pays(m) == IF matches[m].newer = "autoOPEN" THEN matches[m].amount ELSE AmountOf(OwnId(m[1]))

FromOlder(m) == Alone(m[2]) => matches[m].amount <= AmountOf(m[2])

FromOwn(m) == Alone(OwnId(m[1])) =>
  /\ matches[m].amount <= AmountOf(OwnId(m[1]))
  /\ matches[m].stage \in {"matched", "older"} => requests[m[1]].balance = AmountOf(OwnId(m[1]))
  /\ matches[m].stage = "set" => requests[m[1]].amount = Pays(m)
  /\ Batch(m, "newer") \in DOMAIN batches =>
       batches[Batch(m, "newer")].txns.payload.amount = Pays(m)

FromBoth(m) == Alone(OwnId(m[1])) /\ Alone(m[2]) =>
  LET own == AmountOf(OwnId(m[1]))
      other == AmountOf(m[2])
  IN  /\ matches[m].amount = IF own > other THEN other ELSE own
      /\ matches[m].older = "autoOPEN" <=> own < other
      /\ matches[m].newer = "autoOPEN" <=> own > other

AmountsOK == \A m \in DOMAIN matches : FromOlder(m) /\ FromOwn(m) /\ FromBoth(m)

LoneInv == AnswersOK /\ ViewLone /\ BalancesOK /\ AmountsOK

RaceInv == TypeInv /\ OwnersKnown /\ PricesOK /\ LoneInv

-----------------------------------------------------------------------------
LEMMA RaceParts ==
  ASSUME RaceInv
  PROVE  /\ LedgerOK /\ ViewOK /\ RequestsOK /\ MatchesOK /\ SayOK /\ SubmitInv
         /\ TypeInv /\ OwnersKnown /\ PricesOK
         /\ AnswersOK /\ ViewLone /\ BalancesOK /\ AmountsOK
BY DEF RaceInv, TypeInv, LoneInv

LEMMA RaceStep ==
  ASSUME AnyContent, OneClock, RaceInv, [ExchangeNext]_allVars
  PROVE  Kept /\ Grows /\ Steady /\ RequestsOK' /\ MatchesOK' /\ PricesOK' /\ OwnersKnown' /\ TypeInv'
<1>1. Kept /\ Grows /\ RequestsOK' /\ MatchesOK'
  BY RaceParts, StepKept DEF Kept
<1>2. Steady
  BY RaceParts, LedgerSteps
<1> QED
  BY <1>1, <1>2, RaceParts, TypeKept, OwnersStay, PricesStep

LEMMA MatchKnown ==
  ASSUME MatchesOK, PricesOK, NEW m \in DOMAIN matches
  PROVE  /\ m[1] \in DOMAIN requests /\ m[2] \in DOMAIN proposals
         /\ OwnId(m[1]) \in DOMAIN proposals /\ OwnId(m[1]) # m[2]
         /\ m \in MatchesOf(m[2]) /\ m \in MatchesOf(OwnId(m[1]))
<1>1. m[1] \in DOMAIN requests /\ {OwnId(m[1])[1], m[2][1]} = {"buyDGC", "sellDGC"}
  BY DEF MatchesOK
<1>2. OwnId(m[1]) # m[2]
  <2>1. CASE OwnId(m[1])[1] = m[2][1]
    BY <1>1, <2>1
  <2>2. CASE OwnId(m[1])[1] # m[2][1]
    BY <2>2
  <2> QED
    BY <2>1, <2>2
<1>3. m[2] \in DOMAIN proposals /\ OwnId(m[1]) \in DOMAIN proposals
  BY DEF PricesOK, MatchFair, PriceRead
<1>4. m \in MatchesOf(m[2]) /\ m \in MatchesOf(OwnId(m[1]))
  BY DEF MatchesOf
<1> QED
  BY <1>1, <1>2, <1>3, <1>4

\* The matches of an order stay.
LEMMA MatchesStay ==
  ASSUME MatchesOK, Grows, NEW id
  PROVE  /\ MatchesOf(id) \subseteq MatchesOf(id)'
         /\ \A m \in MatchesOf(id)' : m \in DOMAIN matches => m \in MatchesOf(id)
         /\ Alone(id)' => Alone(id)
         /\ DOMAIN matches' = DOMAIN matches => MatchesOf(id)' = MatchesOf(id)
<1>1. \A m \in DOMAIN matches :
        /\ m[1] \in DOMAIN requests /\ requests'[m[1]].wish = requests[m[1]].wish
        /\ m \in DOMAIN matches'
  BY DEF Grows, MatchesOK
<1>2. \A m \in DOMAIN matches : OwnId(m[1])' = OwnId(m[1])
  BY <1>1 DEF OwnId
<1>3. /\ MatchesOf(id) \subseteq MatchesOf(id)'
      /\ \A m \in MatchesOf(id)' : m \in DOMAIN matches => m \in MatchesOf(id)
      /\ \A m \in MatchesOf(id)' : m \in DOMAIN matches'
  BY <1>1, <1>2 DEF MatchesOf
<1>4. Alone(id)' => Alone(id)
  BY <1>3 DEF Alone
<1> QED
  BY <1>3, <1>4

\* A batch of a match is there only if the match is.
LEMMA MatchOfBatch ==
  ASSUME SayOK, NEW m, m = <<m[1], m[2]>>, NEW part \in {"older", "newer"},
         Batch(m, part) \in DOMAIN batches
  PROVE  m \in DOMAIN matches
BY DEF SayOK, Says, Batch

\* What is booked stays booked, with what it says.
LEMMA BookedStays ==
  ASSUME TypeInv, [ExchangeNext]_allVars, NEW c, Booked(c)
  PROVE  Booked(c)' /\ batches'[c].txns = batches[c].txns
BY BookedStep DEF TypeInv, Booked

-----------------------------------------------------------------------------
(* The steps of a match. *)

Held(r) == requests'[r].balance = requests[r].balance /\ requests'[r].amount = requests[r].amount

LEMMA RequestSteps ==
  ASSUME TypeInv, [ExchangeNext]_allVars, NEW r \in DOMAIN requests
  PROVE  Held(r) \/ ReadOwn(r) \/ \E m \in DOMAIN matches : m[1] = r /\ OlderOver(m)
<1>1. RequestsOK /\ MatchesOK /\ RequestStore
  BY DEF TypeInv, RequestsOK
<1>2. UNCHANGED requests => Held(r)
  BY DEF Held
<1>3. \A q, placed, unread, rate, pairs :
        Becomes(q, placed, unread, rate, requests[q].balance, requests[q].amount, pairs) => Held(r)
  BY DEF Becomes, Held
<1>4. \A q, placed, unread, rate, balance, amount, pairs :
        q # r /\ Becomes(q, placed, unread, rate, balance, amount, pairs) => Held(r)
  BY DEF Becomes, Held
<1>5. ASSUME NEW q \in Requests, Place(q) PROVE Held(r)
  <2>1. q \notin DOMAIN requests
    BY <1>1, <1>5, PlaceKeeps
  <2>2. PICK new : requests' = Put(requests, q, new)
    BY <1>5 DEF Place
  <2>3. requests'[r] = requests[r]
    BY <2>1, <2>2 DEF Put
  <2> QED
    BY <2>3 DEF Held
<1>6. ASSUME NEW q, Placed(q) \/ ApplyCredit(q) \/ TransferCoins(q) \/ ReadOpen(q) PROVE Held(r)
  <2>1. q \in DOMAIN requests
    BY <1>6 DEF Placed, ApplyCredit, TransferCoins, ReadOpen, Reads
  <2>2. \E placed, unread, rate, pairs :
          Becomes(q, placed, unread, rate, requests[q].balance, requests[q].amount, pairs)
    BY <1>1, <1>6, <2>1, PlacedEffect, AcceptEffect, ReadOpenEffect DEF ApplyCredit, TransferCoins
  <2> QED
    BY <1>3, <2>2
<1>7. ASSUME NEW q, ReadOwn(q), q # r PROVE Held(r)
  <2>1. \E placed, unread, rate, balance, amount, pairs :
          Becomes(q, placed, unread, rate, balance, amount, pairs)
    BY <1>1, <1>7, ReadOwnEffect
  <2> QED
    BY <1>4, <1>7, <2>1
<1>8. ASSUME NEW m, OlderOver(m), m[1] # r PROVE Held(r)
  <2>1. m[1] \in DOMAIN requests
    BY <1>1, <1>8 DEF OlderOver, In, MatchesOK
  <2>2. PICK q : q = m[1]
    OBVIOUS
  <2>3. \E placed, unread, rate, balance, amount, pairs :
          Becomes(q, placed, unread, rate, balance, amount, pairs)
    BY <1>1, <1>8, <2>1, <2>2, OlderOverEffect
  <2> QED
    BY <1>4, <1>8, <2>2, <2>3
<1>9. \A m : OlderOver(m) => m \in DOMAIN matches
  BY DEF OlderOver, In
<1>10. CASE Sends
  <2>1. \A m : SendOlder(m) \/ SendNewer(m) => UNCHANGED requests
    BY DEF SendOlder, SendNewer
  <2> QED
    BY <1>2, <1>5, <1>6, <1>10, <2>1 DEF Sends
<1>11. CASE Works
  <2>1. SyncProposals \/ UNCHANGED allVars => UNCHANGED requests
    BY DEF SyncProposals, allVars
  <2> QED
    BY <1>2, <1>6, <1>7, <1>8, <1>9, <1>11, <2>1 DEF Works
<1>12. ASSUME NEW b, Carry(b) \/ CommitTxn(b) \/ InvalidateTxn(b) PROVE Held(r)
  BY <1>2, <1>12 DEF Carry, CommitTxn, InvalidateTxn
<1> QED
  BY <1>10, <1>11, <1>12, ExchangeSteps

LEMMA StageSteps ==
  ASSUME TypeInv, [ExchangeNext]_allVars, NEW m \in DOMAIN matches
  PROVE  \/ OlderOver(m)
         \/ matches'[m].stage = matches[m].stage
         \/ matches[m].stage = "matched" /\ matches'[m].stage = "older"
         \/ matches[m].stage = "set" /\ matches'[m].stage = "sent"
<1>1. RequestsOK /\ MatchesOK /\ RequestStore
  BY DEF TypeInv, RequestsOK
<1>2. UNCHANGED matches \/ matches'[m] = matches[m] => matches'[m].stage = matches[m].stage
  OBVIOUS
<1>3. ASSUME NEW n, NEW stage, Moves(n, stage), n # m PROVE matches'[m] = matches[m]
  BY <1>3 DEF Moves
<1>4. ASSUME NEW n, NEW stage, In(n, stage), NEW next, Move(n, next)
      PROVE  Moves(n, next) /\ n \in DOMAIN matches /\ matches[n].stage = stage /\ matches'[n].stage = next
  <2>1. n \in DOMAIN matches /\ matches[n].stage = stage
    BY <1>4 DEF In
  <2>2. Moves(n, next)
    BY <1>1, <1>4, <2>1, MoveEffect DEF MatchesOK
  <2> QED
    BY <2>1, <2>2 DEF Moves
<1>5. ASSUME NEW n, SendOlder(n)
      PROVE  \/ matches'[m].stage = matches[m].stage
             \/ matches[m].stage = "matched" /\ matches'[m].stage = "older"
  BY <1>3, <1>4, <1>5 DEF SendOlder
<1>6. ASSUME NEW n, SendNewer(n)
      PROVE  \/ matches'[m].stage = matches[m].stage
             \/ matches[m].stage = "set" /\ matches'[m].stage = "sent"
  BY <1>3, <1>4, <1>6 DEF SendNewer
<1>7. ASSUME NEW n, OlderOver(n), n # m PROVE matches'[m].stage = matches[m].stage
  BY <1>3, <1>4, <1>7 DEF OlderOver
<1>8. ASSUME NEW r, ReadOpen(r) PROVE matches'[m].stage = matches[m].stage
  <2>1. "open" \in requests[r].unread /\ r \in DOMAIN requests
    BY <1>8 DEF ReadOpen, Reads
  <2>2. m[1] # r
    BY <1>1, <2>1 DEF MatchesOK
  <2>3. PICK found : \A n \in DOMAIN matches : n \notin {r} \X found => matches'[n] = matches[n]
    BY <1>1, <1>8, ReadOpenEffect
  <2> QED
    BY <2>2, <2>3
<1>9. CASE Sends
  <2>1. \A r : Place(r) \/ ApplyCredit(r) \/ TransferCoins(r) => UNCHANGED matches
    BY DEF Place, ApplyCredit, TransferCoins, AcceptFor
  <2> QED
    BY <1>2, <1>5, <1>6, <1>9, <2>1 DEF Sends
<1>10. CASE Works
  <2>1. \A r : Placed(r) \/ ReadOwn(r) => UNCHANGED matches
    BY DEF Placed, ReadOwn
  <2>2. SyncProposals \/ UNCHANGED allVars => UNCHANGED matches
    BY DEF SyncProposals, allVars
  <2> QED
    BY <1>2, <1>7, <1>8, <1>10, <2>1, <2>2 DEF Works
<1>11. ASSUME NEW b, Carry(b) \/ CommitTxn(b) \/ InvalidateTxn(b) PROVE UNCHANGED matches
  BY <1>11 DEF Carry, CommitTxn, InvalidateTxn
<1> QED
  BY <1>2, <1>9, <1>10, <1>11, ExchangeSteps

LEMMA NewRequest ==
  ASSUME TypeInv, [ExchangeNext]_allVars, NEW r \in DOMAIN requests', r \notin DOMAIN requests
  PROVE  \E q \in Requests : Place(q)
<1>1. RequestsOK /\ MatchesOK /\ RequestStore
  BY DEF TypeInv, RequestsOK
<1>2. UNCHANGED requests \/ DOMAIN requests' = DOMAIN requests => FALSE
  OBVIOUS
<1>3. \A q : Placed(q) \/ ApplyCredit(q) \/ TransferCoins(q) \/ ReadOwn(q) \/ ReadOpen(q) =>
        DOMAIN requests' = DOMAIN requests
  BY DEF Placed, ApplyCredit, TransferCoins, AcceptFor, ReadOwn, ReadOpen
<1>4. \A m : SendOlder(m) \/ SendNewer(m) \/ OlderOver(m) => DOMAIN requests' = DOMAIN requests
  BY DEF SendOlder, SendNewer, OlderOver
<1>5. SyncProposals \/ UNCHANGED allVars => DOMAIN requests' = DOMAIN requests
  BY DEF SyncProposals, allVars
<1>6. \A b : Carry(b) \/ CommitTxn(b) \/ InvalidateTxn(b) => DOMAIN requests' = DOMAIN requests
  BY DEF Carry, CommitTxn, InvalidateTxn
<1> QED
  BY <1>2, <1>3, <1>4, <1>5, <1>6, ExchangeSteps DEF Sends, Works

\* A new match comes from reading the open orders.
LEMMA NewMatch ==
  ASSUME TypeInv, [ExchangeNext]_allVars, NEW m \in DOMAIN matches', m \notin DOMAIN matches
  PROVE  /\ ReadOpen(m[1]) /\ m = <<m[1], m[2]>> /\ m[1] \in DOMAIN requests
         /\ m[2] \in Counterparts(requests[m[1]].wish.kind) /\ PricesMeet(m[1], m[2])
         /\ matches'[m] = MatchOf(m[1], m[2]) /\ Held(m[1]) /\ IsOrder(m[1])
         /\ UNCHANGED batches
<1>1. RequestsOK /\ MatchesOK /\ RequestStore
  BY DEF TypeInv, RequestsOK
<1>2. ~UNCHANGED matches
  OBVIOUS
<1>3. \A n : SendOlder(n) \/ SendNewer(n) \/ OlderOver(n) => DOMAIN matches' = DOMAIN matches
  BY DEF SendOlder, SendNewer, OlderOver, Move
<1>4. \A r : Place(r) \/ ApplyCredit(r) \/ TransferCoins(r) \/ Placed(r) \/ ReadOwn(r) => UNCHANGED matches
  BY DEF Place, ApplyCredit, TransferCoins, AcceptFor, Placed, ReadOwn
<1>5. SyncProposals \/ UNCHANGED allVars => UNCHANGED matches
  BY DEF SyncProposals, allVars
<1>6. \A b : Carry(b) \/ CommitTxn(b) \/ InvalidateTxn(b) => UNCHANGED matches
  BY DEF Carry, CommitTxn, InvalidateTxn
<1>7. \E r \in Requests : ReadOpen(r)
  BY <1>2, <1>3, <1>4, <1>5, <1>6, ExchangeSteps DEF Sends, Works
<1>8. PICK r \in Requests : ReadOpen(r)
  BY <1>7
<1> DEFINE found == {id \in Counterparts(requests[r].wish.kind) : PricesMeet(r, id)}
<1>9. /\ r \in DOMAIN requests /\ "open" \in requests[r].unread /\ UNCHANGED batches
  BY <1>8 DEF ReadOpen, Reads
<1>10. DOMAIN matches' = DOMAIN matches \cup ({r} \X found)
       /\ \A n \in {r} \X found : matches'[n] = MatchOf(r, n[2])
  BY <1>1, <1>8, ReadOpenEffect
<1>11. m \in {r} \X found
  BY <1>10
<1>12. m[1] = r /\ m[2] \in found /\ m = <<m[1], m[2]>> /\ matches'[m] = MatchOf(r, m[2])
  BY <1>10, <1>11
<1>13. Held(r)
  <2>1. \A n : OlderOver(n) => DOMAIN matches' = DOMAIN matches
    BY <1>3
  <2>2. \E placed, unread : Becomes(r, placed, unread, requests[r].rate, requests[r].balance,
                                    requests[r].amount, requests[r].exchanges)
    BY <1>1, <1>8, ReadOpenEffect
  <2> QED
    BY <2>2 DEF Becomes, Held
<1>14. IsOrder(r)
  BY <1>1, <1>9 DEF RequestsOK
<1> QED
  BY <1>8, <1>9, <1>12, <1>13, <1>14

-----------------------------------------------------------------------------
(* The invariant is kept. *)

LEMMA ViewLoneKept ==
  ASSUME AnyContent, OneClock, RaceInv, [ExchangeNext]_allVars
  PROVE  ViewLone'
<1>1. MatchesOK /\ Grows /\ ViewLone /\ AnswersOK
  BY RaceParts, RaceStep
<1>2. \A id : MatchesOf(id)' = {} => MatchesOf(id) = {}
  BY <1>1, MatchesStay
<1>3. CASE UNCHANGED view
  BY <1>1, <1>2, <1>3 DEF ViewLone
<1>4. CASE SyncProposals
  <2>1. view'.proposals = proposals
    BY <1>4 DEF SyncProposals
  <2>2. ASSUME NEW id \in DOMAIN proposals, MatchesOf(id) = {} PROVE proposals[id].exchanged = 0
    <3>1. Alone(id)
      BY <2>2 DEF Alone
    <3> QED
      BY <1>1, <2>2, <3>1 DEF AnswersOK, Unanswered, AnsweredOnce
  <2> QED
    BY <1>2, <2>1, <2>2 DEF ViewLone
<1> QED
  BY <1>3, <1>4, ViewSteps

LEMMA BalancesKept ==
  ASSUME AnyContent, OneClock, RaceInv, [ExchangeNext]_allVars
  PROVE  BalancesOK'
<1>1. /\ TypeInv /\ RequestsOK /\ MatchesOK /\ ViewOK /\ PricesOK /\ BalancesOK /\ ViewLone
      /\ Grows /\ Steady
  BY RaceParts, RaceStep
<1>2. SUFFICES ASSUME NEW r \in DOMAIN requests', requests'[r].balance # Unknown,
                      MatchesOf(OwnId(r))' = {}
               PROVE  requests'[r].balance = AmountOf(OwnId(r))'
  BY DEF BalancesOK
<1>3. r \in DOMAIN requests
  <2> SUFFICES ASSUME r \notin DOMAIN requests PROVE FALSE
    OBVIOUS
  <2>1. PICK q \in Requests : Place(q)
    BY <1>1, NewRequest
  <2>2. PICK wish : requests' = Put(requests, q,
          [wish |-> wish, placed |-> FALSE, unread |-> {}, rate |-> Unknown,
           balance |-> Unknown, amount |-> wish.amount, exchanges |-> {}])
    BY <2>1 DEF Place
  <2> DEFINE new == [wish |-> wish, placed |-> FALSE, unread |-> {}, rate |-> Unknown,
                     balance |-> Unknown, amount |-> wish.amount, exchanges |-> {}]
  <2>3. new.balance = Unknown /\ requests' = Put(requests, q, new)
    BY <2>2
  <2> HIDE DEF new
  <2>4. r = q /\ requests'[r] = new
    BY <2>3 DEF Put
  <2> QED
    BY <1>2, <2>3, <2>4
<1>4. PICK id : id = OwnId(r)
  OBVIOUS
<1>5. OwnId(r)' = id
  BY <1>1, <1>3, <1>4 DEF OwnId, Grows
<1>6. MatchesOf(id) = {}
  <2>1. MatchesOf(id)' = {}
    BY <1>2, <1>5 DEF MatchesOf
  <2> QED
    BY <1>1, <2>1, MatchesStay
<1>7. \A m \in DOMAIN matches : m[1] # r
  BY <1>4, <1>6 DEF MatchesOf
<1>8. CASE Held(r)
  <2>1. requests[r].balance # Unknown /\ requests'[r].balance = requests[r].balance
    BY <1>2, <1>8 DEF Held
  <2>2. id \in DOMAIN proposals /\ requests[r].balance = AmountOf(id)
    BY <1>1, <1>3, <1>4, <1>6, <2>1 DEF BalancesOK, PricesOK, RequestFair, PriceRead
  <2>3. proposals'[id].amount = proposals[id].amount
    BY <1>1, <2>2 DEF Steady
  <2> QED
    BY <1>5, <2>1, <2>2, <2>3 DEF AmountOf
<1>9. CASE ReadOwn(r)
  <2>1. PICK balance : /\ balance = IF id \in DOMAIN view.proposals THEN Left(view.proposals[id])
                                    ELSE requests[r].balance
                       /\ requests'[r].balance = balance
    <3>1. \E placed, unread, rate, balance, amount, pairs :
            /\ Becomes(r, placed, unread, rate, balance, amount, pairs)
            /\ balance = IF id \in DOMAIN view.proposals THEN Left(view.proposals[id])
                         ELSE requests[r].balance
      BY <1>1, <1>4, <1>9, ReadOwnEffect DEF RequestsOK
    <3> QED
      BY <3>1 DEF Becomes
  <2>2. CASE id \in DOMAIN view.proposals
    <3>1. view.proposals[id].exchanged = 0 /\ view.proposals[id] \in Proposal
      BY <1>1, <1>6, <2>2 DEF ViewLone, ViewOK, Typed, IsStore
    <3>2. Left(view.proposals[id]) = view.proposals[id].amount
      BY <3>1 DEF Left, Proposal
    <3>3. id \in DOMAIN proposals /\ view.proposals[id].amount = proposals[id].amount
      BY <1>1, <2>2 DEF PricesOK, Agrees
    <3>4. proposals'[id].amount = proposals[id].amount
      BY <1>1, <3>3 DEF Steady
    <3> QED
      BY <1>5, <2>1, <2>2, <3>2, <3>3, <3>4 DEF AmountOf
  <2>3. CASE id \notin DOMAIN view.proposals
    <3>1. requests'[r].balance = requests[r].balance /\ requests[r].balance # Unknown
      BY <1>2, <2>1, <2>3
    <3>2. id \in DOMAIN proposals /\ requests[r].balance = AmountOf(id)
      BY <1>1, <1>3, <1>4, <1>6, <3>1 DEF BalancesOK, PricesOK, RequestFair, PriceRead
    <3>3. proposals'[id].amount = proposals[id].amount
      BY <1>1, <3>2 DEF Steady
    <3> QED
      BY <1>5, <3>1, <3>2, <3>3 DEF AmountOf
  <2> QED
    BY <2>2, <2>3
<1> QED
  BY <1>1, <1>3, <1>7, <1>8, <1>9, RequestSteps

LEMMA ChangedFields ==
  ASSUME Typed(proposals, rates), NEW id, NEW status, NEW exchanged, Changes(id, status, exchanged)
  PROVE  proposals'[id].status = status /\ proposals'[id].exchanged = exchanged
<1>1. id \in DOMAIN proposals /\ proposals[id] \in Proposal
  BY DEF Changes, Typed, IsStore
<1>2. proposals'[id] = [proposals[id] EXCEPT !.status = status, !.exchanged = exchanged]
  BY DEF Changes
<1> QED
  BY <1>1, <1>2 DEF Proposal

LEMMA AnswersSame ==
  ASSUME TypeInv, [ExchangeNext]_allVars, NEW id, Unanswered(id) \/ AnsweredOnce(id),
         proposals'[id] = proposals[id], MatchesOf(id)' = MatchesOf(id),
         \A m \in MatchesOf(id) : Booked(AnswerOf(m, id))' <=> Booked(AnswerOf(m, id))
  PROVE  (Unanswered(id) \/ AnsweredOnce(id))'
<1>1. CASE Unanswered(id)
  BY <1>1 DEF Unanswered
<1>2. CASE AnsweredOnce(id)
  <2>1. PICK m \in MatchesOf(id) :
          /\ Booked(AnswerOf(m, id))
          /\ proposals[id].exchanged = batches[AnswerOf(m, id)].txns.payload.amount
          /\ (proposals[id].status = "CLOSED")
               <=> (batches[AnswerOf(m, id)].txns.payload.response = "autoCLOSE")
    BY <1>2 DEF AnsweredOnce
  <2>2. PICK b : b = AnswerOf(m, id)
    OBVIOUS
  <2>3. Booked(b)' /\ batches'[b].txns = batches[b].txns
    BY <2>1, <2>2, BookedStays
  <2> QED
    BY <2>1, <2>2, <2>3 DEF AnsweredOnce
<1> QED
  BY <1>1, <1>2

\* The matches of an order that has one, if no second one comes.
LEMMA StillAlone ==
  ASSUME MatchesOK, Grows, NEW id, Alone(id)', MatchesOf(id) # {}
  PROVE  MatchesOf(id)' = MatchesOf(id)
<1>1. MatchesOf(id) \subseteq MatchesOf(id)'
  BY MatchesStay
<1>2. \A m, n \in MatchesOf(id)' : m = n
  BY DEF Alone
<1> QED
  BY <1>1, <1>2

LEMMA QuietAnswers ==
  ASSUME AnyContent, OneClock, RaceInv, [ExchangeNext]_allVars,
         UNCHANGED proposals, \A c : Booked(c)' <=> Booked(c),
         NEW id \in DOMAIN proposals, Alone(id)'
  PROVE  (Unanswered(id) \/ AnsweredOnce(id))'
<1>1. TypeInv /\ MatchesOK /\ SayOK /\ AnswersOK /\ Grows /\ MatchesOK'
  BY RaceParts, RaceStep
<1>2. Unanswered(id) \/ AnsweredOnce(id)
  BY <1>1, MatchesStay DEF AnswersOK
<1>3. CASE MatchesOf(id) # {}
  <2>1. MatchesOf(id)' = MatchesOf(id)
    BY <1>1, <1>3, StillAlone
  <2> QED
    BY <1>1, <1>2, <2>1, AnswersSame
<1>4. CASE MatchesOf(id) = {}
  <2>1. Unanswered(id)
    BY <1>2, <1>4 DEF AnsweredOnce
  <2>2. ASSUME NEW m \in MatchesOf(id)', Booked(AnswerOf(m, id)) PROVE FALSE
    <3>1. m \in DOMAIN matches' /\ m = <<m[1], m[2]>>
      BY <1>1 DEF MatchesOf, MatchesOK, IsStore
    <3>2. m \in DOMAIN matches
      BY <1>1, <2>2, <3>1, MatchOfBatch DEF AnswerOf, Booked
    <3>3. m \in MatchesOf(id)
      BY <1>1, <3>2, MatchesStay
    <3> QED
      BY <1>4, <3>3
  <2>3. Unanswered(id)'
    BY <2>1, <2>2 DEF Unanswered
  <2> QED
    BY <2>3
<1> QED
  BY <1>3, <1>4

LEMMA OrderAnswers ==
  ASSUME AnyContent, OneClock, RaceInv, [ExchangeNext]_allVars,
         NEW b \in DOMAIN batches, CommitTxn(b), Orders(b),
         \A c : c # b => (Booked(c)' <=> Booked(c)),
         NEW id \in DOMAIN proposals', Alone(id)'
  PROVE  (Unanswered(id) \/ AnsweredOnce(id))'
<1>1. TypeInv /\ MatchesOK /\ PricesOK /\ AnswersOK /\ Grows
  BY RaceParts, RaceStep
<1>2. MatchesOf(id)' = MatchesOf(id) /\ Alone(id)
  BY <1>1, MatchesStay DEF CommitTxn
<1>3. CASE id = b[2]
  <2>1. id \notin DOMAIN proposals /\ proposals'[id] = Placing(requests[b[1]].wish)
    BY <1>3 DEF Orders
  <2>2. MatchesOf(id) = {}
    BY <1>1, <2>1, MatchKnown DEF MatchesOf
  <2>3. proposals'[id].exchanged = 0 /\ proposals'[id].status = "OPEN"
    BY <2>1 DEF Placing
  <2> QED
    BY <1>2, <2>2, <2>3 DEF Unanswered
<1>4. CASE id # b[2]
  <2>1. id \in DOMAIN proposals /\ proposals'[id] = proposals[id]
    BY <1>4 DEF Orders, PutsOrder, Put
  <2>2. Unanswered(id) \/ AnsweredOnce(id)
    BY <1>1, <1>2, <2>1 DEF AnswersOK
  <2>3. \A m : AnswerOf(m, id) # b
    BY DEF AnswerOf, Batch, Orders
  <2> QED
    BY <1>1, <1>2, <2>1, <2>2, <2>3, AnswersSame
<1> QED
  BY <1>3, <1>4

\* Only an order is matched.
LEMMA AcceptedUnmatched ==
  ASSUME RequestsOK, MatchesOK, NEW r \in DOMAIN requests, ~IsOrder(r)
  PROVE  MatchesOf(OwnId(r)) = {}
<1>1. OwnId(r)[1] \notin {"buyDGC", "sellDGC"}
  BY RequestIs DEF IsOrder
<1>2. \A m \in DOMAIN matches : {OwnId(m[1])[1], m[2][1]} = {"buyDGC", "sellDGC"}
  BY DEF MatchesOK
<1> QED
  BY <1>1, <1>2 DEF MatchesOf

\* The answer of a match is about one of its orders.
LEMMA AnswerOfMatch ==
  ASSUME MatchesOK, PricesOK, NEW b, NEW t, Says(b, t), b[3] \in {"older", "newer"},
         NEW m, m = <<b[1], b[2]>>
  PROVE  /\ m \in DOMAIN matches /\ m \in MatchesOf(t.payload.id) /\ b = AnswerOf(m, t.payload.id)
         /\ t.payload.response \in {"autoOPEN", "autoCLOSE"}
<1>1. m \in DOMAIN matches /\ m[1] = b[1] /\ m[2] = b[2] /\ b = <<b[1], b[2], b[3]>>
  BY DEF Says
<1>2. IF b[3] = "older" THEN t.payload.id = m[2] /\ t.payload.response = matches[m].older
                        ELSE t.payload.id = OwnId(m[1]) /\ t.payload.response = matches[m].newer
  BY DEF Says, OlderSays, NewerSays
<1>3. OwnId(m[1]) # m[2] /\ m \in MatchesOf(m[2]) /\ m \in MatchesOf(OwnId(m[1]))
  BY <1>1, MatchKnown
<1>4. matches[m].older \in {"autoOPEN", "autoCLOSE"} /\ matches[m].newer \in {"autoOPEN", "autoCLOSE"}
  BY <1>1, MatchIs
<1>5. b = Batch(m, b[3])
  BY <1>1 DEF Batch
<1> QED
  BY <1>1, <1>2, <1>3, <1>4, <1>5 DEF AnswerOf

LEMMA AnswerAnswers ==
  ASSUME AnyContent, OneClock, RaceInv, [ExchangeNext]_allVars,
         NEW b \in DOMAIN batches, CommitTxn(b), PutsAnswer(b), Says(b, batches[b].txns),
         Booked(b)', ~Booked(b), \A c : c # b => (Booked(c)' <=> Booked(c)),
         NEW id \in DOMAIN proposals', Alone(id)'
  PROVE  (Unanswered(id) \/ AnsweredOnce(id))'
<1>1. TypeInv /\ LedgerOK /\ RequestsOK /\ MatchesOK /\ PricesOK /\ AnswersOK /\ Grows
  BY RaceParts, RaceStep
<1>2. MatchesOf(id)' = MatchesOf(id) /\ Alone(id)
  BY <1>1, MatchesStay DEF CommitTxn
<1>3. PICK t : t = batches[b].txns
  OBVIOUS
<1>4. Says(b, t) /\ Answers(t.signer, t.payload) /\ b[3] # "place" /\ batches'[b].txns = t
  <2>1. batches'[b].txns = t
    BY <1>1, <1>3, BookedStep DEF TypeInv
  <2> QED
    BY <1>3, <2>1 DEF PutsAnswer
<1>5. /\ t.payload.id \in DOMAIN proposals /\ DOMAIN proposals' = DOMAIN proposals
      /\ \A i \in DOMAIN proposals : i # t.payload.id => proposals'[i] = proposals[i]
  BY <1>4 DEF Answers, Changes
<1>6. Unanswered(id) \/ AnsweredOnce(id)
  BY <1>1, <1>2, <1>5 DEF AnswersOK
<1>7. PICK m : m = <<b[1], b[2]>>
  OBVIOUS
<1>8. b = <<b[1], b[2], b[3]>> /\ b[1] \in DOMAIN requests
  BY <1>4 DEF Says
<1>9. CASE id # t.payload.id
  <2>1. ASSUME NEW n \in MatchesOf(id), AnswerOf(n, id) = b PROVE FALSE
    <3>1. n \in DOMAIN matches /\ n = <<n[1], n[2]>> /\ (id = n[2] \/ id = OwnId(n[1]))
      BY <1>1, MatchIs DEF MatchesOf
    <3>2. n = m /\ b[3] = IF id = n[2] THEN "older" ELSE "newer"
      BY <1>7, <1>8, <2>1, <3>1 DEF AnswerOf, Batch
    <3>3. b[3] = "older" => t.payload.id = m[2]
      BY <1>4, <1>7 DEF Says, OlderSays
    <3>4. b[3] = "newer" => t.payload.id = OwnId(m[1])
      BY <1>4, <1>7 DEF Says, NewerSays
    <3> QED
      BY <1>9, <3>1, <3>2, <3>3, <3>4
  <2> QED
    BY <1>1, <1>2, <1>5, <1>6, <1>9, <2>1, AnswersSame
<1>10. CASE id = t.payload.id /\ b[3] = "answer"
  <2>1. ~IsOrder(b[1]) /\ id = OwnId(b[1]) /\ t.payload.response = "ACCEPT"
    BY <1>4, <1>10 DEF Says, AcceptSays
  <2>2. MatchesOf(id) = {}
    BY <1>1, <1>8, <2>1, AcceptedUnmatched
  <2>3. proposals[id].exchanged = 0
    BY <1>6, <2>2 DEF Unanswered, AnsweredOnce
  <2>4. \E status \in {"ACCEPTED", "REJECTED", "CANCELED"} : Changes(id, status, proposals[id].exchanged)
    BY <1>4, <1>10, <2>1 DEF Answers
  <2>5. proposals'[id].exchanged = 0 /\ proposals'[id].status # "CLOSED"
    BY <1>1, <2>3, <2>4, ChangedFields DEF LedgerOK
  <2> QED
    BY <1>2, <2>2, <2>5 DEF Unanswered
<1>11. CASE id = t.payload.id /\ b[3] \in {"older", "newer"}
  <2>3. m \in MatchesOf(id) /\ b = AnswerOf(m, id) /\ t.payload.response \in {"autoOPEN", "autoCLOSE"}
    BY <1>1, <1>4, <1>7, <1>11, AnswerOfMatch
  <2>4. \A n \in MatchesOf(id) : n = m
    BY <1>2, <2>3 DEF Alone
  <2>5. ~AnsweredOnce(id)
    BY <2>3, <2>4 DEF AnsweredOnce
  <2>6. proposals[id].exchanged = 0
    BY <1>6, <2>5 DEF Unanswered
  <2>7. PICK amount : amount = t.payload.amount
    OBVIOUS
  <2>8. amount \in Int
    <3>1. t \in Reply
      BY <1>4 DEF Says
    <3> QED
      BY <2>7, <3>1 DEF Reply, ReplyPayload
  <2>9. IF t.payload.response = "autoOPEN" THEN Changes(id, "OPEN", amount)
                                           ELSE Changes(id, "CLOSED", amount)
    <3>1. proposals[id].exchanged + t.payload.amount = amount
      BY <2>6, <2>7, <2>8
    <3>2. PICK sum : sum = proposals[id].exchanged + t.payload.amount
      OBVIOUS
    <3>3. IF t.payload.response = "autoOPEN" THEN Changes(id, "OPEN", sum)
                                             ELSE Changes(id, "CLOSED", sum)
      BY <1>4, <1>11, <2>3, <3>2 DEF Answers
    <3> QED
      BY <3>1, <3>2, <3>3
  <2>10. /\ proposals'[id].exchanged = amount
         /\ (proposals'[id].status = "CLOSED") <=> (t.payload.response = "autoCLOSE")
    <3>1. CASE t.payload.response = "autoOPEN"
      BY <1>1, <2>9, <3>1, ChangedFields DEF LedgerOK
    <3>2. CASE t.payload.response = "autoCLOSE"
      BY <1>1, <2>9, <3>2, ChangedFields DEF LedgerOK
    <3> QED
      BY <2>3, <3>1, <3>2
  <2>11. AnsweredOnce(id)'
    BY <1>2, <1>4, <2>3, <2>7, <2>10 DEF AnsweredOnce
  <2> QED
    BY <2>11
<1>12. b[3] \in {"answer", "older", "newer"}
  BY <1>4 DEF Says
<1> QED
  BY <1>9, <1>10, <1>11, <1>12

LEMMA AnswersKept ==
  ASSUME AnyContent, OneClock, RaceInv, [ExchangeNext]_allVars
  PROVE  AnswersOK'
<1>1. SUFFICES ASSUME NEW id \in DOMAIN proposals', Alone(id)'
               PROVE  (Unanswered(id) \/ AnsweredOnce(id))'
  BY DEF AnswersOK
<1>2. TypeInv /\ OwnersKnown
  BY RaceParts
<1>3. \/ UNCHANGED <<ledgerVars, rates>> /\ \A c : Booked(c)' <=> Booked(c)
      \/ \E b \in DOMAIN batches :
           /\ CommitTxn(b) /\ Says(b, batches[b].txns) /\ Booked(b)' /\ ~Booked(b)
           /\ \A c : c # b => (Booked(c)' <=> Booked(c))
           /\ \/ Orders(b)
              \/ PutsAnswer(b) /\ DOMAIN proposals' = DOMAIN proposals
  BY <1>2, LedgerSteps
<1>4. CASE UNCHANGED <<ledgerVars, rates>> /\ \A c : Booked(c)' <=> Booked(c)
  <2>1. UNCHANGED proposals /\ id \in DOMAIN proposals
    BY <1>4 DEF ledgerVars
  <2> QED
    BY <1>1, <1>4, <2>1, QuietAnswers
<1>5. ASSUME NEW b \in DOMAIN batches, CommitTxn(b), Says(b, batches[b].txns), Booked(b)', ~Booked(b),
             \A c : c # b => (Booked(c)' <=> Booked(c)), Orders(b) \/ PutsAnswer(b)
      PROVE  (Unanswered(id) \/ AnsweredOnce(id))'
  BY <1>1, <1>5, OrderAnswers, AnswerAnswers
<1> QED
  BY <1>3, <1>4, <1>5

\* A match that was there keeps what it says, and its orders theirs.
LEMMA OldMatch ==
  ASSUME RequestsOK, MatchesOK, PricesOK, Grows, Steady, NEW m \in DOMAIN matches
  PROVE  /\ OwnId(m[1])' = OwnId(m[1]) /\ matches'[m].older = matches[m].older
         /\ matches'[m].newer = matches[m].newer /\ matches'[m].amount = matches[m].amount
         /\ AmountOf(m[2])' = AmountOf(m[2]) /\ proposals'[OwnId(m[1])].amount = AmountOf(OwnId(m[1]))
         /\ Alone(m[2])' => Alone(m[2])
<1>1. /\ m[1] \in DOMAIN requests /\ m[2] \in DOMAIN proposals /\ OwnId(m[1]) \in DOMAIN proposals
  BY MatchKnown
<1>2. OwnId(m[1])' = OwnId(m[1])
  BY <1>1 DEF Grows, OwnId
<1>3. /\ matches'[m].older = matches[m].older
      /\ matches'[m].newer = matches[m].newer /\ matches'[m].amount = matches[m].amount
  BY DEF Grows
<1>4. AmountOf(m[2])' = AmountOf(m[2]) /\ proposals'[OwnId(m[1])].amount = AmountOf(OwnId(m[1]))
  BY <1>1 DEF Steady, AmountOf
<1>5. Alone(m[2])' => Alone(m[2])
  BY MatchesStay
<1> QED
  BY <1>2, <1>3, <1>4, <1>5

\* The order that a match is about, then, as it was.
LEMMA OldAlone ==
  ASSUME MatchesOK, Grows, NEW m \in DOMAIN matches, Alone(OwnId(m[1]))'
  PROVE  Alone(OwnId(m[1]))
<1>1. PICK own : own = OwnId(m[1])
  OBVIOUS
<1>2. OwnId(m[1])' = own
  BY <1>1 DEF Grows, OwnId, MatchesOK
<1>3. Alone(own)'
  BY <1>2 DEF Alone, MatchesOf
<1> QED
  BY <1>1, <1>3, MatchesStay

LEMMA OldAmounts ==
  ASSUME AnyContent, OneClock, RaceInv, [ExchangeNext]_allVars, NEW m \in DOMAIN matches
  PROVE  FromOlder(m)' /\ FromBoth(m)'
<1>1. RequestsOK /\ MatchesOK /\ PricesOK /\ Grows /\ Steady /\ AmountsOK
  BY RaceParts, RaceStep
<1>2. FromOlder(m) /\ FromBoth(m)
  BY <1>1 DEF AmountsOK
<1>3. /\ OwnId(m[1])' = OwnId(m[1]) /\ matches'[m].older = matches[m].older
      /\ matches'[m].newer = matches[m].newer /\ matches'[m].amount = matches[m].amount
      /\ AmountOf(m[2])' = AmountOf(m[2]) /\ proposals'[OwnId(m[1])].amount = AmountOf(OwnId(m[1]))
      /\ Alone(m[2])' => Alone(m[2])
  BY <1>1, OldMatch
<1>4. FromOlder(m)'
  BY <1>2, <1>3 DEF FromOlder
<1>5. Alone(OwnId(m[1]))' => Alone(OwnId(m[1]))
  BY <1>1, OldAlone
<1>6. AmountOf(OwnId(m[1]))' = AmountOf(OwnId(m[1]))
  BY <1>3 DEF AmountOf
<1>7. FromBoth(m)'
  BY <1>2, <1>3, <1>5, <1>6 DEF FromBoth
<1> QED
  BY <1>4, <1>7

LEMMA OldOwn ==
  ASSUME AnyContent, OneClock, RaceInv, [ExchangeNext]_allVars, NEW m \in DOMAIN matches
  PROVE  FromOwn(m)'
<1>1. /\ TypeInv /\ RequestsOK /\ MatchesOK /\ PricesOK /\ Grows /\ Steady /\ AmountsOK
  BY RaceParts, RaceStep
<1>2. SUFFICES ASSUME Alone(OwnId(m[1]))' PROVE FromOwn(m)'
  BY DEF FromOwn
<1>3. PICK r, own : r = m[1] /\ own = OwnId(r)
  OBVIOUS
<1>4. Alone(own)
  BY <1>1, <1>2, <1>3, OldAlone
<1>5. /\ OwnId(r)' = own /\ r \in DOMAIN requests /\ own \in DOMAIN proposals
      /\ matches'[m].newer = matches[m].newer /\ matches'[m].amount = matches[m].amount
      /\ proposals'[own].amount = AmountOf(own)
  BY <1>1, <1>3, OldMatch, MatchKnown
<1>6. PICK total, pays : total = AmountOf(own) /\ pays = Pays(m)
  OBVIOUS
<1>7. AmountOf(OwnId(m[1]))' = total
  BY <1>3, <1>5, <1>6 DEF AmountOf
<1>8. Pays(m)' = pays
  BY <1>3, <1>5, <1>6, <1>7 DEF Pays
<1>9. /\ matches[m].amount <= total
      /\ matches[m].stage \in {"matched", "older"} => requests[r].balance = total
      /\ matches[m].stage = "set" => requests[r].amount = pays
      /\ Batch(m, "newer") \in DOMAIN batches => batches[Batch(m, "newer")].txns.payload.amount = pays
  BY <1>1, <1>3, <1>4, <1>6 DEF AmountsOK, FromOwn
<1>10. \A n \in DOMAIN matches : n[1] = r => n = m
  <2>1. \A n \in DOMAIN matches : n[1] = r => n \in MatchesOf(own)
    BY <1>3 DEF MatchesOf
  <2> QED
    BY <1>3, <1>4, <2>1 DEF Alone
<1>11. /\ matches'[m].stage \in {"matched", "older"} => requests'[r].balance = total
       /\ matches'[m].stage = "set" => requests'[r].amount = pays
  <2>1. CASE OlderOver(m)
    <3>1. matches'[m].stage = "set" /\ matches[m].stage = "older"
      <4>1. Moves(m, "set")
        BY <1>1, <2>1, MoveEffect DEF OlderOver, MatchesOK
      <4> QED
        BY <2>1, <4>1 DEF Moves, OlderOver, In
    <3>2. requests[r].balance = total
      BY <1>9, <3>1
    <3>3. CASE matches[m].newer = "autoOPEN"
      <4>1. \E placed, unread, rate, balance, pairs :
              Becomes(r, placed, unread, rate, balance, matches[m].amount, pairs)
        BY <1>1, <1>3, <1>5, <2>1, <3>3, OlderOverEffect DEF RequestsOK
      <4>2. requests'[r].amount = matches[m].amount
        BY <4>1 DEF Becomes
      <4> QED
        BY <1>6, <3>1, <3>3, <4>2 DEF Pays
    <3>4. CASE matches[m].newer # "autoOPEN"
      <4>1. \E placed, unread, rate, balance, pairs :
              Becomes(r, placed, unread, rate, balance, requests[r].balance, pairs)
        BY <1>1, <1>3, <1>5, <2>1, <3>4, OlderOverEffect DEF RequestsOK
      <4>2. requests'[r].amount = requests[r].balance
        BY <4>1 DEF Becomes
      <4> QED
        BY <1>3, <1>6, <3>1, <3>2, <3>4, <4>2 DEF Pays
    <3> QED
      BY <3>3, <3>4
  <2>2. CASE ~OlderOver(m)
    <3>1. ~ReadOwn(r)
      BY <1>1, <1>3 DEF ReadOwn, Reads, MatchesOK
    <3>2. Held(r)
      BY <1>1, <1>5, <1>10, <2>2, <3>1, RequestSteps
    <3>3. \/ matches'[m].stage = matches[m].stage
          \/ matches[m].stage = "matched" /\ matches'[m].stage = "older"
          \/ matches[m].stage = "set" /\ matches'[m].stage = "sent"
      BY <1>1, <2>2, StageSteps
    <3> QED
      BY <1>9, <3>2, <3>3 DEF Held
  <2> QED
    BY <2>1, <2>2
<1>12. PICK b : b = Batch(m, "newer")
  OBVIOUS
<1>13. b \in DOMAIN batches' => batches'[b].txns.payload.amount = pays
  <2> SUFFICES ASSUME b \in DOMAIN batches' PROVE batches'[b].txns.payload.amount = pays
    OBVIOUS
  <2>1. CASE b \in DOMAIN batches /\ batches'[b].txns = batches[b].txns
    BY <1>9, <1>12, <2>1
  <2>2. CASE \E t : t = batches'[b].txns /\ Sent(b, t)
    <3>1. PICK t : t = batches'[b].txns /\ Sent(b, t)
      BY <2>2
    <3>2. b[1] = r /\ <<b[1], b[2]>> = m /\ b[3] = "newer"
      BY <1>1, <1>3, <1>12, MatchIs DEF Batch
    <3>3. matches[m].stage = "set" /\ t.payload.amount = requests[r].amount
      BY <3>1, <3>2 DEF Sent
    <3> QED
      BY <1>9, <3>1, <3>3
  <2> QED
    BY <1>1, <2>1, <2>2, NewBatches
<1>14. matches'[m].amount <= total
  BY <1>5, <1>9
<1> QED
  BY <1>3, <1>7, <1>8, <1>11, <1>12, <1>13, <1>14 DEF FromOwn

LEMMA NewAmounts ==
  ASSUME AnyContent, OneClock, RaceInv, [ExchangeNext]_allVars,
         NEW m \in DOMAIN matches', m \notin DOMAIN matches
  PROVE  FromOlder(m)' /\ FromOwn(m)' /\ FromBoth(m)'
<1>1. /\ TypeInv /\ RequestsOK /\ MatchesOK /\ ViewOK /\ PricesOK /\ Grows /\ Steady /\ SayOK
      /\ ViewLone /\ BalancesOK
  BY RaceParts, RaceStep
<1>2. /\ m = <<m[1], m[2]>> /\ m[1] \in DOMAIN requests
      /\ m[2] \in Counterparts(requests[m[1]].wish.kind) /\ PricesMeet(m[1], m[2])
      /\ matches'[m] = MatchOf(m[1], m[2]) /\ Held(m[1]) /\ IsOrder(m[1]) /\ UNCHANGED batches
  BY <1>1, NewMatch
<1>3. PICK r, id, own, balance, left :
        /\ r = m[1] /\ id = m[2] /\ own = OwnId(r)
        /\ balance = requests[r].balance /\ left = Left(view.proposals[id])
  OBVIOUS
<1>4. /\ matches'[m] = MatchOf(r, id) /\ balance \in Int /\ balance # Unknown
      /\ MatchOf(r, id) \in Match /\ requests'[r].balance = balance
  BY <1>1, <1>2, <1>3, MatchOfIs DEF PricesMeet, Held
<1>5. /\ matches'[m].amount = IF balance > left THEN left ELSE balance
      /\ matches'[m].older = IF balance < left THEN "autoOPEN" ELSE "autoCLOSE"
      /\ matches'[m].newer = IF balance > left THEN "autoOPEN" ELSE "autoCLOSE"
      /\ matches'[m].stage = "matched"
  BY <1>3, <1>4 DEF MatchOf
<1>6. id \in DOMAIN view.proposals /\ id \in DOMAIN proposals
      /\ view.proposals[id].amount = proposals[id].amount
  BY <1>1, <1>2, <1>3 DEF Counterparts, PricesOK, Agrees
<1>7. own \in DOMAIN proposals /\ OwnId(r)' = own
  <2>1. PriceRead(r)
    BY <1>1, <1>2, <1>3, <1>4 DEF PricesOK, RequestFair
  <2>2. requests'[r].wish = requests[r].wish
    BY <1>1, <1>2, <1>3 DEF Grows
  <2> QED
    BY <1>3, <2>1, <2>2 DEF PriceRead, OwnId
<1>8. PICK whole, total : whole = AmountOf(id) /\ total = AmountOf(own)
  OBVIOUS
<1>9. whole \in Int /\ total \in Int /\ AmountOf(id)' = whole /\ AmountOf(own)' = total
  <2>1. proposals[id] \in Proposal /\ proposals[own] \in Proposal
    BY <1>1, <1>6, <1>7 DEF TypeInv, LedgerOK, Typed, IsStore
  <2>2. whole \in Int /\ total \in Int
    BY <1>8, <2>1 DEF AmountOf, Proposal
  <2>3. AmountOf(id)' = whole /\ AmountOf(own)' = total
    BY <1>1, <1>6, <1>7, <1>8 DEF Steady, AmountOf
  <2> QED
    BY <2>2, <2>3
<1>10. m \in MatchesOf(id)' /\ m \in MatchesOf(own)'
  BY <1>3, <1>7 DEF MatchesOf
<1>11. ASSUME NEW i, Alone(i)', m \in MatchesOf(i)' PROVE MatchesOf(i) = {}
  <2>1. MatchesOf(i) \subseteq MatchesOf(i)' /\ \A n \in MatchesOf(i) : n \in DOMAIN matches
    BY <1>1, MatchesStay DEF MatchesOf
  <2>2. \A n \in MatchesOf(i)' : n = m
    BY <1>11 DEF Alone
  <2> QED
    BY <2>1, <2>2
<1>12. Alone(id)' => left = whole
  <2> SUFFICES ASSUME Alone(id)' PROVE left = whole
    OBVIOUS
  <2>1. view.proposals[id].exchanged = 0
    BY <1>1, <1>6, <1>10, <1>11 DEF ViewLone
  <2> QED
    BY <1>3, <1>6, <1>8, <1>9, <2>1 DEF Left, AmountOf
<1>13. Alone(own)' => balance = total
  <2> SUFFICES ASSUME Alone(own)' PROVE balance = total
    OBVIOUS
  <2>1. MatchesOf(own) = {}
    BY <1>10, <1>11
  <2> QED
    BY <1>1, <1>2, <1>3, <1>4, <1>8, <2>1 DEF BalancesOK
<1>14. left \in Int
  <2>1. view.proposals[id] \in Proposal
    BY <1>1, <1>6 DEF ViewOK, Typed, IsStore
  <2>2. view.proposals[id].amount \in Int /\ view.proposals[id].exchanged \in Int
    BY <2>1 DEF Proposal
  <2> QED
    BY <1>3, <2>2 DEF Left
<1>15. Batch(m, "newer") \notin DOMAIN batches'
  <2>1. Batch(m, "newer") \notin DOMAIN batches
    BY <1>1, <1>2, MatchOfBatch
  <2> QED
    BY <1>2, <2>1
<1>16. PICK before : before = requests'[r].balance
  OBVIOUS
<1>17. AmountOf(m[2])' = whole /\ OwnId(m[1])' = own
  BY <1>3, <1>7, <1>9
<1>18. AmountOf(OwnId(m[1]))' = total
  BY <1>9, <1>17 DEF AmountOf
<1>19. (Alone(m[2])' => left = whole) /\ (Alone(OwnId(m[1]))' => balance = total)
  <2>1. Alone(OwnId(m[1]))' => Alone(own)'
    BY <1>17 DEF Alone, MatchesOf
  <2>2. Alone(m[2])' => Alone(id)'
    BY <1>3
  <2> QED
    BY <1>12, <1>13, <2>1, <2>2
<1>20. FromOlder(m)'
  <2>1. left = whole => matches'[m].amount <= whole
    BY <1>4, <1>5, <1>9, <1>14
  <2> QED
    BY <1>17, <1>19, <2>1 DEF FromOlder
<1>21. FromOwn(m)'
  <2>1. balance = total => matches'[m].amount <= total
    BY <1>4, <1>5, <1>9, <1>14
  <2>2. requests'[m[1]].balance = balance /\ matches'[m].stage = "matched"
    BY <1>3, <1>4, <1>5
  <2> QED
    BY <1>15, <1>18, <1>19, <2>1, <2>2 DEF FromOwn
<1>22. FromBoth(m)'
  <2>1. left = whole /\ balance = total =>
          /\ matches'[m].amount = IF total > whole THEN whole ELSE total
          /\ matches'[m].older = "autoOPEN" <=> total < whole
          /\ matches'[m].newer = "autoOPEN" <=> total > whole
    BY <1>5
  <2> QED
    BY <1>17, <1>18, <1>19, <2>1 DEF FromBoth
<1> QED
  BY <1>20, <1>21, <1>22

LEMMA RaceKept ==
  ASSUME AnyContent, OneClock, RaceInv, [ExchangeNext]_allVars
  PROVE  RaceInv'
<1>1. TypeInv' /\ OwnersKnown' /\ PricesOK'
  BY RaceStep
<1>2. AnswersOK' /\ ViewLone' /\ BalancesOK'
  BY AnswersKept, ViewLoneKept, BalancesKept
<1>3. AmountsOK'
  BY OldAmounts, OldOwn, NewAmounts DEF AmountsOK
<1> QED
  BY <1>1, <1>2, <1>3 DEF RaceInv, LoneInv

LEMMA RaceStarts ==
  ASSUME ExchangeInit
  PROVE  RaceInv
<1>1. TypeInv /\ OwnersKnown /\ PricesOK
  BY TypeStarts, OwnersStart, PricesStart
<1>2. /\ DOMAIN requests = {} /\ DOMAIN matches = {} /\ view.proposals = proposals
  BY DEF ExchangeInit, EmptyStore
<1>3. \A id : MatchesOf(id) = {}
  BY <1>2 DEF MatchesOf
<1>4. \A id \in DOMAIN proposals : proposals[id].exchanged = 0 /\ proposals[id].status = "OPEN"
  BY StandingTyped DEF Placing
<1>5. AnswersOK /\ ViewLone
  BY <1>2, <1>3, <1>4 DEF AnswersOK, Unanswered, ViewLone
<1>6. BalancesOK /\ AmountsOK
  BY <1>2 DEF BalancesOK, AmountsOK
<1> QED
  BY <1>1, <1>5, <1>6 DEF RaceInv, LoneInv

\* What an order is after the answer of the only match it has.
LEMMA AnsweredAs ==
  ASSUME RaceInv, NEW m \in DOMAIN matches, NEW id \in {m[2], OwnId(m[1])}, Alone(id),
         Booked(AnswerOf(m, id))
  PROVE  /\ proposals[id].exchanged = IF id = m[2] THEN matches[m].amount ELSE Pays(m)
         /\ (proposals[id].status = "CLOSED")
              <=> ((IF id = m[2] THEN matches[m].older ELSE matches[m].newer) = "autoCLOSE")
<1>1. MatchesOK /\ PricesOK /\ SayOK /\ AnswersOK /\ AmountsOK
  BY RaceParts
<1>2. /\ m[2] \in DOMAIN proposals /\ OwnId(m[1]) \in DOMAIN proposals /\ OwnId(m[1]) # m[2]
      /\ m \in MatchesOf(id) /\ m = <<m[1], m[2]>>
  BY <1>1, MatchKnown, MatchIs
<1>3. PICK b : b = AnswerOf(m, id)
  OBVIOUS
<1>4. /\ proposals[id].exchanged = batches[b].txns.payload.amount
      /\ (proposals[id].status = "CLOSED") <=> (batches[b].txns.payload.response = "autoCLOSE")
  <2>1. AnsweredOnce(id)
    BY <1>1, <1>2 DEF AnswersOK, Unanswered
  <2>2. PICK n \in MatchesOf(id) :
          /\ proposals[id].exchanged = batches[AnswerOf(n, id)].txns.payload.amount
          /\ (proposals[id].status = "CLOSED")
               <=> (batches[AnswerOf(n, id)].txns.payload.response = "autoCLOSE")
    BY <2>1 DEF AnsweredOnce
  <2>3. n = m
    BY <1>2 DEF Alone
  <2> QED
    BY <1>3, <2>2, <2>3
<1>5. PICK t : t = batches[b].txns
  OBVIOUS
<1>6. b \in DOMAIN batches /\ Says(b, t)
  BY <1>1, <1>3, <1>5 DEF Booked, SayOK
<1>7. CASE id = m[2]
  <2>1. b[3] = "older" /\ <<b[1], b[2]>> = m
    BY <1>2, <1>3, <1>7 DEF AnswerOf, Batch
  <2>2. t.payload.response = matches[m].older /\ t.payload.amount = matches[m].amount
    BY <1>6, <2>1 DEF Says, OlderSays
  <2> QED
    BY <1>4, <1>5, <1>7, <2>2
<1>8. CASE id = OwnId(m[1])
  <2>1. b = Batch(m, "newer") /\ b[3] = "newer" /\ <<b[1], b[2]>> = m
    BY <1>2, <1>3, <1>8 DEF AnswerOf, Batch
  <2>2. t.payload.response = matches[m].newer
    BY <1>6, <2>1 DEF Says, NewerSays
  <2>3. t.payload.amount = Pays(m)
    BY <1>1, <1>5, <1>6, <1>8, <2>1 DEF AmountsOK, FromOwn
  <2> QED
    BY <1>2, <1>4, <1>5, <1>8, <2>2, <2>3
<1> QED
  BY <1>7, <1>8

LEMMA LoneExact ==
  ASSUME RaceInv
  PROVE  LoneMatchesExact
<1>1. SUFFICES ASSUME NEW m \in DOMAIN matches, BothBooked(m),
                      \A id \in {OwnId(m[1]), m[2]} : MatchesOf(id) = {m}
               PROVE  \A id \in {OwnId(m[1]), m[2]} : \A other \in {OwnId(m[1]), m[2]} \ {id} :
                        /\ proposals[id].exchanged = IF AmountOf(id) <= AmountOf(other)
                                                     THEN AmountOf(id) ELSE AmountOf(other)
                        /\ (proposals[id].status = "CLOSED") <=> (AmountOf(id) <= AmountOf(other))
  BY DEF LoneMatchesExact
<1>2. LedgerOK /\ MatchesOK /\ PricesOK /\ AmountsOK
  BY RaceParts
<1>3. PICK own, older : own = OwnId(m[1]) /\ older = m[2]
  OBVIOUS
<1>4. own \in DOMAIN proposals /\ older \in DOMAIN proposals /\ own # older
  BY <1>2, <1>3, MatchKnown
<1>5. Alone(own) /\ Alone(older)
  BY <1>1, <1>3 DEF Alone
<1>6. Booked(AnswerOf(m, own)) /\ Booked(AnswerOf(m, older))
  BY <1>1, <1>3, <1>4 DEF BothBooked, AnswerOf
<1>7. PICK x, y : x = AmountOf(own) /\ y = AmountOf(older)
  OBVIOUS
<1>8. x \in Int /\ y \in Int
  BY <1>2, <1>4, <1>7 DEF LedgerOK, Typed, IsStore, Proposal, AmountOf
<1>9. /\ matches[m].amount = IF x > y THEN y ELSE x
      /\ matches[m].older = "autoOPEN" <=> x < y
      /\ matches[m].newer = "autoOPEN" <=> x > y
  BY <1>2, <1>3, <1>5, <1>7 DEF AmountsOK, FromBoth
<1>10. /\ matches[m].older \in {"autoCLOSE", "autoOPEN"} /\ matches[m].newer \in {"autoCLOSE", "autoOPEN"}
  BY <1>2, MatchIs
<1>11. /\ proposals[older].exchanged = matches[m].amount
       /\ (proposals[older].status = "CLOSED") <=> (matches[m].older = "autoCLOSE")
       /\ proposals[own].exchanged = Pays(m)
       /\ (proposals[own].status = "CLOSED") <=> (matches[m].newer = "autoCLOSE")
  BY <1>3, <1>4, <1>5, <1>6, AnsweredAs
<1>12. Pays(m) = IF matches[m].newer = "autoOPEN" THEN matches[m].amount ELSE x
  BY <1>3, <1>7 DEF Pays
<1>13. /\ proposals[own].exchanged = IF x <= y THEN x ELSE y
       /\ (proposals[own].status = "CLOSED") <=> (x <= y)
  BY <1>8, <1>9, <1>10, <1>11, <1>12
<1>14. /\ proposals[older].exchanged = IF y <= x THEN y ELSE x
       /\ (proposals[older].status = "CLOSED") <=> (y <= x)
  BY <1>8, <1>9, <1>10, <1>11
<1> QED
  BY <1>3, <1>4, <1>7, <1>13, <1>14

(* Two orders that are matched with each other and with no other, and      *)
(* whose answers are both committed, have exchanged the same amount, the   *)
(* most they can, and are closed just if nothing is left of them: an order *)
(* that no two matches compete for is as the one answer says, and what a   *)
(* match read of its orders was not stale, because nothing but a match     *)
(* changes what is left of an order.  It assumes OneClock, which the       *)
(* server does not ensure: a proposal's id is its kind and the second of   *)
(* the request, and a second request may overwrite an order that is closed.*)
THEOREM LoneMatchesAreExact ==
  ASSUME AnyContent, OneClock
  PROVE  ExchangeSpec => []LoneMatchesExact
<1>1. ExchangeInit => RaceInv
  BY RaceStarts
<1>2. RaceInv /\ [ExchangeNext]_allVars => RaceInv'
  BY RaceKept
<1>3. RaceInv => LoneMatchesExact
  BY LoneExact
<1> QED
  BY <1>1, <1>2, <1>3, PTL DEF ExchangeSpec

\* An order that no two matches compete for is exchanged for its amount at
\* most when its answer is committed.  (An amount may be negative, and what
\* is exchanged of it at first is zero.)
LEMMA AloneWithin ==
  ASSUME RaceInv, NEW id \in DOMAIN proposals, Alone(id)
  PROVE  Unanswered(id) \/ proposals[id].exchanged <= proposals[id].amount
<1>1. LedgerOK /\ MatchesOK /\ PricesOK /\ AnswersOK /\ AmountsOK
  BY RaceParts
<1>2. PICK amount : amount = proposals[id].amount
  OBVIOUS
<1>3. amount \in Int
  BY <1>1, <1>2 DEF LedgerOK, Typed, IsStore, Proposal
<1>4. CASE Unanswered(id)
  BY <1>4
<1>5. CASE AnsweredOnce(id)
  <2>1. PICK m \in MatchesOf(id) : Booked(AnswerOf(m, id))
    BY <1>5 DEF AnsweredOnce
  <2>2. m \in DOMAIN matches /\ id \in {m[2], OwnId(m[1])}
    BY <2>1 DEF MatchesOf
  <2>3. proposals[id].exchanged = IF id = m[2] THEN matches[m].amount ELSE Pays(m)
    BY <2>1, <2>2, AnsweredAs
  <2>4. FromOlder(m) /\ FromOwn(m) /\ OwnId(m[1]) # m[2]
    BY <1>1, <2>2, MatchKnown DEF AmountsOK
  <2>5. CASE id = m[2]
    <3>1. matches[m].amount <= amount
      BY <1>2, <2>4, <2>5 DEF FromOlder, AmountOf
    <3> QED
      BY <1>2, <2>3, <2>5, <3>1
  <2>6. CASE id = OwnId(m[1])
    <3>1. matches[m].amount <= amount
      BY <1>2, <2>4, <2>6 DEF FromOwn, AmountOf
    <3>2. Pays(m) <= amount
      BY <1>2, <1>3, <2>6, <3>1 DEF Pays, AmountOf
    <3> QED
      BY <1>2, <2>3, <2>4, <2>6, <3>2
  <2> QED
    BY <2>2, <2>5, <2>6
<1> QED
  BY <1>1, <1>4, <1>5 DEF AnswersOK

-----------------------------------------------------------------------------
(* What two matches compete for. *)

Within == \A id \in DOMAIN proposals :
  Alone(id) => Unanswered(id) \/ proposals[id].exchanged <= proposals[id].amount

\* There are finitely many standing orders.
FewStanding == IsFiniteSet(Standing)

LEMMA FewMatches ==
  ASSUME FewStanding, RaceInv, NEW id
  PROVE  IsFiniteSet(MatchesOf(id))
<1>1. RequestsOK /\ MatchesOK /\ PricesOK /\ OwnersKnown
  BY RaceParts
<1>2. IsFiniteSet(DOMAIN requests)
  <2>1. PICK k \in Nat : DOMAIN requests = 1..k
    BY <1>1 DEF RequestsOK
  <2> QED
    BY <2>1, FS_Interval
<1>3. IsFiniteSet(StandingIds)
  <2> DEFINE f == [w \in Standing |-> Id(w)]
  <2>1. f \in Surjection(Standing, StandingIds)
    BY DEF Surjection, StandingIds
  <2> HIDE DEF f
  <2> QED
    BY <2>1, FS_Surjection DEF FewStanding
<1>4. IsFiniteSet({OwnId(r) : r \in DOMAIN requests})
  <2> DEFINE T == {OwnId(r) : r \in DOMAIN requests}
             f == [r \in DOMAIN requests |-> OwnId(r)]
  <2>1. f \in Surjection(DOMAIN requests, T)
    BY DEF Surjection
  <2> HIDE DEF f, T
  <2>2. IsFiniteSet(T)
    BY <1>2, <2>1, FS_Surjection
  <2> QED
    BY <2>2 DEF T
<1>5. DOMAIN proposals \subseteq StandingIds \cup {OwnId(r) : r \in DOMAIN requests}
  BY <1>1 DEF OwnersKnown, Known
<1>6. IsFiniteSet(DOMAIN proposals)
  BY <1>3, <1>4, <1>5, FS_Union, FS_Subset
<1>7. PICK S, T : S = DOMAIN requests /\ T = DOMAIN proposals
  OBVIOUS
<1>8. IsFiniteSet(S) /\ IsFiniteSet(T)
  BY <1>2, <1>6, <1>7
<1>9. IsFiniteSet(S \X T)
  BY <1>8, FS_Product
<1>10. MatchesOf(id) \subseteq S \X T
  <2>1. ASSUME NEW m \in DOMAIN matches PROVE m \in S \X T
    <3>1. m = <<m[1], m[2]>>
      BY <1>1, MatchIs
    <3>2. m[1] \in S /\ m[2] \in T
      BY <1>1, <1>7, MatchKnown
    <3> QED
      BY <3>1, <3>2
  <2> QED
    BY <2>1 DEF MatchesOf
<1> QED
  BY <1>9, <1>10, FS_Subset

LEMMA RacesAreMany ==
  ASSUME FewStanding, RaceInv, NEW id, ~Alone(id)
  PROVE  Cardinality(MatchesOf(id)) > 1
<1>1. PICK m \in MatchesOf(id), n \in MatchesOf(id) : m # n
  BY DEF Alone
<1>2. IsFiniteSet(MatchesOf(id))
  BY FewMatches
<1>3. Cardinality({m, n}) = 2 /\ IsFiniteSet({m, n})
  <2>1. IsFiniteSet({m}) /\ Cardinality({m}) = 1
    BY FS_Singleton
  <2>2. {m, n} = {m} \cup {n} /\ n \notin {m}
    BY <1>1
  <2> QED
    BY <2>1, <2>2, FS_AddElement
<1>4. Cardinality({m, n}) <= Cardinality(MatchesOf(id))
  BY <1>1, <1>2, FS_Subset
<1>5. Cardinality(MatchesOf(id)) \in Nat
  BY <1>2, FS_CardinalityType
<1> QED
  BY <1>3, <1>4, <1>5

\* A step that answers an order of one match, if any, does not reopen it.
LEMMA AloneStaysClosed ==
  ASSUME AnyContent, OneClock, RaceInv, [ExchangeNext]_allVars,
         NEW id \in DOMAIN proposals, Alone(id), proposals[id].status = "CLOSED"
  PROVE  proposals'[id].status # "OPEN"
<1>1. TypeInv /\ OwnersKnown /\ LedgerOK /\ MatchesOK /\ PricesOK /\ AnswersOK
  BY RaceParts
<1>2. SUFFICES ASSUME NEW b \in DOMAIN batches, Says(b, batches[b].txns), ~Booked(b),
                      Orders(b) \/ PutsAnswer(b), proposals'[id] # proposals[id]
               PROVE  proposals'[id].status # "OPEN"
  <2>1. \/ UNCHANGED <<ledgerVars, rates>>
        \/ \E b \in DOMAIN batches :
             Says(b, batches[b].txns) /\ ~Booked(b) /\ (Orders(b) \/ PutsAnswer(b))
    BY <1>1, LedgerSteps
  <2>2. UNCHANGED <<ledgerVars, rates>> => proposals'[id] = proposals[id]
    BY DEF ledgerVars
  <2> QED
    BY <1>2, <2>1, <2>2
<1>3. PICK t : t = batches[b].txns
  OBVIOUS
<1>4. PutsAnswer(b) /\ Says(b, t)
  BY <1>2, <1>3 DEF Orders, PutsOrder, Put
<1>5. b[3] # "place" /\ Answers(t.signer, t.payload)
  BY <1>3, <1>4 DEF PutsAnswer
<1>6. id = t.payload.id
  BY <1>2, <1>5 DEF Answers, Changes
<1>7. CASE b[3] = "answer"
  <2>1. t.payload.response = "ACCEPT"
    BY <1>4, <1>7 DEF Says, AcceptSays
  <2>2. \E status \in {"ACCEPTED", "REJECTED", "CANCELED"} : Changes(id, status, proposals[id].exchanged)
    BY <1>5, <1>6, <2>1 DEF Answers
  <2> QED
    BY <1>1, <2>2, ChangedFields DEF LedgerOK
<1>8. CASE b[3] \in {"older", "newer"}
  <2>1. PICK m : m = <<b[1], b[2]>>
    OBVIOUS
  <2>2. m \in MatchesOf(id) /\ b = AnswerOf(m, id)
    BY <1>1, <1>4, <1>6, <1>8, <2>1, AnswerOfMatch
  <2>3. AnsweredOnce(id)
    BY <1>1 DEF AnswersOK, Unanswered
  <2>4. Booked(b)
    BY <2>2, <2>3 DEF AnsweredOnce, Alone
  <2> QED
    BY <1>2, <2>4
<1> QED
  BY <1>4, <1>5, <1>7, <1>8 DEF Says

\* What is alone before a step that changes the proposals is alone after it.
LEMMA AloneStaysWithin ==
  ASSUME AnyContent, OneClock, RaceInv, Within, Within', [ExchangeNext]_allVars,
         NEW id \in DOMAIN proposals, Alone(id)
  PROVE  proposals'[id].exchanged # proposals[id].exchanged =>
           ~(proposals'[id].exchanged > proposals[id].amount)
<1>1. TypeInv /\ OwnersKnown /\ LedgerOK /\ MatchesOK /\ Grows /\ Steady /\ TypeInv' /\ AnswersOK
  BY RaceParts, RaceStep
<1>2. /\ id \in DOMAIN proposals' /\ proposals'[id].amount = proposals[id].amount
      /\ proposals[id].amount \in Int /\ proposals'[id].exchanged \in Int
  <2>1. id \in DOMAIN proposals' /\ proposals'[id].amount = proposals[id].amount
    BY <1>1 DEF Steady
  <2>2. proposals[id] \in Proposal
    BY <1>1 DEF LedgerOK, Typed, IsStore
  <2>3. proposals'[id] \in Proposal
    BY <1>1, <2>1 DEF TypeInv, LedgerOK, Typed, IsStore
  <2> QED
    BY <2>1, <2>2, <2>3 DEF Proposal
<1>3. UNCHANGED proposals \/ \E b : CommitTxn(b)
  BY <1>1, LedgerSteps DEF ledgerVars
<1>4. CASE UNCHANGED proposals
  BY <1>4
<1>5. ASSUME NEW b, CommitTxn(b), proposals'[id].exchanged # proposals[id].exchanged
      PROVE  proposals'[id].exchanged <= proposals'[id].amount
  <2>1. UNCHANGED matches
    BY <1>5 DEF CommitTxn
  <2>2. MatchesOf(id)' = MatchesOf(id)
    BY <1>1, <2>1, MatchesStay
  <2>3. Alone(id)'
    BY <2>2 DEF Alone
  <2>4. ASSUME Unanswered(id)' PROVE FALSE
    <3>1. proposals'[id].exchanged = 0
      BY <2>4 DEF Unanswered
    <3>2. AnsweredOnce(id)
      BY <1>1, <1>5, <3>1 DEF AnswersOK, Unanswered
    <3>3. PICK m \in MatchesOf(id) : Booked(AnswerOf(m, id))
      BY <3>2 DEF AnsweredOnce
    <3>4. Booked(AnswerOf(m, id))'
      BY <1>1, <3>3, BookedStays DEF AnswerOf, Batch
    <3> QED
      BY <2>2, <2>4, <3>3, <3>4 DEF Unanswered
  <2> QED
    BY <1>2, <2>3, <2>4 DEF Within
<1> QED
  BY <1>2, <1>3, <1>4, <1>5

LEMMA ReopensStep ==
  ASSUME AnyContent, OneClock, FewStanding, RaceInv, Within, Within', [ExchangeNext]_allVars
  PROVE  \A id \in DOMAIN proposals :
           \/ proposals[id].status = "CLOSED" /\ proposals'[id].status = "OPEN"
           \/ /\ proposals'[id].exchanged # proposals[id].exchanged
              /\ proposals'[id].exchanged > proposals[id].amount
           => Cardinality(MatchesOf(id)) > 1
BY AloneStaysClosed, AloneStaysWithin, RacesAreMany

(* Only an order that two matches compete for is ever reopened, or         *)
(* exchanged for more than its amount: for an order that is alone before a *)
(* step the answer that reopens it would be a second one of its match.  It *)
(* assumes OneClock, as a new order with the id of a closed one would      *)
(* reopen it without any match, and finitely many standing orders.         *)
THEOREM OnlyRacesDo ==
  ASSUME AnyContent, OneClock, FewStanding
  PROVE  ExchangeSpec => OnlyRacesReopen
<1>1. ExchangeInit => RaceInv
  BY RaceStarts
<1>2. RaceInv /\ [ExchangeNext]_allVars => RaceInv'
  BY RaceKept
<1>3. RaceInv => Within
  BY AloneWithin DEF Within
<1>4. RaceInv /\ Within /\ Within' /\ [ExchangeNext]_allVars =>
        [\A id \in DOMAIN proposals :
           \/ proposals[id].status = "CLOSED" /\ proposals'[id].status = "OPEN"
           \/ /\ proposals'[id].exchanged # proposals[id].exchanged
              /\ proposals'[id].exchanged > proposals[id].amount
           => Cardinality(MatchesOf(id)) > 1]_allVars
  BY ReopensStep
<1> QED
  BY <1>1, <1>2, <1>3, <1>4, PTL DEF ExchangeSpec, OnlyRacesReopen
=============================================================================
