---------------------------- MODULE CoinExchange ----------------------------
(***************************************************************************)
(* Coins on the server (server/transaction/proposals.js): orders to buy    *)
(* and to sell, which the server matches against each other, requests for  *)
(* credit, and transfers.  Each request creates a proposal, reads the      *)
(* database for what to answer, and submits the answers, all signed with   *)
(* the key of whoever made the request.  Requests run concurrently; what   *)
(* they read lags behind the chain; and a submission that fails is logged  *)
(* and taken for a success.                                                *)
(***************************************************************************)
EXTENDS ProposalHandlers, BatchSubmit

CONSTANTS
  Seconds,      \* the clock readings of the server that proposal ids
                \* contain: nothing keeps two requests from having one id
  Asks,         \* request number -> the requests it may be
  Credit,       \* participant -> its credit to start with
  Balance,      \* participant -> its balance to start with
  Standing,     \* the orders that are open to start with
  Unknown       \* undefined: what has not been read from the database

Requests == DOMAIN Asks

\* The price of a coin is a number, and so is an amount, of any sign; there
\* is one currency.
Wish == [kind: CoinRoles, trader: Participants, receiver: Participants \cup {Nobody},
         amount: Int, rate: Int, second: Seconds]

Id(wish) == <<wish.kind, wish.second>>

ASSUME AsksAssumption == 
  Standing \subseteq Wish /\ \A r \in Requests : Asks[r] \subseteq Wish
ASSUME CreditAssumption == Credit \in [Participants -> Int]
ASSUME BalanceAssumption == Balance \in [Participants -> Int]
ASSUME IdsAssumption == ProposalIds = CoinRoles \X Seconds
ASSUME BatchesAssumption ==
  BatchIds = Requests \X ProposalIds \X {"place", "older", "newer", "answer"}

VARIABLES
  rates,        \* proposal id -> the price its stored proposal asks
  view,         \* the database's copy of the proposals and their prices
  requests,     \* request -> what it is, how far, and the object it works on
  matches       \* <<request, proposal it is matched with>> -> how far

ledgerVars == <<participants, proposals, exchanges>>
unusedVars == <<tables, records, properties, pages>>
allVars == <<ledgerVars, unusedVars, batches, rates, view, requests, matches>>

\* The server's object for a new order: price and balance are read from the
\* database, amount and exchanges are set for its next answer.
Request ==
  [wish: Wish, placed: BOOLEAN, unread: SUBSET {"own", "open"},
   rate: Int \cup {Unknown}, balance: Int \cup {Unknown},
   amount: Int, exchanges: SUBSET (ProposalIds \X ProposalIds)]

Match ==
  [stage: {"matched", "older", "set", "sent"}, older: {"autoCLOSE", "autoOPEN"},
   newer: {"autoCLOSE", "autoOPEN"}, amount: Int]

\* The proposal that a request creates, as the ledger stores it.
Placing(wish) ==
  [status |-> "OPEN", role |-> wish.kind, issuer |-> wish.trader, receiver |-> wish.receiver,
   record |-> NoRecord, properties |-> {}, amount |-> wish.amount, exchanged |-> 0]

\* The standing orders' ids, with what F gives for each.
OfStanding(F(_)) ==
  [id \in {Id(w) : w \in Standing} |-> F(CHOOSE w \in Standing : Id(w) = id)]

Price(wish) == wish.rate

ExchangeInit ==
  /\ participants = [p \in Participants |-> [balance |-> Balance[p], credit |-> Credit[p]]]
  /\ proposals = OfStanding(Placing) /\ exchanges = {}
  /\ tables = EmptyStore /\ records = EmptyStore
  /\ properties = EmptyStore /\ pages = EmptyStore
  /\ InitBatches
  /\ rates = OfStanding(Price) /\ view = [proposals |-> proposals, rates |-> rates]
  /\ requests = EmptyStore /\ matches = EmptyStore

-----------------------------------------------------------------------------
(* Transactions. *)

Create(wish) ==
  [what |-> "create", signer |-> wish.trader, rate |-> wish.rate,
   payload |-> [id |-> Id(wish), role |-> wish.kind, receiver |-> wish.receiver,
                record |-> NoRecord, properties |-> {}, amount |-> wish.amount]]

AnswerTo(id, signer, response, receiver, amount, pairs) ==
  [what |-> "answer", signer |-> signer, rate |-> 0,
   payload |-> [id |-> id, response |-> response, role |-> id[1], receiver |-> receiver,
                record |-> NoRecord, amount |-> amount, exchanges |-> pairs]]

\* What the handlers check of these transactions.
Valid(t) ==
  LET p == t.signer
      c == t.payload
  IN  IF t.what = "create"
      THEN Contains(participants, p) /\ MayPropose(p, c)
      ELSE /\ MayAnswer(p, c)
           /\ c.response = "ACCEPT" => MayAccept(p, c)
           /\ c.role = "sellDGC" => Funds(p) >= c.amount
           /\ c.role = "transferDGC" => participants[p].balance >= c.amount

CommitTxn(b) ==
  LET t == batches[b].txns
  IN  /\ Commit(b)
      /\ \/ t.what = "create" /\ CreateProposal(t.signer, t.payload)
              /\ rates' = Put(rates, t.payload.id, t.rate)
         \/ t.what = "answer" /\ AnswerProposal(t.signer, t.payload)
              /\ UNCHANGED rates
      /\ UNCHANGED <<view, requests, matches>>

InvalidateTxn(b) ==
  /\ Invalidate(b) /\ ~Valid(batches[b].txns)
  /\ UNCHANGED <<ledgerVars, unusedVars, rates, view, requests, matches>>

Carry(b) ==
  /\ Carried(b)
  /\ UNCHANGED <<ledgerVars, unusedVars, rates, view, requests, matches>>

(* The ledger sync brings the database up to date.                         *)
SyncProposals ==
  /\ view' = [proposals |-> proposals, rates |-> rates]
  /\ UNCHANGED <<ledgerVars, unusedVars, batches, rates, requests, matches>>

-----------------------------------------------------------------------------
(* Every request begins with a proposal. *)

OwnId(r) == Id(requests[r].wish)
Own(r, part) == <<r, OwnId(r), part>>

Place(r) == \E wish \in Asks[r] :
  /\ r = 1 + Cardinality(DOMAIN requests)
  /\ requests' = Put(requests, r,
       [wish |-> wish, placed |-> FALSE, unread |-> {}, rate |-> Unknown,
        balance |-> Unknown, amount |-> wish.amount, exchanges |-> {}])
  /\ Submit(<<r, Id(wish), "place">>, Create(wish), TRUE)
  /\ UNCHANGED <<ledgerVars, unusedVars, rates, view, matches>>

IsOrder(r) == requests[r].wish.kind \in {"buyDGC", "sellDGC"}

(* Whatever the answer, the request goes on.  An order sends two queries   *)
(* at once, and answers its client.                                        *)
Placed(r) ==
  /\ r \in DOMAIN requests /\ ~requests[r].placed /\ Answered(Own(r, "place"))
  /\ requests' = [requests EXCEPT ![r].placed = TRUE,
       ![r].unread = IF IsOrder(r) THEN {"own", "open"} ELSE {"own"}]
  /\ UNCHANGED <<ledgerVars, unusedVars, batches, rates, view, matches>>

Reads(r, query) == r \in DOMAIN requests /\ query \in requests[r].unread

(* The proposal, if the database has it, is accepted in the name of its    *)
(* issuer.                                                                 *)
AcceptFor(r, receiver) ==
  /\ requests' = [requests EXCEPT ![r].unread = {}]
  /\ IF OwnId(r) \in DOMAIN view.proposals
     THEN Submit(Own(r, "answer"),
            AnswerTo(OwnId(r), requests[r].wish.trader, "ACCEPT", receiver,
                     view.proposals[OwnId(r)].amount, {}), TRUE)
     ELSE UNCHANGED batches
  /\ UNCHANGED <<ledgerVars, unusedVars, rates, view, matches>>

(* Credit goes to the issuer, whoever it was meant for.                    *)
ApplyCredit(r) ==
  /\ Reads(r, "own") /\ requests[r].wish.kind = "creditDGC"
  /\ AcceptFor(r, view.proposals[OwnId(r)].issuer)

TransferCoins(r) ==
  /\ Reads(r, "own") /\ requests[r].wish.kind = "transferDGC"
  /\ AcceptFor(r, view.proposals[OwnId(r)].receiver)

-----------------------------------------------------------------------------
(* Matching an order. *)

Left(proposal) == proposal.amount - proposal.exchanged

ReadOwn(r) ==
  /\ Reads(r, "own") /\ IsOrder(r)
  /\ LET found == OwnId(r) \in DOMAIN view.proposals
     IN  requests' = [requests EXCEPT
           ![r].unread = @ \ {"own"},
           ![r].rate = IF found THEN view.rates[OwnId(r)] ELSE @,
           ![r].balance = IF found THEN Left(view.proposals[OwnId(r)]) ELSE @]
  /\ UNCHANGED <<ledgerVars, unusedVars, batches, rates, view, matches>>

Counterparts(kind) ==
  {id \in DOMAIN view.proposals :
     view.proposals[id].status = "OPEN" /\ {kind, view.proposals[id].role} = {"buyDGC", "sellDGC"}}

\* The <<buy, sell>> pair of a request's order and another one.
Pair(r, id) == IF requests[r].wish.kind = "buyDGC" THEN <<OwnId(r), id>> ELSE <<id, OwnId(r)>>

AnyPrice(r, id) == \* mutant: only the balance is looked at
  requests[r].balance # Unknown /\ requests[r].balance > 0

\* The buyer pays at least what the seller asks.
PricesMeet(r, id) ==
  /\ requests[r].balance # Unknown /\ requests[r].balance > 0
  /\ IF requests[r].wish.kind = "buyDGC"
     THEN requests[r].rate >= view.rates[id]
     ELSE view.rates[id] >= requests[r].rate

MatchForAll(r, id) == \* mutant: the older order is closed for what it was placed with
  LET balance == requests[r].balance
      left == view.proposals[id].amount
  IN  [stage |-> "matched", amount |-> IF balance > left THEN left ELSE balance,
       older |-> "autoCLOSE", newer |-> IF balance > left THEN "autoOPEN" ELSE "autoCLOSE"]

MatchAsStatus(r, id) == \* mutant: a status in the place of a response
  LET balance == requests[r].balance
      left == Left(view.proposals[id])
  IN  [stage |-> "matched", amount |-> IF balance > left THEN left ELSE balance,
       older |-> IF balance < left THEN "OPEN" ELSE "CLOSED",
       newer |-> IF balance > left THEN "autoOPEN" ELSE "autoCLOSE"]

MatchWhole(r, id) == \* mutant: all the new order wants, whatever is left
  LET balance == requests[r].balance
      left == Left(view.proposals[id])
  IN  [stage |-> "matched", amount |-> balance,
       older |-> IF balance < left THEN "autoOPEN" ELSE "autoCLOSE",
       newer |-> IF balance > left THEN "autoOPEN" ELSE "autoCLOSE"]

MatchOf(r, id) ==
  LET balance == requests[r].balance
      left == Left(view.proposals[id])
  IN  [stage |-> "matched",
       amount |-> IF balance > left THEN left ELSE balance,
       older |-> IF balance < left THEN "autoOPEN" ELSE "autoCLOSE",
       newer |-> IF balance > left THEN "autoOPEN" ELSE "autoCLOSE"]

(* The new order is matched with every open one at once: no answer changes *)
(* its balance before all are matched.  If it has not been read itself it  *)
(* is matched with none.                                                   *)
ReadOpen(r) ==
  /\ Reads(r, "open")
  /\ requests' = [requests EXCEPT ![r].unread = @ \ {"open"}]
  /\ LET found == {id \in Counterparts(requests[r].wish.kind) : PricesMeet(r, id)}
     IN  matches' = PutAll(matches, [m \in {r} \X found |-> MatchOf(r, m[2])])
  /\ UNCHANGED <<ledgerVars, unusedVars, batches, rates, view>>

In(m, stage) == m \in DOMAIN matches /\ matches[m].stage = stage
Move(m, stage) == matches' = [matches EXCEPT ![m].stage = stage]
Batch(m, part) == <<m[1], m[2], part>>
Trader(m) == requests[m[1]].wish.trader

SendOlder(m) ==
  /\ In(m, "matched")
  /\ Submit(Batch(m, "older"),
       AnswerTo(m[2], Trader(m), matches[m].older, Nobody, matches[m].amount,
         IF matches[m].older = "autoCLOSE" THEN {Pair(m[1], m[2])} ELSE {}), TRUE)
  /\ Move(m, "older")
  /\ UNCHANGED <<ledgerVars, unusedVars, rates, view, requests>>

\* What the order is after match m: the matches of a request share its
\* object, and what one of them sets here another may read or set.
Exchanging(m) ==
  LET own == requests[m[1]]
  IN  IF matches[m].newer = "autoOPEN"
      THEN [own EXCEPT !.amount = matches[m].amount, !.balance = @ - matches[m].amount]
      ELSE [own EXCEPT !.amount = own.balance, !.balance = 0,
              !.exchanges = IF matches[m].older = "autoOPEN" THEN {Pair(m[1], m[2])} ELSE @]

OlderStuck(m) == \* mutant: a failed first answer leaves the match as it is
  /\ In(m, "older") /\ Answered(Batch(m, "older"))
  /\ batches[Batch(m, "older")].answer = "ok"
  /\ requests' = [requests EXCEPT ![m[1]] = Exchanging(m)]
  /\ Move(m, "set")
  /\ UNCHANGED <<ledgerVars, unusedVars, batches, rates, view>>

(* The first answer is over, committed or not.                             *)
OlderOver(m) ==
  /\ In(m, "older") /\ Answered(Batch(m, "older"))
  /\ requests' = [requests EXCEPT ![m[1]] = Exchanging(m)]
  /\ Move(m, "set")
  /\ UNCHANGED <<ledgerVars, unusedVars, batches, rates, view>>

SendNewer(m) ==
  /\ In(m, "set")
  /\ Submit(Batch(m, "newer"),
       AnswerTo(OwnId(m[1]), Trader(m), matches[m].newer, Nobody, requests[m[1]].amount,
         IF matches[m].newer = "autoCLOSE" THEN requests[m[1]].exchanges ELSE {}), TRUE)
  /\ Move(m, "sent")
  /\ UNCHANGED <<ledgerVars, unusedVars, rates, view, requests>>

-----------------------------------------------------------------------------
Serve ==
  \/ \E r \in Requests : Placed(r) \/ ApplyCredit(r) \/ TransferCoins(r) \/ ReadOwn(r) \/ ReadOpen(r)
  \/ \E m \in DOMAIN matches : SendOlder(m) \/ OlderOver(m) \/ SendNewer(m)

CarrySome == \E b \in DOMAIN batches : Carry(b)

Decide == \E b \in DOMAIN batches : CommitTxn(b) \/ InvalidateTxn(b)

ExchangeNext == (\E r \in Requests : Place(r)) \/ Serve \/ CarrySome \/ Decide \/ SyncProposals

(* Messages and answers of queries arrive, the validator decides, and      *)
(* waits end.  There are finitely many steps of each kind, so that each is *)
(* taken in the end.                                                       *)
ExchangeSpec ==
  /\ ExchangeInit /\ [][ExchangeNext]_allVars
  /\ WF_allVars(Serve) /\ WF_allVars(CarrySome) /\ WF_allVars(Decide)

-----------------------------------------------------------------------------
(* Every object of the server, and every entry of the ledger it causes, is *)
(* well formed.                                                            *)
ExchangeTypeOK ==
  /\ IsStore(participants, Participants, Participant)
  /\ IsStore(proposals, ProposalIds, Proposal)
  /\ BatchesOK
  /\ IsStore(requests, Requests, Request)
  /\ IsStore(matches, Requests \X ProposalIds, Match)

\* The matches an order takes part in, as the older or as the newer one.
MatchesOf(id) == {m \in DOMAIN matches : id = m[2] \/ id = OwnId(m[1])}

Booked(b) == b \in DOMAIN batches /\ batches[b].fate = "committed"
BothBooked(m) == Booked(Batch(m, "older")) /\ Booked(Batch(m, "newer"))

AmountOf(id) == proposals[id].amount

(* Two orders that are matched with each other and with no other, and      *)
(* whose answers are both committed, have exchanged the same amount, the   *)
(* most they can, and are closed just if nothing is left of them: even if  *)
(* the server gave up waiting for an answer, and however stale its copy of *)
(* the proposals; provided that no two requests had one id (see Seconds).  *)
LoneMatchesExact ==
  \A m \in DOMAIN matches : LET pair == {OwnId(m[1]), m[2]} IN
    BothBooked(m) /\ (\A id \in pair : MatchesOf(id) = {m}) =>
      \A id \in pair : \A other \in pair \ {id} :
        /\ proposals[id].exchanged = IF AmountOf(id) <= AmountOf(other)
                                     THEN AmountOf(id) ELSE AmountOf(other)
        /\ (proposals[id].status = "CLOSED") <=> (AmountOf(id) <= AmountOf(other))

(* No exchange is recorded between a buyer and a seller whose prices do    *)
(* not meet.                                                               *)
FairPrices == \A pair \in exchanges : rates[pair[1]] >= rates[pair[2]]

(* Only an order that two matches compete for is ever reopened, or         *)
(* exchanged for more than its amount, as long as every id is new.         *)
OnlyRacesReopen ==
  [][\A id \in DOMAIN proposals :
       \/ proposals[id].status = "CLOSED" /\ proposals'[id].status = "OPEN"
       \/ /\ proposals'[id].exchanged # proposals[id].exchanged
          /\ proposals'[id].exchanged > proposals[id].amount
       => Cardinality(MatchesOf(id)) > 1]_allVars

(* The second answer of a match follows the first, whatever became of it.  *)
MatchesEnd == <>[](\A m \in DOMAIN matches : matches[m].stage = "sent")

(* An order moves the coins of whoever issued it: what is sold is taken    *)
(* from the seller, what is bought is given to the buyer.                  *)
IssuersExchange ==
  \A id \in DOMAIN proposals : LET order == proposals[id] IN
    /\ order.role = "buyDGC" =>
         participants[order.issuer].balance = Balance[order.issuer] + order.exchanged
    /\ order.role = "sellDGC" =>
         participants[order.issuer].balance = Balance[order.issuer] - order.exchanged
=============================================================================
