----------------------------- MODULE MCExchange -----------------------------
(***************************************************************************)
(* A bounded instance of CoinExchange: two requests beside a standing order.*)
(***************************************************************************)
EXTENDS CoinExchange

CONSTANTS t1, t2, t3

MCTraders == {t1, t2, t3}
MCSeconds == 1..3
MCIds == CoinRoles \X MCSeconds
MCCredit == [t \in MCTraders |-> IF t = t2 THEN 0 ELSE 2]
MCBalance == [t \in MCTraders |-> IF t = t3 THEN 1 ELSE 0]

Buy(t, amount, rate, second) ==
  [kind |-> "buyDGC", trader |-> t, receiver |-> Nobody, amount |-> amount,
   rate |-> rate, second |-> second]
Sell(t, amount, rate, second) == [Buy(t, amount, rate, second) EXCEPT !.kind = "sellDGC"]
Transfer(t, to, amount, second) ==
  [Buy(t, amount, 0, second) EXCEPT !.kind = "transferDGC", !.receiver = to]
Credited(t, to, amount, second) ==
  [Buy(t, amount, 0, second) EXCEPT !.kind = "creditDGC", !.receiver = to]

MCStanding == {Sell(t1, 2, 2, 1)}

\* Two buyers compete for a standing sale, or one of them does not offer
\* enough; or a purchase between two sellers; or other requests beside it.
MCAsks == <<
  {Buy(t2, 2, 3, 2), Buy(t2, 1, 1, 2)},
  {Buy(t3, 3, 2, 3), Sell(t3, 1, 1, 3),
   Credited(t3, t2, 1, 3), Transfer(t3, t2, 1, 3)}>>

Parts == {"place", "older", "newer", "answer"}
MCBatches == (1..2) \X MCIds \X Parts

\* The first answer of the first request can be late, and then be committed
\* when the server has given it up.
MCLate == {b \in MCBatches : b[1] = 1 /\ b[3] = "older"}

MCContent ==
  [what : {"create"}, signer : MCTraders, rate : Int, payload : ProposalPayload]
  \cup
  [what : {"answer"}, signer : MCTraders, rate : Int,
   payload : [id : MCIds, response : Responses, role : CoinRoles,
              receiver : MCTraders \cup {Nobody}, record : {NoRecord}, amount : Int,
              exchanges : SUBSET (MCIds \X MCIds)]]
=============================================================================
