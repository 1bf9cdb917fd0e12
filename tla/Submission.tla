----------------------------- MODULE Submission -----------------------------
(***************************************************************************)
(* What the server promises about a batch of transactions that is          *)
(* submitted through it: the validator takes or refuses the batch, and     *)
(* decides it once and as a whole; whoever submitted it hears back once.   *)
(* "accepted" and "ok" are true when they are said.  An error is not a     *)
(* promise: the batch may have been committed, or be committed later.      *)
(***************************************************************************)

CONSTANT BatchIds

VARIABLES
  fate,     \* what the validator made of each batch
  answer    \* what its submitter has been told

submission == <<fate, answer>>

Fates == {"none", "refused", "pending", "committed", "invalid"}
Answers == {"none", "accepted", "ok", "error"}

Init ==
  /\ fate = [id \in BatchIds |-> "none"]
  /\ answer = [id \in BatchIds |-> "none"]

Accept(id) ==
  /\ fate[id] = "none"
  /\ fate' = [fate EXCEPT ![id] = "pending"]
  /\ UNCHANGED answer

\* Who has not been told of a failure before is told of one now.
Refuse(id) ==
  /\ fate[id] = "none" /\ answer[id] \in {"none", "error"}
  /\ fate' = [fate EXCEPT ![id] = "refused"]
  /\ answer' = [answer EXCEPT ![id] = "error"]

Decide(id) ==
  /\ fate[id] = "pending"
  /\ \E f \in {"committed", "invalid"} : fate' = [fate EXCEPT ![id] = f]
  /\ UNCHANGED answer

AnswerAccepted(id) ==
  /\ answer[id] = "none" /\ fate[id] \in {"pending", "committed", "invalid"}
  /\ answer' = [answer EXCEPT ![id] = "accepted"]
  /\ UNCHANGED fate

AnswerOk(id) ==
  /\ answer[id] = "none" /\ fate[id] = "committed"
  /\ answer' = [answer EXCEPT ![id] = "ok"]
  /\ UNCHANGED fate

AnswerError(id) ==
  /\ answer[id] = "none"
  /\ answer' = [answer EXCEPT ![id] = "error"]
  /\ UNCHANGED fate

Next == \E id \in BatchIds :
  \/ Accept(id) \/ Refuse(id) \/ Decide(id)
  \/ AnswerAccepted(id) \/ AnswerOk(id) \/ AnswerError(id)

Spec == Init /\ [][Next]_submission
=============================================================================
