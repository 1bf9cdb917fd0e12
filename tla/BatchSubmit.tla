----------------------------- MODULE BatchSubmit -----------------------------
(***************************************************************************)
(* How the server gets transactions into a block.  submitTxns              *)
(* (server/system/submit_utils.js) posts them to the server's own route    *)
(* /transactions?wait; blockchain.submit (server/blockchain/index.js)      *)
(* packs them into one batch, sends it to the validator and asks for its   *)
(* status; the validator reports it once the batch is decided or the wait  *)
(* is over; and after a commit the server pauses for a second to let the   *)
(* block get into the database.  Any of these requests may fail on its     *)
(* way out or back, and what became of the batch does not depend on it.    *)
(*                                                                         *)
(* Modules that compose this one with what transactions do to the ledger   *)
(* conjoin Commit and Invalidate with the effect of the batch.             *)
(***************************************************************************)
EXTENDS Integers, FiniteSets

CONSTANTS
  BatchIds,   \* batches that are ever submitted
  Content,    \* what a batch can contain
  Refusable,  \* batches whose submission may fail, at any point
  Late        \* batches that may be decided after their submitter's wait

VARIABLE batches    \* batch id -> its submission

\* Each stage ends with a message: the validator's answer to the submit
\* request, its answer to the status request, the end of the pause.
Stages == {"sent", "waiting", "pausing", "answered"}

\* `fate` is what has become of the batch, `told` the status that is on its
\* way to the server, `answer` what the submitter has heard.
Submitted ==
  [txns: Content, wait: BOOLEAN, stage: Stages,
   fate: {"none", "refused", "pending", "committed", "invalid"},
   told: {"none", "pending", "committed", "invalid"},
   answer: {"none", "accepted", "ok", "error"}]

(* Submissions are well formed.                                            *)
BatchesOK ==
  /\ batches = [id \in DOMAIN batches |-> batches[id]]
  /\ DOMAIN batches \subseteq BatchIds
  /\ \A id \in DOMAIN batches : batches[id] \in Submitted

NoBatches == [id \in {} |-> 0]

InitBatches == batches = NoBatches

\* A batch of which stage S is running.
At(id, stage) == id \in DOMAIN batches /\ batches[id].stage = stage

Update(id, b) == batches' = [i \in DOMAIN batches \cup {id} |-> IF i = id THEN b ELSE batches[i]]

Answered(id) == At(id, "answered")

(* The transactions are encoded, packed and sent.                          *)
Submit(id, txns, wait) ==
  /\ id \notin DOMAIN batches
  /\ Update(id, [txns |-> txns, wait |-> wait, stage |-> "sent", fate |-> "none",
                 told |-> "none", answer |-> "none"])

\* The validator has not said whether it takes the batch.
Open(id) == id \in DOMAIN batches /\ batches[id].fate = "none"

(* The validator takes the batch; its submitter may have given up by then. *)
Accept(id) ==
  /\ Open(id)
  /\ Update(id, [batches[id] EXCEPT !.fate = "pending",
                                    !.stage = IF @ = "sent" THEN "waiting" ELSE @])

(* The post fails, or the validator's status is not OK (a full queue).     *)
Refuse(id) ==
  /\ id \in Refusable
  /\ Open(id)
  /\ Update(id, [batches[id] EXCEPT !.fate = "refused", !.stage = "answered",
                                    !.answer = "error"])

(* Without ?wait the batch's acceptance is the answer.                     *)
Acknowledge(id) ==
  /\ At(id, "waiting") /\ ~batches[id].wait
  /\ Update(id, [batches[id] EXCEPT !.stage = "answered", !.answer = "accepted"])

(* The validator decides on the batch as a whole.                          *)
Commit(id) ==
  /\ id \in DOMAIN batches /\ batches[id].fate = "pending"
  /\ Update(id, [batches[id] EXCEPT !.fate = "committed"])

Invalidate(id) ==
  /\ id \in DOMAIN batches /\ batches[id].fate = "pending"
  /\ Update(id, [batches[id] EXCEPT !.fate = "invalid"])

(* The batch is decided or the wait is over: the validator reports the     *)
(* status it has now, which is on its way while the batch goes on.         *)
ReportStatus(id) ==
  /\ At(id, "waiting") /\ batches[id].wait /\ batches[id].told = "none"
  /\ batches[id].fate # "pending" \/ id \in Late
  /\ Update(id, [batches[id] EXCEPT !.told = batches[id].fate])

\* mutant: whatever the status, it is taken for a commit
HearAnyStatus(id) ==
  /\ At(id, "waiting") /\ batches[id].told # "none"
  /\ Update(id, [batches[id] EXCEPT !.stage = "pausing", !.told = "none"])

(* The status arrives.  Any but COMMITTED is an error.                     *)
HearStatus(id) ==
  /\ At(id, "waiting") /\ batches[id].told # "none"
  /\ Update(id, IF batches[id].told = "committed"
                THEN [batches[id] EXCEPT !.stage = "pausing", !.told = "none"]
                ELSE [batches[id] EXCEPT !.stage = "answered", !.told = "none",
                                         !.answer = "error"])

(* One second later.                                                       *)
PauseEnds(id) ==
  /\ At(id, "pausing")
  /\ Update(id, [batches[id] EXCEPT !.stage = "answered", !.answer = "ok"])

(* A request or the reply to it is lost, of the post or of the validator's *)
(* connection: an error, wherever the batch is.                            *)
LoseReply(id) ==
  /\ id \in Refusable
  /\ id \in DOMAIN batches /\ batches[id].stage # "answered"
  /\ Update(id, [batches[id] EXCEPT !.stage = "answered", !.told = "none",
                                    !.answer = "error"])

Answering(id) ==
  \/ Refuse(id) \/ Acknowledge(id) \/ ReportStatus(id) \/ HearStatus(id)
  \/ PauseEnds(id) \/ LoseReply(id)

BatchStep == \E id \in BatchIds :
  \/ \E txns \in Content, wait \in BOOLEAN : Submit(id, txns, wait)
  \/ Accept(id) \/ Commit(id) \/ Invalidate(id) \/ Answering(id)

SubmitSpec == InitBatches /\ [][BatchStep]_batches

-----------------------------------------------------------------------------
\* What a batch is to Submission.
Fate(id) == IF id \in DOMAIN batches THEN batches[id].fate ELSE "none"
Answer(id) == IF id \in DOMAIN batches THEN batches[id].answer ELSE "none"

Promise == INSTANCE Submission WITH
  fate <- [id \in BatchIds |-> Fate(id)],
  answer <- [id \in BatchIds |-> Answer(id)]

(* A batch is decided once, whether or not its submitter still listens;    *)
(* a submission is answered once, and "ok" only when its batch is in the   *)
(* chain, although what the server acts on is a status that was reported   *)
(* earlier.  An error promises nothing: a lost reply, or a status that is  *)
(* overtaken on its way, may be that of a batch already committed.         *)
PromiseKept == Promise!Spec

\* The steps of a submission that are not the submitter's.
Carried(id) == Accept(id) \/ Answering(id)
=============================================================================
