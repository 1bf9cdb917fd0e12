----------------------------- MODULE BatchProofs -----------------------------
(***************************************************************************)
(* BatchSubmit implements Submission, for any set of batches and any       *)
(* faults.  What a submitter is told is true because of where a submission *)
(* is when it is told: the invariant ToldTrue ties the stage, and a status *)
(* that is on its way, to the fate of the batch, and to nothing having     *)
(* been answered before.                                                   *)
(***************************************************************************)
EXTENDS BatchSubmit, TLAPS

TakenIn == {"pending", "committed", "invalid"}

\* Before the validator has taken the batch its submission is under way or
\* was given up; a commit that is reported has happened; the answer comes
\* last.
Truthful(b) ==
  /\ b.stage = "sent" => b.fate = "none"
  /\ b.fate = "none" => b.stage = "sent" \/ b.answer = "error"
  /\ b.stage = "waiting" => b.fate \in TakenIn
  /\ b.stage = "pausing" \/ b.told = "committed" => b.fate = "committed"
  /\ b.stage # "answered" => b.answer = "none"

ToldTrue == \A id \in DOMAIN batches : Truthful(batches[id])

SubmitInv == BatchesOK /\ ToldTrue

-----------------------------------------------------------------------------
(* A step changes one batch, so the invariant need be shown of that only.  *)
LEMMA UpdateKeeps ==
  ASSUME SubmitInv, NEW id \in BatchIds, NEW b \in Submitted, Update(id, b), Truthful(b)
  PROVE  SubmitInv'
<1>1. /\ DOMAIN batches' = DOMAIN batches \cup {id}
      /\ batches'[id] = b
      /\ \A i \in DOMAIN batches : i # id => batches'[i] = batches[i]
  BY DEF Update
<1>2. batches' = [i \in DOMAIN batches' |-> batches'[i]]
  BY <1>1 DEF Update
<1>3. BatchesOK'
  BY <1>1, <1>2 DEF SubmitInv, BatchesOK
<1>4. ToldTrue'
  BY <1>1 DEF SubmitInv, ToldTrue
<1> QED
  BY <1>3, <1>4 DEF SubmitInv

(* What Submission sees of a step that changes one batch.                  *)
LEMMA UpdateSeen ==
  ASSUME NEW id \in BatchIds, NEW b, Update(id, b)
  PROVE  /\ [i \in BatchIds |-> Fate(i)]' = [[i \in BatchIds |-> Fate(i)] EXCEPT ![id] = b.fate]
         /\ [i \in BatchIds |-> Answer(i)]'
              = [[i \in BatchIds |-> Answer(i)] EXCEPT ![id] = b.answer]
<1>1. /\ DOMAIN batches' = DOMAIN batches \cup {id}
      /\ batches'[id] = b
      /\ \A i \in DOMAIN batches : i # id => batches'[i] = batches[i]
  BY DEF Update
<1> QED
  BY <1>1 DEF Fate, Answer

-----------------------------------------------------------------------------
(* What the steps of a submission make of it. *)

\* The step changes batch id, and its transactions stay what they are.
TurnsInto(id, stage, fate, told, answer) ==
  \E b \in Submitted :
    /\ Update(id, b) /\ b.txns = batches[id].txns
    /\ b.stage = stage /\ b.fate = fate /\ b.told = told /\ b.answer = answer

LEMMA BatchIs ==
  ASSUME SubmitInv, NEW id \in DOMAIN batches
  PROVE  batches[id] \in Submitted /\ id \in BatchIds /\ Truthful(batches[id])
BY DEF SubmitInv, BatchesOK, ToldTrue

(* The validator's side.                                                   *)
LEMMA FateMoves ==
  ASSUME SubmitInv, NEW id \in DOMAIN batches
  PROVE  LET b == batches[id] IN
         /\ Accept(id) =>
              /\ b.fate = "none"
              /\ TurnsInto(id, IF b.stage = "sent" THEN "waiting" ELSE b.stage, "pending",
                         b.told, b.answer)
         /\ Refuse(id) => b.fate = "none" /\ TurnsInto(id, "answered", "refused", b.told, "error")
         /\ Commit(id) =>
              b.fate = "pending" /\ TurnsInto(id, b.stage, "committed", b.told, b.answer)
         /\ Invalidate(id) =>
              b.fate = "pending" /\ TurnsInto(id, b.stage, "invalid", b.told, b.answer)
<1> DEFINE b == batches[id]
<1>1. b \in Submitted
  BY BatchIs
<1> USE DEF Submitted, Stages
<1>2. ASSUME Accept(id)
      PROVE  /\ b.fate = "none"
             /\ TurnsInto(id, IF b.stage = "sent" THEN "waiting" ELSE b.stage, "pending",
                        b.told, b.answer)
  <2> DEFINE e == [b EXCEPT !.fate = "pending", !.stage = IF @ = "sent" THEN "waiting" ELSE @]
             s == IF b.stage = "sent" THEN "waiting" ELSE b.stage
  <2>1. Update(id, e) /\ b.fate = "none"
    BY <1>2 DEF Accept, Open
  <2>2. /\ e \in Submitted /\ e.txns = b.txns
        /\ e.stage = s /\ e.fate = "pending" /\ e.told = b.told /\ e.answer = b.answer
    BY <1>1
  <2> HIDE DEF e, s
  <2>3. TurnsInto(id, s, "pending", b.told, b.answer)
    BY <2>1, <2>2 DEF TurnsInto
  <2> QED
    BY <2>1, <2>3 DEF s
<1>3. ASSUME Refuse(id)
      PROVE  b.fate = "none" /\ TurnsInto(id, "answered", "refused", b.told, "error")
  <2> DEFINE e == [b EXCEPT !.fate = "refused", !.stage = "answered", !.answer = "error"]
  <2>1. Update(id, e)
    BY <1>3 DEF Refuse
  <2>2. /\ e \in Submitted /\ e.txns = b.txns
        /\ e.stage = "answered" /\ e.fate = "refused" /\ e.told = b.told /\ e.answer = "error"
    BY <1>1
  <2> HIDE DEF e
  <2> QED
    BY <1>3, <2>1, <2>2 DEF Refuse, Open, TurnsInto
<1>4. ASSUME Commit(id)
      PROVE  b.fate = "pending" /\ TurnsInto(id, b.stage, "committed", b.told, b.answer)
  <2> DEFINE e == [b EXCEPT !.fate = "committed"]
  <2>1. Update(id, e)
    BY <1>4 DEF Commit
  <2>2. /\ e \in Submitted /\ e.txns = b.txns
        /\ e.stage = b.stage /\ e.fate = "committed" /\ e.told = b.told /\ e.answer = b.answer
    BY <1>1
  <2> HIDE DEF e
  <2> QED
    BY <1>4, <2>1, <2>2 DEF Commit, TurnsInto
<1>5. ASSUME Invalidate(id)
      PROVE  b.fate = "pending" /\ TurnsInto(id, b.stage, "invalid", b.told, b.answer)
  <2> DEFINE e == [b EXCEPT !.fate = "invalid"]
  <2>1. Update(id, e)
    BY <1>5 DEF Invalidate
  <2>2. /\ e \in Submitted /\ e.txns = b.txns
        /\ e.stage = b.stage /\ e.fate = "invalid" /\ e.told = b.told /\ e.answer = b.answer
    BY <1>1
  <2> HIDE DEF e
  <2> QED
    BY <1>5, <2>1, <2>2 DEF Invalidate, TurnsInto
<1> QED
  BY <1>2, <1>3, <1>4, <1>5

(* The submitter's side: it does not touch the fate of the batch.          *)
LEMMA AnswerMoves ==
  ASSUME SubmitInv, NEW id \in DOMAIN batches
  PROVE  LET b == batches[id] IN
         /\ Acknowledge(id) =>
              b.stage = "waiting" /\ TurnsInto(id, "answered", b.fate, b.told, "accepted")
         /\ ReportStatus(id) =>
              b.stage = "waiting" /\ TurnsInto(id, "waiting", b.fate, b.fate, b.answer)
         /\ HearStatus(id) =>
              /\ b.stage = "waiting"
              /\ \/ b.told = "committed" /\ TurnsInto(id, "pausing", b.fate, "none", b.answer)
                 \/ TurnsInto(id, "answered", b.fate, "none", "error")
         /\ PauseEnds(id) =>
              b.stage = "pausing" /\ TurnsInto(id, "answered", b.fate, b.told, "ok")
         /\ LoseReply(id) =>
              b.stage # "answered" /\ TurnsInto(id, "answered", b.fate, "none", "error")
<1> DEFINE b == batches[id]
<1>1. b \in Submitted /\ Truthful(b)
  BY BatchIs
<1> USE DEF Submitted, Stages, At
<1>2. ASSUME Acknowledge(id)
      PROVE  b.stage = "waiting" /\ TurnsInto(id, "answered", b.fate, b.told, "accepted")
  <2> DEFINE e == [b EXCEPT !.stage = "answered", !.answer = "accepted"]
  <2>1. Update(id, e)
    BY <1>2 DEF Acknowledge
  <2>2. /\ e \in Submitted /\ e.txns = b.txns
        /\ e.stage = "answered" /\ e.fate = b.fate /\ e.told = b.told /\ e.answer = "accepted"
    BY <1>1
  <2> HIDE DEF e
  <2> QED
    BY <1>2, <2>1, <2>2 DEF Acknowledge, TurnsInto
<1>3. ASSUME ReportStatus(id)
      PROVE  b.stage = "waiting" /\ TurnsInto(id, "waiting", b.fate, b.fate, b.answer)
  <2> DEFINE e == [b EXCEPT !.told = b.fate]
  <2>1. Update(id, e) /\ b.stage = "waiting"
    BY <1>3 DEF ReportStatus
  <2>2. /\ e \in Submitted /\ e.txns = b.txns
        /\ e.stage = "waiting" /\ e.fate = b.fate /\ e.told = b.fate /\ e.answer = b.answer
    BY <1>1, <2>1 DEF Truthful, TakenIn
  <2> HIDE DEF e
  <2> QED
    BY <2>1, <2>2 DEF TurnsInto
<1>4. ASSUME HearStatus(id)
      PROVE  /\ b.stage = "waiting"
             /\ \/ b.told = "committed" /\ TurnsInto(id, "pausing", b.fate, "none", b.answer)
                \/ TurnsInto(id, "answered", b.fate, "none", "error")
  <2>1. CASE b.told = "committed"
    <3> DEFINE e == [b EXCEPT !.stage = "pausing", !.told = "none"]
    <3>1. Update(id, e) /\ b.stage = "waiting"
      BY <1>4, <2>1 DEF HearStatus
    <3>2. /\ e \in Submitted /\ e.txns = b.txns
          /\ e.stage = "pausing" /\ e.fate = b.fate /\ e.told = "none" /\ e.answer = b.answer
      BY <1>1
    <3> HIDE DEF e
    <3> QED
      BY <2>1, <3>1, <3>2 DEF TurnsInto
  <2>2. CASE b.told # "committed"
    <3> DEFINE e == [b EXCEPT !.stage = "answered", !.told = "none", !.answer = "error"]
    <3>1. Update(id, e) /\ b.stage = "waiting"
      BY <1>4, <2>2 DEF HearStatus
    <3>2. /\ e \in Submitted /\ e.txns = b.txns
          /\ e.stage = "answered" /\ e.fate = b.fate /\ e.told = "none" /\ e.answer = "error"
      BY <1>1
    <3> HIDE DEF e
    <3> QED
      BY <2>2, <3>1, <3>2 DEF TurnsInto
  <2> QED
    BY <2>1, <2>2
<1>5. ASSUME PauseEnds(id)
      PROVE  b.stage = "pausing" /\ TurnsInto(id, "answered", b.fate, b.told, "ok")
  <2> DEFINE e == [b EXCEPT !.stage = "answered", !.answer = "ok"]
  <2>1. Update(id, e)
    BY <1>5 DEF PauseEnds
  <2>2. /\ e \in Submitted /\ e.txns = b.txns
        /\ e.stage = "answered" /\ e.fate = b.fate /\ e.told = b.told /\ e.answer = "ok"
    BY <1>1
  <2> HIDE DEF e
  <2> QED
    BY <1>5, <2>1, <2>2 DEF PauseEnds, TurnsInto
<1>6. ASSUME LoseReply(id)
      PROVE  b.stage # "answered" /\ TurnsInto(id, "answered", b.fate, "none", "error")
  <2> DEFINE e == [b EXCEPT !.stage = "answered", !.told = "none", !.answer = "error"]
  <2>1. Update(id, e)
    BY <1>6 DEF LoseReply
  <2>2. /\ e \in Submitted /\ e.txns = b.txns
        /\ e.stage = "answered" /\ e.fate = b.fate /\ e.told = "none" /\ e.answer = "error"
    BY <1>1
  <2> HIDE DEF e
  <2> QED
    BY <1>6, <2>1, <2>2 DEF LoseReply, TurnsInto
<1> QED
  BY <1>2, <1>3, <1>4, <1>5, <1>6

(* A truthful move keeps the invariant.                                    *)
LEMMA BatchMoves ==
  ASSUME SubmitInv, NEW id \in DOMAIN batches, NEW s, NEW f, NEW t, NEW a,
         TurnsInto(id, s, f, t, a),
         s = "sent" => f = "none",
         f = "none" => s = "sent" \/ a = "error",
         s = "waiting" => f \in TakenIn,
         s = "pausing" \/ t = "committed" => f = "committed",
         s # "answered" => a = "none"
  PROVE  SubmitInv'
<1>1. id \in BatchIds
  BY BatchIs
<1>2. PICK b \in Submitted : /\ Update(id, b)
                             /\ b.stage = s /\ b.fate = f /\ b.told = t /\ b.answer = a
  BY DEF TurnsInto
<1>3. Truthful(b)
  BY <1>2 DEF Truthful
<1> QED
  BY <1>1, <1>2, <1>3, UpdateKeeps

-----------------------------------------------------------------------------
(* The first state, and every step of BatchSubmit.                         *)
LEMMA SubmitInit == InitBatches => SubmitInv
BY DEF InitBatches, NoBatches, SubmitInv, BatchesOK, ToldTrue

LEMMA StepKeeps ==
  ASSUME SubmitInv, BatchStep
  PROVE  SubmitInv'
<1>1. PICK id \in BatchIds :
        \/ \E txns \in Content, wait \in BOOLEAN : Submit(id, txns, wait)
        \/ Accept(id) \/ Commit(id) \/ Invalidate(id) \/ Answering(id)
  BY DEF BatchStep
<1>2. ASSUME NEW txns \in Content, NEW wait \in BOOLEAN, Submit(id, txns, wait)
      PROVE  SubmitInv'
  <2> DEFINE b == [txns |-> txns, wait |-> wait, stage |-> "sent", fate |-> "none",
                   told |-> "none", answer |-> "none"]
  <2>1. b \in Submitted /\ Truthful(b) /\ Update(id, b)
    BY <1>2 DEF Submit, Submitted, Stages, Truthful
  <2> QED
    BY <2>1, UpdateKeeps
<1>3. \/ \E txns \in Content, wait \in BOOLEAN : Submit(id, txns, wait)
      \/ id \in DOMAIN batches
  BY <1>1 DEF Accept, Commit, Invalidate, Answering, Refuse, Acknowledge, ReportStatus, HearStatus,
     PauseEnds, LoseReply, At, Open
<1>4. ASSUME id \in DOMAIN batches
      PROVE  /\ batches[id].stage \in Stages /\ Truthful(batches[id])
             /\ batches[id].fate \in {"none", "refused"} \cup TakenIn
             /\ batches[id].told \in {"none"} \cup TakenIn
             /\ batches[id].answer \in {"none", "accepted", "ok", "error"}
  BY <1>4, BatchIs DEF Submitted, TakenIn
<1> USE DEF Stages, TakenIn, Truthful
<1>5. CASE id \in DOMAIN batches /\ Accept(id)
  BY <1>4, <1>5, FateMoves, BatchMoves
<1>6. CASE id \in DOMAIN batches /\ Refuse(id)
  BY <1>4, <1>6, FateMoves, BatchMoves
<1>7. CASE id \in DOMAIN batches /\ Commit(id)
  BY <1>4, <1>7, FateMoves, BatchMoves
<1>8. CASE id \in DOMAIN batches /\ Invalidate(id)
  BY <1>4, <1>8, FateMoves, BatchMoves
<1>9. CASE id \in DOMAIN batches /\ Acknowledge(id)
  BY <1>4, <1>9, AnswerMoves, BatchMoves
<1>10. CASE id \in DOMAIN batches /\ ReportStatus(id)
  BY <1>4, <1>10, AnswerMoves, BatchMoves
<1>11. CASE id \in DOMAIN batches /\ HearStatus(id)
  BY <1>4, <1>11, AnswerMoves, BatchMoves
<1>12. CASE id \in DOMAIN batches /\ PauseEnds(id)
  BY <1>4, <1>12, AnswerMoves, BatchMoves
<1>13. CASE id \in DOMAIN batches /\ LoseReply(id)
  BY <1>4, <1>13, AnswerMoves, BatchMoves
<1> QED
  BY <1>1, <1>2, <1>3, <1>5, <1>6, <1>7, <1>8, <1>9, <1>10, <1>11, <1>12, <1>13 DEF Answering

LEMMA StutterKeeps == ASSUME SubmitInv, UNCHANGED batches PROVE SubmitInv'
BY DEF SubmitInv, BatchesOK, ToldTrue

(* The invariant of a submission: what is told, or is on its way, is true, *)
(* and the pause comes after a commit.                                     *)
THEOREM SubmitInvariant == SubmitSpec => []SubmitInv
<1>1. InitBatches => SubmitInv
  BY SubmitInit
<1>2. SubmitInv /\ [BatchStep]_batches => SubmitInv'
  BY StepKeeps, StutterKeeps
<1> QED
  BY <1>1, <1>2, PTL DEF SubmitSpec

-----------------------------------------------------------------------------
(* Every step of a submission is a move, and only Commit and Invalidate    *)
(* decide it.                                                              *)
LEMMA CarriedMoves ==
  ASSUME SubmitInv, NEW b \in DOMAIN batches, Carried(b)
  PROVE  \E s, f, t, a :
           /\ TurnsInto(b, s, f, t, a)
           /\ f = batches[b].fate \/ (batches[b].fate = "none" /\ f \in {"pending", "refused"})
<1>1. CASE Accept(b)
  BY <1>1, FateMoves
<1>2. CASE Refuse(b)
  BY <1>2, FateMoves
<1>3. CASE Acknowledge(b) \/ ReportStatus(b) \/ HearStatus(b) \/ PauseEnds(b) \/ LoseReply(b)
  BY <1>3, AnswerMoves
<1> QED
  BY <1>1, <1>2, <1>3 DEF Carried, Answering

(* Whatever happens to a batch, its transactions stay what they were, and  *)
(* only a commit puts it into the chain.                                   *)
LEMMA TransactionsStay ==
  ASSUME SubmitInv, NEW b \in DOMAIN batches, Carried(b) \/ Commit(b) \/ Invalidate(b)
  PROVE  /\ DOMAIN batches' = DOMAIN batches
         /\ \A c \in DOMAIN batches : c # b => batches'[c] = batches[c]
         /\ batches'[b].txns = batches[b].txns
         /\ Commit(b) => batches[b].fate = "pending" /\ batches'[b].fate = "committed"
         /\ ~Commit(b) => (batches'[b].fate = "committed" <=> batches[b].fate = "committed")
<1>1. ASSUME NEW s, NEW f, NEW t, NEW a, TurnsInto(b, s, f, t, a)
      PROVE  /\ DOMAIN batches' = DOMAIN batches
             /\ \A c \in DOMAIN batches : c # b => batches'[c] = batches[c]
             /\ batches'[b].txns = batches[b].txns /\ batches'[b].fate = f
  BY <1>1 DEF Update, TurnsInto
<1>2. CASE Commit(b)
  BY <1>1, <1>2, FateMoves
<1>3. CASE Invalidate(b) /\ ~Commit(b)
  BY <1>1, <1>3, FateMoves
<1>4. CASE Carried(b) /\ ~Commit(b)
  <2>1. PICK s, f, t, a :
          /\ TurnsInto(b, s, f, t, a)
          /\ f = batches[b].fate \/ (batches[b].fate = "none" /\ f \in {"pending", "refused"})
    BY <1>4, CarriedMoves
  <2> QED
    BY <1>1, <1>4, <2>1
<1> QED
  BY <1>2, <1>3, <1>4

(* Nothing else that happens to a batch commits it.                        *)
LEMMA CommitsOnly ==
  ASSUME SubmitInv, NEW b \in DOMAIN batches, Commit(b), Carried(b) \/ Invalidate(b)
  PROVE  FALSE
<1>1. ASSUME NEW s, NEW f, NEW t, NEW a, TurnsInto(b, s, f, t, a)
      PROVE  batches'[b].fate = f
  BY <1>1 DEF Update, TurnsInto
<1>2. batches[b].fate = "pending" /\ batches'[b].fate = "committed"
  BY <1>1, FateMoves
<1>3. ~Invalidate(b)
  BY <1>1, <1>2, FateMoves
<1>4. PICK s, f, t, a :
        /\ TurnsInto(b, s, f, t, a)
        /\ f = batches[b].fate \/ (batches[b].fate = "none" /\ f \in {"pending", "refused"})
  BY <1>3, CarriedMoves
<1> QED
  BY <1>1, <1>2, <1>4

-----------------------------------------------------------------------------
(* Refinement. *)

LEMMA InitRefines == InitBatches => Promise!Init
BY DEF InitBatches, NoBatches, Promise!Init, Fate, Answer

LEMMA StutterRefines == UNCHANGED batches => UNCHANGED Promise!submission
BY DEF Promise!submission, Fate, Answer

(* A step that changes one batch, as Submission sees it.                   *)
LEMMA MoveRefines ==
  ASSUME NEW id \in BatchIds, NEW b, Update(id, b),
         \/ b.fate = Fate(id) /\ b.answer = Answer(id)
         \/ Fate(id) = "none" /\ b.fate = "pending" /\ b.answer = Answer(id)
         \/ Fate(id) = "none" /\ b.fate = "refused" /\ Answer(id) \in {"none", "error"}
              /\ b.answer = "error"
         \/ Fate(id) = "pending" /\ b.fate \in {"committed", "invalid"} /\ b.answer = Answer(id)
         \/ /\ Answer(id) = "none" /\ b.fate = Fate(id)
            /\ \/ b.answer = "accepted" /\ Fate(id) \in TakenIn
               \/ b.answer = "ok" /\ Fate(id) = "committed"
               \/ b.answer = "error"
  PROVE  [Promise!Next]_(Promise!submission)
<1> DEFINE fates == [i \in BatchIds |-> Fate(i)]
           answers == [i \in BatchIds |-> Answer(i)]
<1>1. /\ fates[id] = Fate(id) /\ answers[id] = Answer(id)
      /\ fates = [fates EXCEPT ![id] = Fate(id)] /\ answers = [answers EXCEPT ![id] = Answer(id)]
  OBVIOUS
<1>2. fates' = [fates EXCEPT ![id] = b.fate] /\ answers' = [answers EXCEPT ![id] = b.answer]
  BY UpdateSeen
<1>3. fates' = fates /\ answers' = answers => UNCHANGED Promise!submission
  BY DEF Promise!submission
<1>4. /\ Promise!Accept(id) <=>
           /\ fates[id] = "none"
           /\ fates' = [fates EXCEPT ![id] = "pending"]
           /\ answers' = answers
      /\ Promise!Refuse(id) <=>
           /\ fates[id] = "none" /\ answers[id] \in {"none", "error"}
           /\ fates' = [fates EXCEPT ![id] = "refused"]
           /\ answers' = [answers EXCEPT ![id] = "error"]
      /\ Promise!Decide(id) <=>
           /\ fates[id] = "pending"
           /\ \E f \in {"committed", "invalid"} : fates' = [fates EXCEPT ![id] = f]
           /\ answers' = answers
      /\ Promise!AnswerAccepted(id) <=>
           /\ answers[id] = "none" /\ fates[id] \in {"pending", "committed", "invalid"}
           /\ answers' = [answers EXCEPT ![id] = "accepted"]
           /\ fates' = fates
      /\ Promise!AnswerOk(id) <=>
           /\ answers[id] = "none" /\ fates[id] = "committed"
           /\ answers' = [answers EXCEPT ![id] = "ok"]
           /\ fates' = fates
      /\ Promise!AnswerError(id) <=>
           /\ answers[id] = "none"
           /\ answers' = [answers EXCEPT ![id] = "error"]
           /\ fates' = fates
  BY Zenon DEF Promise!Accept, Promise!Refuse, Promise!Decide, Promise!AnswerAccepted,
     Promise!AnswerOk, Promise!AnswerError
<1> HIDE DEF fates, answers
<1>5. \/ fates' = fates /\ answers' = answers
      \/ Promise!Accept(id) \/ Promise!Refuse(id) \/ Promise!Decide(id)
      \/ Promise!AnswerAccepted(id) \/ Promise!AnswerOk(id) \/ Promise!AnswerError(id)
  BY <1>1, <1>2, <1>4 DEF TakenIn
<1> QED
  BY <1>3, <1>5 DEF Promise!Next

LEMMA StepRefines ==
  ASSUME SubmitInv, BatchStep
  PROVE  [Promise!Next]_(Promise!submission)
<1>1. PICK id \in BatchIds :
        \/ \E txns \in Content, wait \in BOOLEAN : Submit(id, txns, wait)
        \/ Accept(id) \/ Commit(id) \/ Invalidate(id) \/ Answering(id)
  BY DEF BatchStep
<1>2. CASE \E txns \in Content, wait \in BOOLEAN : Submit(id, txns, wait)
  <2>1. PICK txns \in Content, wait \in BOOLEAN : Submit(id, txns, wait)
    BY <1>2
  <2> DEFINE b == [txns |-> txns, wait |-> wait, stage |-> "sent", fate |-> "none",
                   told |-> "none", answer |-> "none"]
  <2>2. /\ Fate(id) = "none" /\ Answer(id) = "none" /\ Update(id, b)
        /\ b.fate = "none" /\ b.answer = "none"
    BY <2>1 DEF Submit, Fate, Answer
  <2> QED
    BY <2>2, MoveRefines
<1>3. CASE ~\E txns \in Content, wait \in BOOLEAN : Submit(id, txns, wait)
  <2>1. id \in DOMAIN batches
    BY <1>1, <1>3 DEF Accept, Commit, Invalidate, Answering, Refuse, Acknowledge, ReportStatus,
       HearStatus, PauseEnds, LoseReply, At, Open
  <2>2. Fate(id) = batches[id].fate /\ Answer(id) = batches[id].answer /\ Truthful(batches[id])
    BY <2>1, BatchIs DEF Fate, Answer
  <2>3. ASSUME NEW s, NEW f, NEW t, NEW a, TurnsInto(id, s, f, t, a)
        PROVE  \E b : Update(id, b) /\ b.fate = f /\ b.answer = a
    BY <2>3 DEF TurnsInto
  <2> USE DEF Truthful, TakenIn
  <2>4. CASE Accept(id)
    BY <2>1, <2>2, <2>3, <2>4, FateMoves, MoveRefines
  <2>5. CASE Refuse(id)
    BY <2>1, <2>2, <2>3, <2>5, FateMoves, MoveRefines
  <2>6. CASE Commit(id)
    BY <2>1, <2>2, <2>3, <2>6, FateMoves, MoveRefines
  <2>7. CASE Invalidate(id)
    BY <2>1, <2>2, <2>3, <2>7, FateMoves, MoveRefines
  <2>8. CASE Acknowledge(id)
    BY <2>1, <2>2, <2>3, <2>8, AnswerMoves, MoveRefines
  <2>9. CASE ReportStatus(id)
    BY <2>1, <2>2, <2>3, <2>9, AnswerMoves, MoveRefines
  <2>10. CASE HearStatus(id)
    BY <2>1, <2>2, <2>3, <2>10, AnswerMoves, MoveRefines
  <2>11. CASE PauseEnds(id)
    BY <2>1, <2>2, <2>3, <2>11, AnswerMoves, MoveRefines
  <2>12. CASE LoseReply(id)
    BY <2>1, <2>2, <2>3, <2>12, AnswerMoves, MoveRefines
  <2> QED
    BY <1>1, <1>3, <2>4, <2>5, <2>6, <2>7, <2>8, <2>9, <2>10, <2>11, <2>12 DEF Answering
<1> QED
  BY <1>2, <1>3

(* Whatever is submitted, refused, decided late, lost or never decided,    *)
(* the submitter is told once, and of a commit only when there is one:     *)
(* submit in server/blockchain/index.js.                                   *)
THEOREM SubmitPromise == SubmitSpec => PromiseKept
<1>1. InitBatches => Promise!Init
  BY InitRefines
<1>2. SubmitInv /\ [BatchStep]_batches => [Promise!Next]_(Promise!submission)
  BY StepRefines, StutterRefines
<1> QED
  BY <1>1, <1>2, SubmitInvariant, PTL DEF SubmitSpec, PromiseKept, Promise!Spec
=============================================================================
