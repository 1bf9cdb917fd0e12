----------------------------- MODULE MCRequests -----------------------------
(***************************************************************************)
(* A bounded instance of RecordRequests: a table with a required and an    *)
(* optional property, two records of it, and two requests.                 *)
(***************************************************************************)
EXTENDS RecordRequests, TLC

CONSTANTS p1, p2, t1, t2, r1, r2, r3, n1, n2, n3, o1

Plain == [type |-> "NUMBER", required |-> FALSE, fixed |-> FALSE, delayed |-> FALSE]
Required == [Plain EXCEPT !.required = TRUE]

MCParticipants == {p1, p2}
MCRecords == {r1, r2, r3}
MCSchema == (n1 :> Required) @@ (n2 :> Plain)
MCSchemas == {MCSchema}
MCCatalogue == [t \in {t1, t2} |-> MCSchema]
MCGiven ==
  (r1 :> [table |-> t1, owner |-> p1, timestamp |-> 1])
  @@ (r2 :> [table |-> t1, owner |-> p1, timestamp |-> 2])

Asking(kind, table, query, data) ==
  [kind |-> kind, signer |-> p1, table |-> table, record |-> NoRecord, query |-> query,
   data |-> data, receiver |-> Nobody, proposal |-> o1]
Creating(table, data) == [Asking("create", table, Everything, data) EXCEPT !.record = r3]
Offering(kind) == [Asking(kind, t1, Everything, {}) EXCEPT !.receiver = p2]

\* The second request may be about what the first one creates or reports,
\* or ask for the same record id, or delete or offer records meanwhile.
MCAsks == 3 :> {Asking("tables", t1, Everything, {t2}), Creating(t1, {n1, n2}),
                Asking("update", t1, Everything, {n1, n2}), Asking("delete", t1, n1 :> 1, {})}
       @@ 4 :> {Creating(t2, {n1, n3}), Creating(t1, {n1, n3}),
                Asking("update", t1, n1 :> 3, {n1}),
                Asking("delete", t1, Everything, {}), Asking("delete", t1, n1 :> 3, {})} \cup
               {Offering(kind) : kind \in CustodyKinds \cup AnswerKinds}

MCBatches == (DOMAIN MCAsks) \X (MCRecords \cup {NoRecord})
\* The record of the second request may be refused, or its answer lost; the
\* first request's batch for all records may be decided when it is given up.
MCRefusable == {<<4, r3>>}
MCLate == {<<3, NoRecord>>}
MCContent ==
  [ask : Ask, ts : DOMAIN MCAsks, record : MCRecords \cup {NoRecord},
   targets : SUBSET (MCRecords \cup {NoRecord}), names : SUBSET Properties]
=============================================================================
