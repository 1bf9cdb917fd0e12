--------------------------- MODULE RecordHandlers ---------------------------
(***************************************************************************)
(* The handlers for participants, tables, records and reported values      *)
(* (processor/src/handler.rs).  p is the signer of the transaction, ts the *)
(* payload's timestamp.  A handler that returns an error leaves no trace:  *)
(* the validator discards the context, so each action is the whole         *)
(* handler, enabled exactly when it returns Ok.                            *)
(***************************************************************************)
EXTENDS LedgerState

CreateParticipant(p) ==
  /\ ~Contains(participants, p)
  /\ participants' = Put(participants, p, NewParticipant)
  /\ UNCHANGED <<tables, records, properties, pages, proposals, exchanges>>

(* The check that the signer is a participant is commented out.            *)
CreateTable(t, schema) ==
  /\ ~Contains(tables, t)
  /\ tables' = Put(tables, t, schema)
  /\ UNCHANGED <<participants, records, properties, pages, proposals, exchanges>>

-----------------------------------------------------------------------------
(* Records. *)

\* `provided` maps the names of the initial values to their types.
FitsSchemaButDelayed(provided, schema) == \* mutant: `delayed` is not looked at
  /\ \A n \in DOMAIN schema : schema[n].required => n \in DOMAIN provided
  /\ \A n \in DOMAIN provided :
       n \in DOMAIN schema /\ provided[n] = schema[n].type

FitsSchemaUnrequired(provided, schema) == \* mutant: `required` is not looked at
  \A n \in DOMAIN provided :
    n \in DOMAIN schema /\ provided[n] = schema[n].type /\ ~schema[n].delayed

FitsSchema(provided, schema) ==
  /\ \A n \in DOMAIN schema : schema[n].required => n \in DOMAIN provided
  /\ \A n \in DOMAIN provided :
       /\ n \in DOMAIN schema
       /\ provided[n] = schema[n].type
       /\ ~schema[n].delayed

NewReporter(p, index) == [key |-> p, authorized |-> TRUE, index |-> index]

NewPropertyAtPageZero(p, schema) == \* mutant: the first page is numbered 0
  [reporters |-> <<NewReporter(p, 0)>>, currentPage |-> 0, wrapped |-> FALSE,
   fixed |-> schema.fixed, type |-> schema.type]

NewProperty(p, schema) ==
  [reporters |-> <<NewReporter(p, 0)>>, currentPage |-> 1, wrapped |-> FALSE,
   fixed |-> schema.fixed, type |-> schema.type]

AnybodyMayCreate(p, r, t) == \* mutant: the signer need not be registered
  ~Contains(records, r) /\ Contains(tables, t)

MayCreate(p, r, t) ==
  Contains(participants, p) /\ ~Contains(records, r) /\ Contains(tables, t)

CreateRecord(p, r, t, provided, ts) ==
  /\ MayCreate(p, r, t)
  /\ FitsSchema(provided, tables[t])
  /\ records' = Put(records, r, [table |-> t, owners |-> <<p>>,
                                 custodians |-> <<p>>, final |-> FALSE])
  /\ properties' = PutAll(properties,
       [k \in {r} \X (DOMAIN tables[t]) |-> NewProperty(p, tables[t][k[2]])])
  /\ pages' = PutAll(pages,
       [k \in {r} \X (DOMAIN tables[t]) \X {1} |->
          IF k[2] \in DOMAIN provided
          THEN <<[timestamp |-> ts, reporterIndex |-> 0]>>
          ELSE <<>>])
  /\ UNCHANGED <<participants, tables, proposals, exchanges>>

FinalizeRecord(p, r) ==
  /\ Contains(records, r)
  /\ Owner(r) = p
  /\ Custodian(r) = p
  /\ ~records[r].final
  /\ records' = Put(records, r, [records[r] EXCEPT !.final = TRUE])
  /\ UNCHANGED <<participants, tables, properties, pages, proposals, exchanges>>

-----------------------------------------------------------------------------
(* Reported values. *)

Entitled(reporters, p) ==
  {i \in DOMAIN reporters : reporters[i].key = p /\ reporters[i].authorized}

FirstEntryIndex(reporters, p) == \* mutant: any entry of p will do
  LET first == CHOOSE i \in {i \in DOMAIN reporters : reporters[i].key = p} :
                 \A j \in DOMAIN reporters : reporters[j].key = p => i <= j
  IN  reporters[first].index

\* The index of the first authorized entry of p.
ReporterIndex(reporters, p) ==
  LET first == CHOOSE i \in Entitled(reporters, p) :
                 \A j \in Entitled(reporters, p) : i <= j
  IN  reporters[first].index

OpenEvenFinal(r) == Contains(records, r) \* mutant: `final` is not looked at

OpenToUpdates(r) == Contains(records, r) /\ ~records[r].final

CurrentPage(r, n) == <<r, n, properties[<<r, n>>].currentPage>>

MayReport(p, r, n, type) ==
  /\ Contains(properties, <<r, n>>)
  /\ Entitled(properties[<<r, n>>].reporters, p) # {}
  /\ ~properties[<<r, n>>].fixed
  /\ type = properties[<<r, n>>].type
  /\ Contains(pages, CurrentPage(r, n))

\* The page of the property, with the signer's value reported in it.
PageAfter(p, r, n, ts) ==
  Report(pages[CurrentPage(r, n)],
         [timestamp |-> ts,
          reporterIndex |-> ReporterIndex(properties[<<r, n>>].reporters, p)])

\* The property once its current page is full: it moves to the next one.
Turned(prop) ==
  LET next == NextPage(prop.currentPage)
  IN  [prop EXCEPT !.currentPage = next, !.wrapped = @ \/ next = 1]

\* `updates` maps the names of the updated properties to the values' types.
\* Each page is written with its value, then, where that fills it, the next
\* page is written empty: they are one and the same page if next = current.
UpdateProperties(p, r, updates, ts) ==
  LET filled == {n \in DOMAIN updates : Full(PageAfter(p, r, n, ts))}
      written == [k \in {CurrentPage(r, n) : n \in DOMAIN updates} |->
                    PageAfter(p, r, k[2], ts)]
      emptied == [k \in {<<r, n, NextPage(properties[<<r, n>>].currentPage)>> :
                           n \in filled} |-> <<>>]
  IN  /\ OpenToUpdates(r)
      /\ \A n \in DOMAIN updates : MayReport(p, r, n, updates[n])
      /\ pages' = PutAll(PutAll(pages, written), emptied)
      /\ properties' = PutAll(properties,
           [k \in {r} \X filled |-> Turned(properties[k])])
      /\ UNCHANGED <<participants, tables, records, proposals, exchanges>>

-----------------------------------------------------------------------------
(* Reporters. *)

Entries(reporters, q) == {i \in DOMAIN reporters : reporters[i].key = q}

\* Every entry of q is unauthorized in turn; one that already is, is an error.
MayRevoke(r, n, q) ==
  /\ Contains(properties, <<r, n>>)
  /\ Entries(properties[<<r, n>>].reporters, q) # {}
  /\ \A i \in Entries(properties[<<r, n>>].reporters, q) :
       properties[<<r, n>>].reporters[i].authorized

Removed(reporters, q) == \* mutant: the entries of q are dropped from the list
  LET OfOthers(reporter) == reporter.key # q IN SelectSeq(reporters, OfOthers)

Revoked(reporters, q) ==
  [i \in DOMAIN reporters |->
     [reporters[i] EXCEPT !.authorized = @ /\ reporters[i].key # q]]

RevokeReporter(p, r, q, names) ==
  /\ Contains(records, r)
  /\ Owner(r) = p
  /\ ~records[r].final
  /\ \A n \in names : MayRevoke(r, n, q)
  /\ properties' = PutAll(properties,
       [k \in {r} \X names |->
          [properties[k] EXCEPT !.reporters = Revoked(@, q)]])
  /\ UNCHANGED <<participants, tables, records, pages, proposals, exchanges>>
=============================================================================
