------------------------------ MODULE Queries ------------------------------
(***************************************************************************)
(* What the server reads of the database about records and their values    *)
(* (server/db/records.js).  The operators take the copy of the ledger they *)
(* are evaluated on: the documents that are valid in the current block.    *)
(***************************************************************************)
EXTENDS LedgerState

\* The pages of property n of record r.
PagesFor(copy, r, n) == {copy.pages[k] : k \in {q \in DOMAIN copy.pages : <<q[1], q[2]>> = <<r, n>>}}

ValuesOf(page) == {page[i] : i \in DOMAIN page}

\* findReportedValues
Reported(copy, r, n) == UNION {ValuesOf(page) : page \in PagesFor(copy, r, n)}

\* getCurrentValue: the first in the order of descending time.  Values of one
\* time are in no particular order, so that any of them may be the first.
CurrentValues(copy, r, n) ==
  {v \in Reported(copy, r, n) : \A w \in Reported(copy, r, n) : w.timestamp <= v.timestamp}

\* getReporter: whose name is shown beside a value
ReporterOf(copy, r, n, value) == copy.properties[<<r, n>>].reporters[value.reporterIndex + 1].key

\* findPropertyValues: the last value of a page
LastValues(copy, r, n) == {Latest(page) : page \in PagesFor(copy, r, n) \ {<<>>}}

-----------------------------------------------------------------------------
(* retrieveRecords *)

\* The query [], which retrieveRecordsQuery knows by its length.
Everything == EmptyStore

\* A value is identified with its timestamp.
\* findRecordId: for each property of the query, any value ever reported will do
MatchesQuery(copy, r, query) ==
  \/ query = Everything
  \/ \A n \in DOMAIN query : \E v \in Reported(copy, r, n) : v.timestamp = query[n]

Undeleted(copy, t) ==
  {r \in DOMAIN copy.records : copy.records[r].table = t /\ ~copy.records[r].final}

(* Of the records of table t that are not deleted, those that match; each  *)
(* of the others leaves an empty object in the result.                     *)
RetrievedRecords(copy, t, query) ==
  {IF MatchesQuery(copy, r, query) THEN r ELSE NoRecord : r \in Undeleted(copy, t)}

-----------------------------------------------------------------------------
Ledger == [records |-> records, properties |-> properties, pages |-> pages]

(* The two routes that serve one value of a property are of one mind about *)
(* its time: whichever of the newest values fetchProperty comes upon, what *)
(* retrieveRecords finds at the end of the page is as new.  They serve     *)
(* different values only where several reporters reported at that time,    *)
(* and then retrieveRecords takes the one who was authorized last.  Both   *)
(* values are shown with the name of a registered participant, however     *)
(* reports, revocations and authorizations interleave and whatever their   *)
(* timestamps.  Two reports of one reporter at one time are one value here.*)
ServedValuesConcur ==
  \A k \in DOMAIN properties :
    LET fetched == CurrentValues(Ledger, k[1], k[2])
        retrieved == LastValues(Ledger, k[1], k[2])
    IN  /\ fetched = {} <=> retrieved = {}
        /\ \A v \in fetched, w \in retrieved :
             /\ v.timestamp = w.timestamp
             /\ v # w => v.reporterIndex < w.reporterIndex
        /\ \A v \in fetched \cup retrieved :
             ReporterOf(Ledger, k[1], k[2], v) \in DOMAIN participants
=============================================================================
