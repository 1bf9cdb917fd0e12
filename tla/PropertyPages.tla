---------------------------- MODULE PropertyPages ----------------------------
(***************************************************************************)
(* The history of a property's reported values is kept in pages of at most *)
(* PROPERTY_PAGE_MAX_LENGTH values.  These operators are the page          *)
(* arithmetic of _update_properties (processor/src/handler.rs).            *)
(***************************************************************************)
EXTENDS Integers, Sequences, FiniteSets

CONSTANT PROPERTY_PAGE_MAX_LENGTH

ASSUME PageMaxAssumption ==
  PROPERTY_PAGE_MAX_LENGTH \in Nat /\ PROPERTY_PAGE_MAX_LENGTH > 1

(* The sort key of a page: (timestamp, reporter_index), lexicographic.     *)
NotLater(v, w) ==
  \/ v.timestamp < w.timestamp
  \/ v.timestamp = w.timestamp /\ v.reporterIndex <= w.reporterIndex

Sorted(page) == \A i, j \in DOMAIN page : i <= j => NotLater(page[i], page[j])

ReportLast(page, value) == Append(page, value) \* mutant: the page is not sorted

(* push, then a stable sort: in a sorted page the new value goes after     *)
(* every value that is not later than it.                                  *)
Report(page, value) ==
  LET before == Cardinality({i \in DOMAIN page : NotLater(page[i], value)})
  IN  SubSeq(page, 1, before) \o <<value>> \o SubSeq(page, before + 1, Len(page))

Full(page) == Len(page) >= PROPERTY_PAGE_MAX_LENGTH

(* The page that follows page number k.  The comparison is with the length *)
(* of a page, and the branch that restarts at 1 is the one taken while k   *)
(* is still small.                                                         *)
NextPage(k) == IF k + 1 <= PROPERTY_PAGE_MAX_LENGTH THEN 1 ELSE k + 1
=============================================================================
