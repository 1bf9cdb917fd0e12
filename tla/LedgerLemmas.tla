---------------------------- MODULE LedgerLemmas ----------------------------
(***************************************************************************)
(* Facts about the operators the processor's model is built from: stores,  *)
(* pages of reported values and lists of reporters.                        *)
(***************************************************************************)
EXTENDS ProposalHandlers, FiniteSetTheorems, SequenceTheorems,
        WellFoundedInduction, TLAPS

-----------------------------------------------------------------------------
(* Stores: what the StateDGC setters do to a container.                    *)

(* Putting a well-formed entry keeps a store well-formed (set_record and   *)
(* its siblings replace or add one entry).                                 *)
LEMMA PutStore ==
  ASSUME NEW store, NEW Keys, NEW Entry, IsStore(store, Keys, Entry),
         NEW key \in Keys, NEW entry \in Entry
  PROVE  /\ IsStore(Put(store, key, entry), Keys, Entry)
         /\ DOMAIN Put(store, key, entry) = DOMAIN store \cup {key}
         /\ Put(store, key, entry)[key] = entry
         /\ \A k \in DOMAIN store \ {key} : Put(store, key, entry)[k] = store[k]
  BY DEF IsStore, Put

(* The same for the handlers that set several properties or pages.         *)
LEMMA PutAllStore ==
  ASSUME NEW store, NEW Keys, NEW Entry, IsStore(store, Keys, Entry),
         NEW entries, IsStore(entries, Keys, Entry)
  PROVE  /\ IsStore(PutAll(store, entries), Keys, Entry)
         /\ DOMAIN PutAll(store, entries) = DOMAIN store \cup DOMAIN entries
         /\ \A k \in DOMAIN entries : PutAll(store, entries)[k] = entries[k]
         /\ \A k \in DOMAIN store \ DOMAIN entries :
              PutAll(store, entries)[k] = store[k]
  BY DEF IsStore, PutAll

-----------------------------------------------------------------------------
(* Lists of reporters. *)

(* A participant that is entitled has a first authorized entry, and its    *)
(* index is the one a report names (_update_properties).                   *)
LEMMA ReporterIndexEntitled ==
  ASSUME NEW reporters \in Seq(Reporter), NEW p, Entitled(reporters, p) # {}
  PROVE  \E i \in Entitled(reporters, p) :
           ReporterIndex(reporters, p) = reporters[i].index
<1> DEFINE T == Entitled(reporters, p)
<1>1. T \subseteq Nat
  BY DEF Entitled
<1>2. \E i \in T : \A j \in T : ~ (<<j, i>> \in OpToRel(<, Nat))
  BY <1>1, NatLessThanWellFounded, WFMin, Zenon
<1>3. PICK i \in T : \A j \in T : ~ (<<j, i>> \in OpToRel(<, Nat))
  BY <1>2
<1>4. \A j \in T : i <= j
  <2> SUFFICES ASSUME NEW j \in T PROVE i <= j
    OBVIOUS
  <2>1. i \in Nat /\ j \in Nat
    BY <1>1
  <2>2. ~ (<<j, i>> \in OpToRel(<, Nat))
    BY <1>3
  <2>3. ~ (j < i)
    BY <2>1, <2>2 DEF OpToRel
  <2> QED
    BY <2>1, <2>3
<1> HIDE DEF T
<1> DEFINE first == CHOOSE n \in T : \A j \in T : n <= j
<1>5. first \in T
  BY <1>4, Zenon
<1>6. ReporterIndex(reporters, p) = reporters[first].index
  BY DEF ReporterIndex, T
<1> QED
  BY <1>5, <1>6 DEF T

(* A list of reporters with one more entry.                                *)
LEMMA NewReporterType ==
  ASSUME NEW p \in Participants, NEW n \in Nat
  PROVE  NewReporter(p, n) \in Reporter
  BY DEF NewReporter, Reporter

(* Revoking keeps the list and who is where in it.                         *)
LEMMA RevokedEntries ==
  ASSUME NEW reporters \in Seq(Reporter), NEW q
  PROVE  /\ Revoked(reporters, q) \in Seq(Reporter)
         /\ Len(Revoked(reporters, q)) = Len(reporters)
         /\ \A i \in 1..Len(reporters) :
              /\ Revoked(reporters, q)[i].key = reporters[i].key
              /\ Revoked(reporters, q)[i].index = reporters[i].index
<1>1. DOMAIN reporters = 1..Len(reporters) /\ Len(reporters) \in Nat
  OBVIOUS
<1>2. \A i \in 1..Len(reporters) : reporters[i] \in Reporter
  OBVIOUS
<1>3. \A i \in 1..Len(reporters) :
        /\ Revoked(reporters, q)[i] \in Reporter
        /\ Revoked(reporters, q)[i].key = reporters[i].key
        /\ Revoked(reporters, q)[i].index = reporters[i].index
  BY <1>1, <1>2 DEF Revoked, Reporter
<1>4. Revoked(reporters, q) = [i \in 1..Len(reporters) |-> Revoked(reporters, q)[i]]
  BY <1>1 DEF Revoked
<1>5. Revoked(reporters, q) \in [1..Len(reporters) -> Reporter]
  BY <1>3, <1>4
<1>6. Revoked(reporters, q) \in Seq(Reporter)
  BY <1>1, <1>5, IsASeq
<1>7. Len(Revoked(reporters, q)) = Len(reporters)
  BY <1>1, <1>5, <1>6, LenProperties
<1> QED
  BY <1>3, <1>6, <1>7

(* Handing over keeps every entry in its place and adds at most one, whose *)
(* index is its position.                                                  *)
LEMMA HandedOverEntries ==
  ASSUME NEW reporters \in Seq(Reporter), NEW old, NEW new \in Participants
  PROVE  LET after == HandedOver(reporters, old, new)
         IN  /\ after \in Seq(Reporter)
             /\ Len(after) \in {Len(reporters), Len(reporters) + 1}
             /\ \A i \in 1..Len(reporters) :
                  after[i].key = reporters[i].key /\ after[i].index = reporters[i].index
             /\ Len(after) = Len(reporters) + 1 =>
                  after[Len(after)] = NewReporter(new, Len(reporters))
<1> DEFINE marked == [i \in DOMAIN reporters |->
             [reporters[i] EXCEPT !.authorized =
                reporters[i].key # old /\ (@ \/ reporters[i].key = new)]]
           entry == NewReporter(new, Len(reporters))
<1>1. DOMAIN reporters = 1..Len(reporters) /\ Len(reporters) \in Nat
  OBVIOUS
<1>2. \A i \in 1..Len(reporters) : reporters[i] \in Reporter
  OBVIOUS
<1>3. \A i \in 1..Len(reporters) :
        /\ marked[i] \in Reporter
        /\ marked[i].key = reporters[i].key
        /\ marked[i].index = reporters[i].index
  BY <1>1, <1>2 DEF Reporter
<1>4. marked \in [1..Len(reporters) -> Reporter]
  BY <1>1, <1>3
<1>5. marked \in Seq(Reporter)
  BY <1>1, <1>4, IsASeq
<1>6. Len(marked) = Len(reporters)
  BY <1>1, <1>4, <1>5, LenProperties
<1>7. entry \in Reporter
  BY <1>1, NewReporterType
<1>8. HandedOver(reporters, old, new) =
        IF new # old /\ Entries(reporters, new) # {} THEN marked
        ELSE Append(marked, entry)
  BY DEF HandedOver
<1> HIDE DEF marked, entry
<1>9. CASE new # old /\ Entries(reporters, new) # {}
  BY <1>1, <1>3, <1>5, <1>6, <1>8, <1>9
<1>10. CASE ~(new # old /\ Entries(reporters, new) # {})
  <2>1. HandedOver(reporters, old, new) = Append(marked, entry)
    BY <1>8, <1>10
  <2>2. /\ Append(marked, entry) \in Seq(Reporter)
        /\ Len(Append(marked, entry)) = Len(reporters) + 1
        /\ \A i \in 1..Len(reporters) : Append(marked, entry)[i] = marked[i]
        /\ Append(marked, entry)[Len(reporters) + 1] = entry
    BY <1>5, <1>6, <1>7, AppendProperties
  <2> QED
    BY <1>3, <2>1, <2>2 DEF entry
<1> QED
  BY <1>9, <1>10

-----------------------------------------------------------------------------
(* Pages. *)

(* Reporting a value yields a page with one value more, each of which was  *)
(* there before or is the new one (_update_properties).                    *)
LEMMA ReportPage ==
  ASSUME NEW V, NEW page \in Seq(V), NEW value \in V
  PROVE  /\ Report(page, value) \in Seq(V)
         /\ Len(Report(page, value)) = Len(page) + 1
         /\ \A i \in 1..(Len(page) + 1) :
              Report(page, value)[i] \in {page[j] : j \in 1..Len(page)} \cup {value}
<1> DEFINE S == {i \in DOMAIN page : NotLater(page[i], value)}
           n == Cardinality(S)
           front == SubSeq(page, 1, n)
           back == SubSeq(page, n + 1, Len(page))
           W == {page[j] : j \in 1..Len(page)} \cup {value}
<1>1. DOMAIN page = 1..Len(page) /\ Len(page) \in Nat
  OBVIOUS
<1>2. n \in 0..Len(page)
  <2>1. IsFiniteSet(1..Len(page)) /\ Cardinality(1..Len(page)) = Len(page)
    BY <1>1, FS_Interval
  <2>2. S \in SUBSET (1..Len(page))
    BY <1>1
  <2>3. IsFiniteSet(S) /\ n <= Len(page)
    BY <2>1, <2>2, FS_Subset
  <2> QED
    BY <1>1, <2>3, FS_CardinalityType
<1> HIDE DEF S, n
<1>3. \A i \in 1..Len(page) : page[i] \in W /\ page[i] \in V
  OBVIOUS
<1>10. value \in W
  OBVIOUS
<1> HIDE DEF W
<1>4. front \in Seq(W) /\ front \in Seq(V) /\ Len(front) = n
  BY <1>1, <1>2, <1>3, SubSeqProperties
<1>5. back \in Seq(W) /\ back \in Seq(V) /\ Len(back) = Len(page) - n
  <2>1. n + 1 \in Int /\ Len(page) \in Int
    BY <1>1, <1>2
  <2>2. \A i \in n + 1 .. Len(page) : page[i] \in W /\ page[i] \in V
    BY <1>1, <1>2, <1>3
  <2>3. back \in Seq(W)
    BY <2>1, <2>2, SubSeqProperties
  <2>4. back \in Seq(V)
    BY <2>1, <2>2, SubSeqProperties
  <2>5. Len(back) = IF n + 1 <= Len(page) THEN Len(page) - (n + 1) + 1 ELSE 0
    BY <2>1, <2>2, SubSeqProperties
  <2>6. Len(back) = Len(page) - n
    <3> DEFINE l == Len(page)
               b == Len(back)
    <3>1. b = IF n + 1 <= l THEN l - (n + 1) + 1 ELSE 0
      BY <2>5
    <3>2. l \in Nat /\ n \in 0..l
      BY <1>1, <1>2
    <3> HIDE DEF l, b
    <3>3. b = l - n
      BY <3>1, <3>2
    <3> QED
      BY <3>3 DEF l, b
  <2> QED
    BY <2>3, <2>4, <2>6
<1>6. <<value>> \in Seq(W) /\ <<value>> \in Seq(V) /\ Len(<<value>>) = 1
  BY <1>10
<1> HIDE DEF front, back
<1>7. /\ (front \o <<value>>) \o back \in Seq(W)
      /\ (front \o <<value>>) \o back \in Seq(V)
      /\ Len((front \o <<value>>) \o back) = Len(page) + 1
  BY <1>1, <1>2, <1>4, <1>5, <1>6
<1>8. Report(page, value) = (front \o <<value>>) \o back
  BY DEF Report, S, n, front, back
<1>9. \A i \in 1..(Len(page) + 1) : Report(page, value)[i] \in W
  BY <1>1, <1>7, <1>8
<1> QED
  BY <1>7, <1>8, <1>9 DEF W

(* The sort key is a total order on reported values.                       *)
LEMMA NotLaterOrder ==
  ASSUME NEW u \in ReportedValue, NEW v \in ReportedValue, NEW w \in ReportedValue
  PROVE  /\ NotLater(u, v) \/ NotLater(v, u)
         /\ NotLater(u, v) /\ NotLater(v, w) => NotLater(u, w)
<1>1. \A x \in ReportedValue : x.timestamp \in Nat /\ x.reporterIndex \in Nat
  BY TimestampsAssumption DEF ReportedValue
<1> QED
  BY <1>1 DEF NotLater

(* A set of positions that holds every position before each of its own is  *)
(* as long as it is large.                                                 *)
LEMMA InitialSegment ==
  ASSUME NEW L \in Nat, NEW S \in SUBSET (1..L),
         \A i \in S : \A j \in 1..L : j <= i => j \in S
  PROVE  Cardinality(S) \in 0..L /\ S = 1..Cardinality(S)
<1> DEFINE T == (1..L) \ S
<1>1. CASE T = {}
  <2>1. S = 1..L
    BY <1>1
  <2>2. Cardinality(S) = L
    BY <2>1, FS_Interval
  <2> QED
    BY <2>1, <2>2
<1>2. CASE T # {}
  <2>1. T \subseteq Nat
    OBVIOUS
  <2> HIDE DEF T
  <2>2. \E i \in T : \A j \in T : ~ (<<j, i>> \in OpToRel(<, Nat))
    BY <1>2, <2>1, NatLessThanWellFounded, WFMin, Zenon
  <2>3. PICK i \in T : \A j \in T : ~ (<<j, i>> \in OpToRel(<, Nat))
    BY <2>2
  <2>4. i \in 1..L /\ i \notin S
    BY DEF T
  <2>5. \A j \in 1..(i - 1) : j \in S
    <3> SUFFICES ASSUME NEW j \in 1..(i - 1), j \notin S PROVE FALSE
      OBVIOUS
    <3>1. j \in T /\ j < i /\ j \in Nat /\ i \in Nat
      BY <2>4 DEF T
    <3> QED
      BY <2>3, <3>1 DEF OpToRel
  <2>6. S = 1..(i - 1)
    <3>1. ASSUME NEW j \in S PROVE j \in 1..(i - 1)
      <4>1. j \in 1..L /\ (i <= j => i \in S)
        BY <2>4
      <4> QED
        BY <2>4, <4>1
    <3>2. S \subseteq 1..(i - 1)
      BY <3>1
    <3>3. 1..(i - 1) \subseteq S
      BY <2>5
    <3> QED
      BY <3>2, <3>3
  <2>7. Cardinality(S) = i - 1
    BY <2>4, <2>6, FS_Interval
  <2> QED
    BY <2>4, <2>6, <2>7
<1> QED
  BY <1>1, <1>2

(* The new value goes after as many values as are not later than it, and   *)
(* the values keep their order.                                            *)
LEMMA ReportEntries ==
  ASSUME NEW page \in Seq(ReportedValue), NEW value \in ReportedValue
  PROVE  LET n == Cardinality({i \in DOMAIN page : NotLater(page[i], value)})
         IN  /\ n \in 0..Len(page)
             /\ \A i \in 1..(Len(page) + 1) :
                  Report(page, value)[i] = IF i <= n THEN page[i]
                                           ELSE IF i = n + 1 THEN value ELSE page[i - 1]
<1> DEFINE S == {i \in DOMAIN page : NotLater(page[i], value)}
           L == Len(page)
           n == Cardinality(S)
           front == SubSeq(page, 1, n)
           back == SubSeq(page, n + 1, L)
<1>1. DOMAIN page = 1..L /\ L \in Nat
  OBVIOUS
<1>4. n \in 0..L
  <2>1. IsFiniteSet(1..L) /\ Cardinality(1..L) = L
    BY <1>1, FS_Interval
  <2>2. S \in SUBSET (1..L)
    BY <1>1
  <2> HIDE DEF S, L
  <2>3. IsFiniteSet(S) /\ n <= L
    BY <2>1, <2>2, FS_Subset
  <2> QED
    BY <1>1, <2>3, FS_CardinalityType
<1>6. Report(page, value) = front \o <<value>> \o back
  BY DEF Report
<1> HIDE DEF n, S
<1>7. /\ front \in Seq(ReportedValue) /\ Len(front) = n
      /\ \A i \in 1..n : front[i] = page[i]
  BY <1>1, <1>4
<1>8. /\ back \in Seq(ReportedValue) /\ Len(back) = L - n
      /\ \A i \in 1..(L - n) : back[i] = page[n + i]
  <2>1. n + 1 \in Int /\ L \in Int /\ n \in Nat /\ n <= L
    BY <1>1, <1>4
  <2>2. \A i \in n + 1 .. L : page[i] \in ReportedValue
    BY <1>1, <1>4
  <2>3. /\ back \in Seq(ReportedValue)
        /\ Len(back) = IF n + 1 <= L THEN L - (n + 1) + 1 ELSE 0
        /\ \A i \in 1 .. L - (n + 1) + 1 : back[i] = page[(n + 1) + i - 1]
    BY <2>1, <2>2, SubSeqProperties
  <2> HIDE DEF back, L
  <2>4. Len(back) = L - n
    BY <2>1, <2>3
  <2>5. ASSUME NEW i \in 1..(L - n) PROVE back[i] = page[n + i]
    <3>1. i \in 1 .. L - (n + 1) + 1 /\ (n + 1) + i - 1 = n + i
      BY <2>1
    <3> QED
      BY <2>3, <3>1
  <2> QED
    BY <2>3, <2>4, <2>5
<1> HIDE DEF front, back
<1>9. \A i \in 1..(L + 1) :
        (front \o <<value>> \o back)[i] =
           IF i <= n THEN front[i] ELSE IF i = n + 1 THEN value ELSE back[i - n - 1]
  BY <1>1, <1>4, <1>7, <1>8
<1>10. \A i \in 1..(L + 1) :
         Report(page, value)[i] = IF i <= n THEN page[i]
                                  ELSE IF i = n + 1 THEN value ELSE page[i - 1]
  <2> SUFFICES ASSUME NEW i \in 1..(L + 1)
               PROVE  Report(page, value)[i] = IF i <= n THEN page[i]
                          ELSE IF i = n + 1 THEN value ELSE page[i - 1]
    OBVIOUS
  <2>1. i <= n => front[i] = page[i]
    BY <1>1, <1>4, <1>7
  <2>2. i > n + 1 => back[i - n - 1] = page[i - 1]
    <3>1. i > n + 1 => i - n - 1 \in 1..(L - n) /\ n + (i - n - 1) = i - 1
      BY <1>1, <1>4
    <3> QED
      BY <1>8, <3>1
  <2>3. i \in Int /\ n \in Int
    BY <1>1, <1>4
  <2>4. Report(page, value)[i] =
          IF i <= n THEN front[i] ELSE IF i = n + 1 THEN value ELSE back[i - n - 1]
    BY <1>6, <1>9
  <2> DEFINE found == Report(page, value)[i]
  <2> HIDE DEF L, found
  <2>5. CASE i <= n
    BY <2>1, <2>4, <2>5
  <2>6. CASE i = n + 1
    BY <2>3, <2>4, <2>6
  <2>7. CASE i > n + 1
    BY <2>2, <2>3, <2>4, <2>7
  <2> QED
    BY <2>3, <2>5, <2>6, <2>7
<1> QED
  BY <1>4, <1>10 DEF n, S

(* A page has the values it had, and the one that was reported.            *)
LEMMA ReportValues ==
  ASSUME NEW page \in Seq(ReportedValue), NEW value \in ReportedValue
  PROVE  \A v : (\E i \in DOMAIN Report(page, value) : Report(page, value)[i] = v)
                   <=> (v = value \/ \E i \in DOMAIN page : page[i] = v)
<1> SUFFICES ASSUME NEW v
             PROVE  (\E i \in DOMAIN Report(page, value) : Report(page, value)[i] = v)
                      <=> (v = value \/ \E i \in DOMAIN page : page[i] = v)
  OBVIOUS
<1> DEFINE L == Len(page)
           after == Report(page, value)
<1>1. PICK n \in 0..L : \A i \in 1..(L + 1) :
        after[i] = IF i <= n THEN page[i] ELSE IF i = n + 1 THEN value ELSE page[i - 1]
  BY ReportEntries
<1>2. after \in Seq(ReportedValue) /\ Len(after) = L + 1
  BY ReportPage
<1>3. L \in Nat /\ DOMAIN page = 1..L
  OBVIOUS
<1> HIDE DEF after
<1>4. DOMAIN after = 1..(L + 1)
  BY <1>2
<1> HIDE DEF L
<1>5. ASSUME NEW i \in 1..(L + 1)
      PROVE  after[i] = value \/ \E j \in 1..L : after[i] = page[j]
  <2>1. CASE i <= n
    BY <1>1, <1>3, <2>1
  <2>2. CASE i = n + 1
    BY <1>1, <1>3, <2>2
  <2>3. CASE i > n + 1
    <3>1. i - 1 \in 1..L /\ ~(i <= n) /\ i # n + 1
      BY <1>3, <2>3
    <3> QED
      BY <1>1, <3>1
  <2> QED
    BY <1>3, <2>1, <2>2, <2>3
<1>6. n + 1 \in 1..(L + 1) /\ after[n + 1] = value
  BY <1>1, <1>3
<1>7. ASSUME NEW j \in 1..L
      PROVE  \E i \in 1..(L + 1) : after[i] = page[j]
  <2>1. CASE j <= n
    BY <1>1, <1>3, <2>1
  <2>2. CASE j > n
    <3>1. j + 1 \in 1..(L + 1) /\ ~(j + 1 <= n) /\ j + 1 # n + 1 /\ (j + 1) - 1 = j
      BY <1>3, <2>2
    <3> QED
      BY <1>1, <3>1
  <2> QED
    BY <1>3, <2>1, <2>2
<1>8. (\E i \in 1..(L + 1) : after[i] = v) <=> v = value \/ \E i \in 1..L : page[i] = v
  BY <1>5, <1>6, <1>7
<1> QED
  BY <1>3, <1>4, <1>8 DEF after, L

(* In a sorted page the new value comes after the values that are not      *)
(* later than it and before the others, which keep their order.            *)
LEMMA ReportPlace ==
  ASSUME NEW page \in Seq(ReportedValue), NEW value \in ReportedValue, Sorted(page)
  PROVE  \E n \in 0..Len(page) :
           /\ \A i \in 1..n : NotLater(page[i], value)
           /\ \A i \in (n + 1)..Len(page) : ~NotLater(page[i], value)
           /\ \A i \in 1..(Len(page) + 1) :
                Report(page, value)[i] = IF i <= n THEN page[i]
                                         ELSE IF i = n + 1 THEN value ELSE page[i - 1]
<1> DEFINE S == {i \in DOMAIN page : NotLater(page[i], value)}
           L == Len(page)
           n == Cardinality(S)
<1>1. DOMAIN page = 1..L /\ L \in Nat
  OBVIOUS
<1>2. S \in SUBSET (1..L)
  BY <1>1
<1>3. \A i \in S : \A j \in 1..L : j <= i => j \in S
  <2> SUFFICES ASSUME NEW i \in S, NEW j \in 1..L, j <= i PROVE j \in S
    OBVIOUS
  <2>1. page[i] \in ReportedValue /\ page[j] \in ReportedValue
    BY <1>1
  <2>2. NotLater(page[j], page[i]) /\ NotLater(page[i], value)
    BY <1>1 DEF Sorted
  <2> QED
    BY <1>1, <2>1, <2>2, NotLaterOrder
<1>4. n \in 0..L /\ S = 1..n
  <2> HIDE DEF S, L
  <2> QED
    BY <1>1, <1>2, <1>3, InitialSegment
<1>5. /\ \A i \in 1..n : NotLater(page[i], value)
      /\ \A i \in (n + 1)..L : ~NotLater(page[i], value)
  <2>1. \A i \in 1..L : i \in 1..n <=> NotLater(page[i], value)
    BY <1>1, <1>4
  <2> HIDE DEF n, L, S
  <2> QED
    BY <1>1, <1>4, <2>1
<1>6. \A i \in 1..(L + 1) :
        Report(page, value)[i] = IF i <= n THEN page[i]
                                 ELSE IF i = n + 1 THEN value ELSE page[i - 1]
  BY ReportEntries
<1> QED
  BY <1>4, <1>5, <1>6

(* The sort that follows each push keeps a page sorted.                    *)
LEMMA ReportSorted ==
  ASSUME NEW page \in Seq(ReportedValue), NEW value \in ReportedValue, Sorted(page)
  PROVE  Sorted(Report(page, value))
<1> DEFINE L == Len(page)
           after == Report(page, value)
<1>1. PICK n \in 0..L :
        /\ \A i \in 1..n : NotLater(page[i], value)
        /\ \A i \in (n + 1)..L : ~NotLater(page[i], value)
        /\ \A i \in 1..(L + 1) :
             after[i] = IF i <= n THEN page[i]
                        ELSE IF i = n + 1 THEN value ELSE page[i - 1]
  BY ReportPlace
<1>2. after \in Seq(ReportedValue) /\ Len(after) = L + 1
  BY ReportPage
<1>3. L \in Nat /\ DOMAIN page = 1..L /\ DOMAIN after = 1..(L + 1)
  BY <1>2
<1>4. \A i \in 1..L : page[i] \in ReportedValue
  OBVIOUS
<1>5. \A i \in (n + 1)..L : NotLater(value, page[i])
  BY <1>1, <1>3, <1>4, NotLaterOrder
<1>6. NotLater(value, value)
  BY NotLaterOrder
<1>7. \A i, j \in 1..L : i <= j => NotLater(page[i], page[j])
  BY <1>3 DEF Sorted
<1> HIDE DEF L, after
<1>8. ASSUME NEW i \in 1..(L + 1), NEW j \in 1..(L + 1), i <= j
      PROVE  NotLater(after[i], after[j])
  <2>1. CASE j <= n
    BY <1>1, <1>3, <1>7, <1>8, <2>1
  <2>2. CASE j = n + 1
    BY <1>1, <1>3, <1>6, <1>8, <2>2
  <2>3. CASE j > n + 1
    <3>1. after[j] = page[j - 1] /\ j - 1 \in (n + 1)..L
      BY <1>1, <1>3, <2>3
    <3>2. CASE i <= n
      <4>1. after[i] = page[i] /\ i \in 1..L /\ i <= j - 1
        BY <1>1, <1>3, <2>3, <3>2
      <4> QED
        BY <1>1, <1>3, <1>7, <3>1, <4>1
    <3>3. CASE i = n + 1
      <4>1. after[i] = value
        BY <1>1, <1>3, <3>3
      <4> QED
        BY <1>5, <3>1, <4>1
    <3>4. CASE i > n + 1
      <4>1. after[i] = page[i - 1] /\ i - 1 \in 1..L /\ i - 1 <= j - 1
        BY <1>1, <1>3, <1>8, <3>4
      <4> QED
        BY <1>1, <1>3, <1>7, <3>1, <4>1
    <3> QED
      BY <1>1, <1>3, <3>2, <3>3, <3>4
  <2> QED
    BY <1>1, <1>3, <2>1, <2>2, <2>3
<1>9. Sorted(after)
  BY <1>3, <1>8 DEF Sorted
<1> QED
  BY <1>9 DEF after
=============================================================================
