---------------------------- MODULE RecordProofs ----------------------------
(***************************************************************************)
(* Records, their properties and their pages stay linked to each other,    *)
(* and what was reported, owned and settled stays as it was.               *)
(*                                                                         *)
(* First, values stay attributed: the entries of a property's list of      *)
(* reporters are never moved nor given to somebody else, and each is       *)
(* stored with its position as index.                                      *)
(***************************************************************************)
EXTENDS ProcessorProofs, Queries

Indexed(reporters) == \A i \in DOMAIN reporters : reporters[i].index = i - 1

Kept(before, after) ==
  \A i \in DOMAIN before : i \in DOMAIN after /\ after[i].key = before[i].key

(* A property belongs to a record: create_record, which writes every       *)
(* property of a new record, replaces none.                                *)
PropertiesOwned == \A k \in DOMAIN properties : k[1] \in DOMAIN records

IInv == TypeOK /\ PropertiesOwned /\ ReportersIndexed

ReportersKept ==
  \A k \in DOMAIN properties :
    k \in DOMAIN properties' /\ Kept(properties[k].reporters, properties'[k].reporters)

-----------------------------------------------------------------------------
(* Lists. *)

(* A revocation changes neither a key nor an index.                        *)
LEMMA RevokedKept ==
  ASSUME NEW reporters \in Seq(Reporter), NEW q, Indexed(reporters)
  PROVE  Indexed(Revoked(reporters, q)) /\ Kept(reporters, Revoked(reporters, q))
<1> DEFINE after == Revoked(reporters, q)
<1>1. /\ after \in Seq(Reporter) /\ Len(after) = Len(reporters)
      /\ \A i \in 1..Len(reporters) :
           after[i].key = reporters[i].key /\ after[i].index = reporters[i].index
  BY RevokedEntries
<1> HIDE DEF after
<1>2. DOMAIN after = 1..Len(reporters) /\ DOMAIN reporters = 1..Len(reporters)
  BY <1>1
<1>3. Indexed(after) /\ Kept(reporters, after)
  BY <1>1, <1>2 DEF Indexed, Kept
<1> QED
  BY <1>3 DEF after

(* A list that keeps its entries and gains one in its own position.        *)
LEMMA ExtendedKept ==
  ASSUME NEW reporters \in Seq(Reporter), NEW after \in Seq(Reporter), NEW new,
         Indexed(reporters),
         Len(after) \in {Len(reporters), Len(reporters) + 1},
         \A i \in 1..Len(reporters) :
           after[i].key = reporters[i].key /\ after[i].index = reporters[i].index,
         Len(after) = Len(reporters) + 1 =>
           after[Len(after)] = NewReporter(new, Len(reporters))
  PROVE  Indexed(after) /\ Kept(reporters, after)
<1> DEFINE n == Len(reporters)
           m == Len(after)
<1>1. /\ n \in Nat /\ DOMAIN reporters = 1..n
      /\ m \in {n, n + 1} /\ DOMAIN after = 1..m
  OBVIOUS
<1>2. \A i \in 1..n :
        after[i].key = reporters[i].key /\ after[i].index = reporters[i].index
  OBVIOUS
<1>3. m = n + 1 => after[m].index = n
  BY DEF NewReporter
<1> HIDE DEF n, m
<1>4. 1..n \subseteq 1..m
  BY <1>1
<1>5. ASSUME NEW i \in 1..m PROVE after[i].index = i - 1
  <2>1. CASE i \in 1..n
    BY <1>1, <1>2, <2>1 DEF Indexed
  <2>2. CASE i \notin 1..n
    <3>1. i = n + 1 /\ m = n + 1
      BY <1>1, <2>2
    <3> QED
      BY <1>1, <1>3, <3>1
  <2> QED
    BY <2>1, <2>2
<1> QED
  BY <1>1, <1>2, <1>4, <1>5 DEF Indexed, Kept

(* Handing over is such a change.                                          *)
LEMMA HandedOverKept ==
  ASSUME NEW reporters \in Seq(Reporter), NEW old, NEW new \in Participants,
         Indexed(reporters)
  PROVE  /\ Indexed(HandedOver(reporters, old, new))
         /\ Kept(reporters, HandedOver(reporters, old, new))
<1> DEFINE after == HandedOver(reporters, old, new)
<1>1. /\ after \in Seq(Reporter)
      /\ Len(after) \in {Len(reporters), Len(reporters) + 1}
      /\ \A i \in 1..Len(reporters) :
           after[i].key = reporters[i].key /\ after[i].index = reporters[i].index
      /\ Len(after) = Len(reporters) + 1 =>
           after[Len(after)] = NewReporter(new, Len(reporters))
  BY HandedOverEntries
<1> HIDE DEF after
<1>2. Indexed(after) /\ Kept(reporters, after)
  BY <1>1, ExtendedKept
<1> QED
  BY <1>2 DEF after

(* So is authorizing a reporter.                                           *)
LEMMA AppendedKept ==
  ASSUME NEW reporters \in Seq(Reporter), NEW new \in Participants,
         Indexed(reporters)
  PROVE  LET after == Append(reporters, NewReporter(new, Len(reporters)))
         IN  Indexed(after) /\ Kept(reporters, after)
<1> DEFINE entry == NewReporter(new, Len(reporters))
           after == Append(reporters, entry)
<1>1. entry \in Reporter
  BY NewReporterType
<1> HIDE DEF entry
<1>2. after \in Seq(Reporter) /\ Len(after) = Len(reporters) + 1
  BY <1>1
<1>3. \A i \in 1..Len(reporters) : after[i] = reporters[i]
  BY <1>1
<1>4. after[Len(after)] = entry
  BY <1>1
<1> HIDE DEF after
<1>5. Indexed(after) /\ Kept(reporters, after)
  BY <1>2, <1>3, <1>4, ExtendedKept DEF entry
<1> QED
  BY <1>5 DEF after, entry

-----------------------------------------------------------------------------
(* Steps. *)

(* A transaction that leaves the properties alone keeps the lists.         *)
LEMMA PropertiesUntouched ==
  ASSUME PropertiesOwned, ReportersIndexed, UNCHANGED properties,
         DOMAIN records \subseteq DOMAIN records'
  PROVE  PropertiesOwned' /\ ReportersIndexed' /\ ReportersKept
  BY DEF PropertiesOwned, ReportersIndexed, ReportersKept, Kept

(* One that sets some properties of a record keeps them if the lists it    *)
(* sets are indexed and extend those it replaces.                          *)
LEMMA PropertiesSet ==
  ASSUME PropertiesOwned, ReportersIndexed, NEW changed,
         properties' = PutAll(properties, changed),
         DOMAIN records \subseteq DOMAIN records',
         \A k \in DOMAIN changed :
           k[1] \in DOMAIN records' /\ Indexed(changed[k].reporters),
         \A k \in DOMAIN changed \cap DOMAIN properties :
           Kept(properties[k].reporters, changed[k].reporters)
  PROVE  PropertiesOwned' /\ ReportersIndexed' /\ ReportersKept
<1>1. DOMAIN properties' = DOMAIN properties \cup DOMAIN changed
  BY DEF PutAll
<1>2. \A k \in DOMAIN changed : properties'[k] = changed[k]
  BY DEF PutAll
<1>3. \A k \in DOMAIN properties \ DOMAIN changed : properties'[k] = properties[k]
  BY DEF PutAll
<1>4. PropertiesOwned'
  BY <1>1 DEF PropertiesOwned
<1>5. ReportersIndexed'
  <2>1. \A k \in DOMAIN properties : Indexed(properties[k].reporters)
    BY DEF ReportersIndexed, Indexed
  <2>2. \A k \in DOMAIN properties' : Indexed(properties'[k].reporters)
    BY <1>1, <1>2, <1>3, <2>1
  <2> QED
    BY <2>2 DEF ReportersIndexed, Indexed
<1>6. ReportersKept
  <2>1. \A k \in DOMAIN properties \ DOMAIN changed :
          Kept(properties[k].reporters, properties'[k].reporters)
    BY <1>3 DEF Kept
  <2>2. \A k \in DOMAIN properties \cap DOMAIN changed :
          Kept(properties[k].reporters, properties'[k].reporters)
    BY <1>2
  <2> QED
    BY <1>1, <2>1, <2>2 DEF ReportersKept
<1> QED
  BY <1>4, <1>5, <1>6

(* What a handler finds in the property it is about to change.             *)
LEMMA StoredReporters ==
  ASSUME TypeOK, ReportersIndexed, NEW k \in DOMAIN properties
  PROVE  /\ properties[k] \in Property
         /\ properties[k].reporters \in Seq(Reporter)
         /\ Indexed(properties[k].reporters)
<1>1. properties[k] \in Property
  BY DEF TypeOK, IsStore
<1>2. Indexed(properties[k].reporters)
  BY DEF ReportersIndexed, Indexed
<1> QED
  BY <1>1, <1>2 DEF Property

(* create_record writes new properties only, each with the creator as its  *)
(* first reporter.                                                         *)
LEMMA CreateRecordKept ==
  ASSUME IInv, NEW p, NEW r, NEW t, NEW provided, NEW ts,
         CreateRecord(p, r, t, provided, ts)
  PROVE  PropertiesOwned' /\ ReportersIndexed' /\ ReportersKept
<1> DEFINE changed == [k \in {r} \X (DOMAIN tables[t]) |-> NewProperty(p, tables[t][k[2]])]
<1>1. properties' = PutAll(properties, changed)
  BY DEF CreateRecord
<1>2. r \notin DOMAIN records /\ DOMAIN records' = DOMAIN records \cup {r}
  BY DEF CreateRecord, MayCreate, Contains, Put
<1>3. \A k \in DOMAIN changed : k[1] = r /\ Indexed(changed[k].reporters)
  BY DEF NewProperty, NewReporter, Indexed
<1>4. DOMAIN changed \cap DOMAIN properties = {}
  BY <1>2, <1>3 DEF IInv, PropertiesOwned
<1> HIDE DEF changed
<1> QED
  BY <1>1, <1>2, <1>3, <1>4, PropertiesSet DEF IInv

(* Turning a page leaves the reporters of the property as they are.        *)
LEMMA UpdatePropertiesKept ==
  ASSUME IInv, NEW p, NEW r, NEW updates, NEW ts, UpdateProperties(p, r, updates, ts)
  PROVE  PropertiesOwned' /\ ReportersIndexed' /\ ReportersKept
<1> DEFINE filled == {n \in DOMAIN updates : Full(PageAfter(p, r, n, ts))}
           changed == [k \in {r} \X filled |-> Turned(properties[k])]
<1>1. properties' = PutAll(properties, changed) /\ UNCHANGED records
  BY DEF UpdateProperties
<1>2. r \in DOMAIN records /\ \A n \in filled : <<r, n>> \in DOMAIN properties
  BY DEF UpdateProperties, OpenToUpdates, MayReport, Contains
<1> HIDE DEF filled
<1>3. ASSUME NEW k \in DOMAIN changed
      PROVE  /\ k[1] \in DOMAIN records
             /\ Indexed(changed[k].reporters)
             /\ Kept(properties[k].reporters, changed[k].reporters)
  <2>1. k \in DOMAIN properties /\ k[1] = r
    BY <1>2
  <2>2. properties[k] \in Property /\ Indexed(properties[k].reporters)
    BY <2>1, StoredReporters DEF IInv
  <2>3. changed[k].reporters = properties[k].reporters
    <3>1. changed[k] = Turned(properties[k])
      OBVIOUS
    <3>2. Turned(properties[k]).reporters = properties[k].reporters
      BY <2>2 DEF Turned, Property
    <3> QED
      BY <3>1, <3>2
  <2> HIDE DEF changed
  <2> QED
    BY <1>2, <2>1, <2>2, <2>3 DEF Kept
<1> HIDE DEF changed
<1> QED
  BY <1>1, <1>3, PropertiesSet DEF IInv

(* A revocation changes who is authorized, not who is where.               *)
LEMMA RevokeReporterKept ==
  ASSUME IInv, NEW p, NEW r, NEW q, NEW names, RevokeReporter(p, r, q, names)
  PROVE  PropertiesOwned' /\ ReportersIndexed' /\ ReportersKept
<1> DEFINE changed == [k \in {r} \X names |->
                         [properties[k] EXCEPT !.reporters = Revoked(@, q)]]
<1>1. properties' = PutAll(properties, changed) /\ UNCHANGED records
  BY DEF RevokeReporter
<1>2. r \in DOMAIN records /\ \A n \in names : <<r, n>> \in DOMAIN properties
  BY DEF RevokeReporter, MayRevoke, Contains
<1>3. ASSUME NEW k \in DOMAIN changed
      PROVE  /\ k[1] \in DOMAIN records
             /\ Indexed(changed[k].reporters)
             /\ Kept(properties[k].reporters, changed[k].reporters)
  <2>1. k \in DOMAIN properties /\ k[1] = r
    BY <1>2
  <2>2. /\ properties[k] \in Property
        /\ properties[k].reporters \in Seq(Reporter)
        /\ Indexed(properties[k].reporters)
    BY <2>1, StoredReporters DEF IInv
  <2>3. changed[k].reporters = Revoked(properties[k].reporters, q)
    BY <2>2 DEF Property
  <2> HIDE DEF changed
  <2> QED
    BY <1>2, <2>1, <2>2, <2>3, RevokedKept
<1> HIDE DEF changed
<1> QED
  BY <1>1, <1>3, PropertiesSet DEF IInv

(* Neither does a change of owner, which adds the new one at the end.      *)
LEMMA AcceptOwnershipKept ==
  ASSUME IInv, NEW p, NEW a \in AnswerPayloads, AcceptOwnership(p, a)
  PROVE  PropertiesOwned' /\ ReportersIndexed' /\ ReportersKept
<1> DEFINE r == a.record
           names == DOMAIN tables[records[r].table]
           changed == [k \in {r} \X names |-> [properties[k] EXCEPT
                         !.reporters = HandedOver(@, Owner(r), a.receiver)]]
<1>1. /\ properties' = PutAll(properties, changed)
      /\ r \in DOMAIN records /\ DOMAIN records' = DOMAIN records
  BY DEF AcceptOwnership, Put, Contains
<1>2. \A n \in names : <<r, n>> \in DOMAIN properties
  BY DEF AcceptOwnership, Contains
<1>3. a.receiver \in Participants
  BY DEF AcceptOwnership, MayAccept, Contains, IInv, TypeOK, IsStore
<1> HIDE DEF names
<1>4. ASSUME NEW k \in DOMAIN changed
      PROVE  /\ k[1] \in DOMAIN records
             /\ Indexed(changed[k].reporters)
             /\ Kept(properties[k].reporters, changed[k].reporters)
  <2>1. k \in DOMAIN properties /\ k[1] = r
    BY <1>2
  <2>2. /\ properties[k] \in Property
        /\ properties[k].reporters \in Seq(Reporter)
        /\ Indexed(properties[k].reporters)
    BY <2>1, StoredReporters DEF IInv
  <2>3. changed[k].reporters = HandedOver(properties[k].reporters, Owner(r), a.receiver)
    BY <2>2 DEF Property
  <2> HIDE DEF changed
  <2> QED
    BY <1>1, <1>3, <2>1, <2>2, <2>3, HandedOverKept
<1> HIDE DEF changed
<1> QED
  BY <1>1, <1>4, PropertiesSet DEF IInv

(* Nor does the authorization of a reporter.                               *)
LEMMA AcceptReporterKept ==
  ASSUME IInv, NEW p, NEW a \in AnswerPayloads, AcceptReporter(p, a)
  PROVE  PropertiesOwned' /\ ReportersIndexed' /\ ReportersKept
<1> DEFINE r == a.record
           names == proposals[a.id].properties
           changed == [k \in {r} \X names |-> [properties[k] EXCEPT
                         !.reporters = Append(@, NewReporter(a.receiver, Len(@)))]]
<1>1. properties' = PutAll(properties, changed) /\ UNCHANGED records
  BY DEF AcceptReporter
<1>2. r \in DOMAIN records /\ \A n \in names : <<r, n>> \in DOMAIN properties
  BY DEF AcceptReporter, Contains
<1>3. a.receiver \in Participants
  BY DEF AcceptReporter, MayAccept, Contains, IInv, TypeOK, IsStore
<1> HIDE DEF names
<1>4. ASSUME NEW k \in DOMAIN changed
      PROVE  /\ k[1] \in DOMAIN records
             /\ Indexed(changed[k].reporters)
             /\ Kept(properties[k].reporters, changed[k].reporters)
  <2>1. k \in DOMAIN properties /\ k[1] = r
    BY <1>2
  <2>2. /\ properties[k] \in Property
        /\ properties[k].reporters \in Seq(Reporter)
        /\ Indexed(properties[k].reporters)
    BY <2>1, StoredReporters DEF IInv
  <2>3. changed[k].reporters =
          Append(properties[k].reporters,
                 NewReporter(a.receiver, Len(properties[k].reporters)))
    BY <2>2 DEF Property
  <2> HIDE DEF changed
  <2> QED
    BY <1>2, <1>3, <2>1, <2>2, <2>3, AppendedKept
<1> HIDE DEF changed
<1> QED
  BY <1>1, <1>4, PropertiesSet DEF IInv

(* Every transaction keeps the lists of reporters.                         *)
LEMMA NextKept ==
  IInv /\ [Next]_vars => PropertiesOwned' /\ ReportersIndexed' /\ ReportersKept
<1> SUFFICES ASSUME IInv, [Next]_vars
             PROVE  PropertiesOwned' /\ ReportersIndexed' /\ ReportersKept
  OBVIOUS
<1>1. CASE UNCHANGED vars
  BY <1>1, PropertiesUntouched DEF vars, IInv
<1>2. ASSUME NEW p \in Participants, RecordTransaction(p)
      PROVE  PropertiesOwned' /\ ReportersIndexed' /\ ReportersKept
  <2>1. CASE \/ CreateParticipant(p)
             \/ \E t \in Tables, schema \in Schemas : CreateTable(t, schema)
             \/ \E r \in Records : FinalizeRecord(p, r)
    <3>1. UNCHANGED properties /\ DOMAIN records \subseteq DOMAIN records'
      BY <2>1 DEF CreateParticipant, CreateTable, FinalizeRecord, Put
    <3> QED
      BY <3>1, PropertiesUntouched DEF IInv
  <2> QED
    BY <1>2, <2>1, CreateRecordKept, UpdatePropertiesKept, RevokeReporterKept
    DEF RecordTransaction
<1>3. ASSUME NEW p \in Participants, ProposalTransaction(p)
      PROVE  PropertiesOwned' /\ ReportersIndexed' /\ ReportersKept
  <2>1. CASE \E c \in ProposalPayloads : CreateProposal(p, c)
    BY <2>1, PropertiesUntouched DEF CreateProposal, IInv
  <2>2. ASSUME NEW a \in AnswerPayloads, AnswerProposal(p, a)
        PROVE  PropertiesOwned' /\ ReportersIndexed' /\ ReportersKept
    <3>1. CASE ~AcceptOwnership(p, a) /\ ~AcceptReporter(p, a)
      <4>1. UNCHANGED properties /\ DOMAIN records \subseteq DOMAIN records'
        BY <2>2, <3>1
        DEF AnswerProposal, CancelProposal, RejectProposal, AutoOpenBuy, AutoOpenSell,
            AutoCloseBuy, AutoCloseSell, AcceptCredit, AcceptTransferCoins,
            AcceptCustodianship, Put
      <4> QED
        BY <4>1, PropertiesUntouched DEF IInv
    <3> QED
      BY <3>1, AcceptOwnershipKept, AcceptReporterKept
  <2> QED
    BY <1>3, <2>1, <2>2 DEF ProposalTransaction
<1> QED
  BY <1>1, <1>2, <1>3 DEF Next

-----------------------------------------------------------------------------
(* The inductive invariant.                                                *)
LEMMA Inductive == Spec => []IInv
<1>1. Init => IInv
  BY InitType DEF Init, EmptyStore, IInv, PropertiesOwned, ReportersIndexed
<1>2. IInv /\ [Next]_vars => IInv'
  BY NextType, NextKept DEF IInv
<1> QED
  BY <1>1, <1>2, PTL DEF Spec

(* The index stored with a reporter is its position, whatever sequence of  *)
(* authorizations, revocations and changes of owner built the list.        *)
THEOREM IndexIsPosition == Spec => []ReportersIndexed
<1>1. IInv => ReportersIndexed
  BY DEF IInv
<1> QED
  BY <1>1, Inductive, PTL

(* A reported value never changes its author.                              *)
THEOREM AuthorsStay == Spec => AuthorsKept
<1>1. IInv /\ [Next]_vars =>
        [\A k \in DOMAIN properties :
           /\ k \in DOMAIN properties'
           /\ \A i \in DOMAIN properties[k].reporters :
                /\ i \in DOMAIN properties'[k].reporters
                /\ properties'[k].reporters[i].key = properties[k].reporters[i].key]_vars
  BY NextKept DEF ReportersKept, Kept
<1> QED
  BY <1>1, Inductive, PTL DEF Spec, AuthorsKept

-----------------------------------------------------------------------------
(* What a transaction may do to each store. *)

TablesKept == \A t \in DOMAIN tables : t \in DOMAIN tables' /\ tables'[t] = tables[t]

(* The steps that change a record, a property or a page.                   *)
Creates(p, r, t, provided, ts) ==
  /\ p \in Participants /\ r \in Records /\ t \in Tables /\ ts \in Timestamps
  /\ CreateRecord(p, r, t, provided, ts)

Updates(p, r, updates, ts) ==
  /\ p \in Participants /\ r \in Records /\ DOMAIN updates \subseteq Properties
  /\ ts \in Timestamps
  /\ UpdateProperties(p, r, updates, ts)

Revokes(p, r, q, names) ==
  /\ r \in Records /\ names \subseteq Properties
  /\ RevokeReporter(p, r, q, names)

Answers(p, a) ==
  /\ p \in Participants /\ a \in AnswerPayloads
  /\ AcceptOwnership(p, a) \/ AcceptCustodianship(p, a) \/ AcceptReporter(p, a)

(* No table is ever changed, and every other transaction leaves records,   *)
(* properties and pages alone.                                             *)
LEMMA Steps ==
  ASSUME [Next]_vars
  PROVE  /\ TablesKept
         /\ \/ UNCHANGED <<records, properties, pages>>
            \/ \E p, r, t, provided, ts : Creates(p, r, t, provided, ts)
            \/ \E p, r : FinalizeRecord(p, r)
            \/ \E p, r, updates, ts : Updates(p, r, updates, ts)
            \/ \E p, r, q, names : Revokes(p, r, q, names)
            \/ \E p, a : Answers(p, a)
<1> DEFINE Quiet == UNCHANGED <<records, properties, pages>>
           Kinds == \/ Quiet
                    \/ \E p, r, t, provided, ts : Creates(p, r, t, provided, ts)
                    \/ \E p, r : FinalizeRecord(p, r)
                    \/ \E p, r, updates, ts : Updates(p, r, updates, ts)
                    \/ \E p, r, q, names : Revokes(p, r, q, names)
                    \/ \E p, a : Answers(p, a)
<1>0. UNCHANGED tables => TablesKept
  BY DEF TablesKept
<1>1. ASSUME UNCHANGED vars PROVE TablesKept /\ Kinds
  BY <1>0, <1>1 DEF vars
<1>2. ASSUME NEW p \in Participants, RecordTransaction(p) PROVE TablesKept /\ Kinds
  <2>1. CASE CreateParticipant(p)
    BY <1>0, <2>1 DEF CreateParticipant
  <2>2. ASSUME NEW t \in Tables, NEW schema \in Schemas, CreateTable(t, schema)
        PROVE  TablesKept /\ Kinds
    BY <2>2 DEF CreateTable, TablesKept, Contains, Put
  <2>3. ASSUME NEW r \in Records, NEW t \in Tables, NEW names \in SUBSET Properties,
               NEW ts \in Timestamps, NEW provided \in [names -> Types],
               CreateRecord(p, r, t, provided, ts)
        PROVE  TablesKept /\ Kinds
    <3>1. Creates(p, r, t, provided, ts)
      BY <2>3 DEF Creates
    <3>2. UNCHANGED tables
      BY <2>3 DEF CreateRecord
    <3> QED
      BY <1>0, <3>1, <3>2
  <2>4. ASSUME NEW r \in Records, FinalizeRecord(p, r) PROVE TablesKept /\ Kinds
    BY <1>0, <2>4 DEF FinalizeRecord
  <2>5. ASSUME NEW r \in Records, NEW names \in SUBSET Properties,
               NEW ts \in Timestamps, NEW updates \in [names -> Types],
               UpdateProperties(p, r, updates, ts)
        PROVE  TablesKept /\ Kinds
    <3>1. Updates(p, r, updates, ts)
      BY <2>5 DEF Updates
    <3>2. UNCHANGED tables
      BY <2>5 DEF UpdateProperties
    <3> QED
      BY <1>0, <3>1, <3>2
  <2>6. ASSUME NEW r \in Records, NEW q \in Participants,
               NEW names \in SUBSET Properties, RevokeReporter(p, r, q, names)
        PROVE  TablesKept /\ Kinds
    <3>1. Revokes(p, r, q, names)
      BY <2>6 DEF Revokes
    <3>2. UNCHANGED tables
      BY <2>6 DEF RevokeReporter
    <3> QED
      BY <1>0, <3>1, <3>2
  <2> HIDE DEF Kinds
  <2> QED
    BY <1>2, <2>1, <2>2, <2>3, <2>4, <2>5, <2>6 DEF RecordTransaction
<1>3. ASSUME NEW p \in Participants, ProposalTransaction(p) PROVE TablesKept /\ Kinds
  <2>1. CASE \E c \in ProposalPayloads : CreateProposal(p, c)
    BY <1>0, <2>1 DEF CreateProposal
  <2>2. ASSUME NEW a \in AnswerPayloads, AnswerProposal(p, a) PROVE TablesKept /\ Kinds
    <3>1. UNCHANGED tables
      BY <2>2
      DEF AnswerProposal, CancelProposal, RejectProposal, AutoOpenBuy, AutoOpenSell,
          AutoCloseBuy, AutoCloseSell, AcceptCredit, AcceptTransferCoins,
          AcceptOwnership, AcceptCustodianship, AcceptReporter
    <3>2. CASE \/ AcceptOwnership(p, a) \/ AcceptCustodianship(p, a)
               \/ AcceptReporter(p, a)
      <4>1. Answers(p, a)
        BY <3>2 DEF Answers
      <4> QED
        BY <1>0, <3>1, <4>1
    <3>3. CASE ~(\/ AcceptOwnership(p, a) \/ AcceptCustodianship(p, a)
                 \/ AcceptReporter(p, a))
      <4>1. Quiet
        BY <2>2, <3>3
        DEF AnswerProposal, CancelProposal, RejectProposal, AutoOpenBuy, AutoOpenSell,
            AutoCloseBuy, AutoCloseSell, AcceptCredit, AcceptTransferCoins
      <4> QED
        BY <1>0, <3>1, <4>1
    <3> QED
      BY <3>2, <3>3
  <2> QED
    BY <1>3, <2>1, <2>2 DEF ProposalTransaction
<1> HIDE DEF Kinds
<1>4. TablesKept /\ Kinds
  BY <1>1, <1>2, <1>3 DEF Next
<1> QED
  BY <1>4 DEF Kinds

-----------------------------------------------------------------------------
(* Records. *)

(* A record with one more owner, one more custodian or its flag set.       *)
LEMMA ExtendedChain ==
  ASSUME NEW V, NEW chain \in Seq(V), NEW v \in V
  PROVE  /\ Extends(chain, chain)
         /\ Extends(chain, Append(chain, v))
         /\ Len(Append(chain, v)) = Len(chain) + 1
         /\ Latest(Append(chain, v)) = v
         /\ Append(chain, v) \in Seq(V)
<1>1. /\ Len(chain) \in Nat /\ DOMAIN chain = 1..Len(chain)
      /\ \A i \in 1..Len(chain) : chain[i] \in V
  OBVIOUS
<1>2. /\ Append(chain, v) \in Seq(V) /\ Len(Append(chain, v)) = Len(chain) + 1
      /\ \A i \in 1..Len(chain) : Append(chain, v)[i] = chain[i]
      /\ Append(chain, v)[Len(chain) + 1] = v
  BY AppendProperties
<1>3. SubSeq(chain, 1, Len(chain)) = chain
  BY <1>1
<1> DEFINE longer == Append(chain, v)
<1> HIDE DEF longer
<1>4. SubSeq(longer, 1, Len(chain)) = chain
  <2>1. \A i \in 1..Len(chain) : longer[i] \in V /\ longer[i] = chain[i]
    BY <1>1, <1>2 DEF longer
  <2> QED
    BY <1>1, <2>1
<1> QED
  BY <1>1, <1>2, <1>3, <1>4 DEF Extends, Latest, longer

(* What a transaction leaves of a record: its table, its finality and its  *)
(* chains, one of which may have a link more.                              *)
ChainsKept(before, after) ==
  /\ after.table = before.table
  /\ Extends(before.owners, after.owners)
  /\ Extends(before.custodians, after.custodians)
  /\ Len(after.owners) + Len(after.custodians)
       <= Len(before.owners) + Len(before.custodians) + 1

RecordKept(before, after) ==
  ChainsKept(before, after) /\ (before.final => after.final)

LEMMA RecordSame ==
  ASSUME NEW record \in Record, NEW after, after.table = record.table,
         after.owners = record.owners, after.custodians = record.custodians
  PROVE  ChainsKept(record, after)
<1> DEFINE os == record.owners
           cs == record.custodians
<1>1. os \in Seq(Participants) /\ cs \in Seq(Participants)
  BY DEF Record
<1>2. /\ Len(os) \in Nat /\ SubSeq(os, 1, Len(os)) = os
      /\ Len(cs) \in Nat /\ SubSeq(cs, 1, Len(cs)) = cs
  BY <1>1
<1> HIDE DEF os, cs
<1>3. Extends(os, os) /\ Extends(cs, cs) /\ Len(os) + Len(cs) <= Len(os) + Len(cs) + 1
  BY <1>2 DEF Extends
<1> QED
  BY <1>3 DEF ChainsKept, os, cs

LEMMA RecordChanged ==
  ASSUME NEW record \in Record, NEW q \in Participants
  PROVE  /\ RecordKept(record, [record EXCEPT !.owners = Append(@, q)])
         /\ RecordKept(record, [record EXCEPT !.custodians = Append(@, q)])
<1> DEFINE os == record.owners
           cs == record.custodians
           os2 == Append(os, q)
           cs2 == Append(cs, q)
<1>1. os \in Seq(Participants) /\ cs \in Seq(Participants)
  BY DEF Record
<1>2. /\ Extends(os, os) /\ Extends(os, os2) /\ Len(os2) = Len(os) + 1
      /\ Extends(cs, cs) /\ Extends(cs, cs2) /\ Len(cs2) = Len(cs) + 1
      /\ Len(os) \in Nat /\ Len(cs) \in Nat
  BY <1>1, ExtendedChain
<1> HIDE DEF os2, cs2
<1>3. /\ [record EXCEPT !.owners = os2].table = record.table
      /\ [record EXCEPT !.owners = os2].final = record.final
      /\ [record EXCEPT !.owners = os2].owners = os2
      /\ [record EXCEPT !.owners = os2].custodians = cs
  BY DEF Record
<1>4. /\ [record EXCEPT !.custodians = cs2].table = record.table
      /\ [record EXCEPT !.custodians = cs2].final = record.final
      /\ [record EXCEPT !.custodians = cs2].owners = os
      /\ [record EXCEPT !.custodians = cs2].custodians = cs2
  BY DEF Record
<1> HIDE DEF os, cs
<1>5. Len(os2) + Len(cs) <= Len(os) + Len(cs) + 1 /\ Len(os) + Len(cs2) <= Len(os) + Len(cs) + 1
  BY <1>2
<1>6. ChainsKept(record, [record EXCEPT !.owners = os2])
  BY <1>2, <1>3, <1>5, Zenon DEF ChainsKept, os, cs
<1>7. ChainsKept(record, [record EXCEPT !.custodians = cs2])
  BY <1>2, <1>4, <1>5, Zenon DEF ChainsKept, os, cs
<1> QED
  BY <1>3, <1>4, <1>6, <1>7, Zenon DEF RecordKept, os, cs, os2, cs2

(* Every transaction keeps every record.                                   *)
LEMMA RecordsKept ==
  ASSUME TypeOK, [Next]_vars, NEW r \in DOMAIN records
  PROVE  r \in DOMAIN records' /\ RecordKept(records[r], records'[r])
<1> DEFINE Goal == r \in DOMAIN records' /\ RecordKept(records[r], records'[r])
<1>1. records[r] \in Record
  BY DEF TypeOK, IsStore
<1>2. UNCHANGED records => Goal
  <2>1. ChainsKept(records[r], records[r])
    BY <1>1, RecordSame
  <2> QED
    BY <2>1, Zenon DEF RecordKept
<1>3. ASSUME NEW x, NEW entry, records' = Put(records, x, entry),
             x = r => RecordKept(records[r], entry)
      PROVE  Goal
  <2>1. CASE x = r
    <3>1. r \in DOMAIN records' /\ records'[r] = entry
      BY <1>3, <2>1 DEF Put
    <3> QED
      BY <1>3, <2>1, <3>1
  <2>2. CASE x # r
    <3>1. r \in DOMAIN records' /\ records'[r] = records[r]
      BY <1>3, <2>2 DEF Put
    <3>2. ChainsKept(records[r], records[r])
      BY <1>1, RecordSame
    <3> QED
      BY <3>1, <3>2, Zenon DEF RecordKept
  <2> QED
    BY <2>1, <2>2
<1> HIDE DEF Goal
<1>4. ASSUME NEW p, NEW x, NEW t, NEW provided, NEW ts, Creates(p, x, t, provided, ts)
      PROVE  Goal
  <2>1. PICK entry : records' = Put(records, x, entry) /\ x # r
    BY <1>4 DEF Creates, CreateRecord, MayCreate, Contains
  <2> QED
    BY <1>3, <2>1
<1>5. ASSUME NEW p, NEW x, FinalizeRecord(p, x) PROVE Goal
  <2> DEFINE entry == [records[x] EXCEPT !.final = TRUE]
  <2>1. records' = Put(records, x, entry)
    BY <1>5 DEF FinalizeRecord
  <2>2. ASSUME x = r PROVE RecordKept(records[r], entry)
    <3>1. /\ entry.table = records[r].table /\ entry.owners = records[r].owners
          /\ entry.custodians = records[r].custodians
      BY <1>1, <2>2 DEF Record
    <3>2. entry.final
      BY <1>1, <2>2, Zenon DEF Record
    <3> HIDE DEF entry
    <3>3. ChainsKept(records[r], entry)
      BY <1>1, <3>1, RecordSame
    <3> QED
      BY <3>2, <3>3, Zenon DEF RecordKept
  <2> HIDE DEF entry
  <2> QED
    BY <1>3, <2>1, <2>2
<1>6. ASSUME NEW p, NEW a, Answers(p, a) PROVE Goal
  <2>1. Contains(participants, a.receiver) \/ UNCHANGED records
    BY <1>6 DEF Answers, AcceptOwnership, AcceptCustodianship, AcceptReporter, MayAccept
  <2>2. CASE UNCHANGED records
    BY <1>2, <2>2
  <2>3. CASE ~UNCHANGED records
    <3>1. a.receiver \in Participants
      BY <2>1, <2>3 DEF Contains, TypeOK, IsStore
    <3>2. CASE AcceptOwnership(p, a)
      <4> DEFINE entry == [records[a.record] EXCEPT !.owners = Append(@, a.receiver)]
      <4>1. records' = Put(records, a.record, entry)
        BY <3>2 DEF AcceptOwnership
      <4>2. a.record = r => RecordKept(records[r], entry)
        BY <1>1, <3>1, RecordChanged
      <4> HIDE DEF entry
      <4> QED
        BY <1>3, <4>1, <4>2
    <3>3. CASE AcceptCustodianship(p, a)
      <4> DEFINE entry == [records[a.record] EXCEPT !.custodians = Append(@, a.receiver)]
      <4>1. records' = Put(records, a.record, entry)
        BY <3>3 DEF AcceptCustodianship
      <4>2. a.record = r => RecordKept(records[r], entry)
        BY <1>1, <3>1, RecordChanged
      <4> HIDE DEF entry
      <4> QED
        BY <1>3, <4>1, <4>2
    <3>4. CASE AcceptReporter(p, a)
      BY <2>3, <3>4 DEF AcceptReporter
    <3> QED
      BY <1>6, <3>2, <3>3, <3>4 DEF Answers
  <2> QED
    BY <2>2, <2>3
<1>7. Goal
  <2>1. CASE UNCHANGED records
    BY <1>2, <2>1
  <2>2. CASE ~UNCHANGED records
    <3>1. \A p, x, updates, ts : ~Updates(p, x, updates, ts)
      BY <2>2 DEF Updates, UpdateProperties
    <3>2. \A p, x, q, names : ~Revokes(p, x, q, names)
      BY <2>2 DEF Revokes, RevokeReporter
    <3> QED
      BY <1>4, <1>5, <1>6, <2>2, <3>1, <3>2, Steps
  <2> QED
    BY <2>1, <2>2
<1> QED
  BY <1>7 DEF Goal

(* Owners and custodians are appended one at a time and never rewritten.   *)
THEOREM ProvenanceStays == Spec => ProvenanceKept
<1>1. TypeOK /\ [Next]_vars =>
        [\A r \in DOMAIN records :
           /\ r \in DOMAIN records'
           /\ Extends(records[r].owners, records'[r].owners)
           /\ Extends(records[r].custodians, records'[r].custodians)
           /\ Len(records'[r].owners) + Len(records'[r].custodians)
                <= Len(records[r].owners) + Len(records[r].custodians) + 1]_vars
  BY RecordsKept DEF RecordKept, ChainsKept
<1> QED
  BY <1>1, TypeCorrect, PTL DEF Spec, ProvenanceKept

-----------------------------------------------------------------------------
(* Links. *)

(* The ring of pages is a single page: the page that follows page 1 is     *)
(* page 1, so no property ever has another.                                *)
OnePage ==
  /\ \A k \in DOMAIN properties : properties[k].currentPage = 1
  /\ DOMAIN pages = {<<k[1], k[2], 1>> : k \in DOMAIN properties}

(* The properties are those of the tables of the records.                  *)
PropertiesOfTables ==
  DOMAIN properties =
    UNION {{r} \X (DOMAIN tables[records[r].table]) : r \in DOMAIN records}

(* A record has a first owner, a first custodian and a table.              *)
RecordsComplete ==
  \A r \in DOMAIN records :
    /\ records[r].owners # <<>> /\ records[r].custodians # <<>>
    /\ records[r].table \in DOMAIN tables

LInv == IInv /\ RecordsComplete /\ PropertiesOfTables /\ OnePage

LEMMA PropertyOf ==
  ASSUME PropertiesOfTables
  PROVE  \A k : k \in DOMAIN properties <=>
           \E r \in DOMAIN records :
             \E n \in DOMAIN tables[records[r].table] : k = <<r, n>>
  BY DEF PropertiesOfTables

(* The page after page 1.                                                  *)
LEMMA NextOfFirst == NextPage(1) = 1
  BY PageMaxAssumption DEF NextPage

(* An update writes the one page of each property it names, and empties it *)
(* if that fills it; it writes no other page.                              *)
LEMMA UpdatedPages ==
  ASSUME OnePage, NEW p, NEW r, NEW updates, NEW ts, UpdateProperties(p, r, updates, ts)
  PROVE  /\ DOMAIN pages' = DOMAIN pages
         /\ \A n \in DOMAIN updates :
              /\ <<r, n>> \in DOMAIN properties
              /\ <<r, n, 1>> \in DOMAIN pages
              /\ CurrentPage(r, n) = <<r, n, 1>>
              /\ pages'[<<r, n, 1>>] = IF Full(PageAfter(p, r, n, ts)) THEN <<>>
                                       ELSE PageAfter(p, r, n, ts)
         /\ \A k \in DOMAIN pages :
              k[1] # r \/ k[2] \notin DOMAIN updates => pages'[k] = pages[k]
<1> DEFINE filled == {n \in DOMAIN updates : Full(PageAfter(p, r, n, ts))}
           written == [k \in {CurrentPage(r, n) : n \in DOMAIN updates} |->
                         PageAfter(p, r, k[2], ts)]
           emptied == [k \in {<<r, n, NextPage(properties[<<r, n>>].currentPage)>> :
                                n \in filled} |-> <<>>]
<1>1. pages' = PutAll(PutAll(pages, written), emptied)
  BY DEF UpdateProperties
<1>2. \A n \in DOMAIN updates :
        /\ <<r, n>> \in DOMAIN properties /\ properties[<<r, n>>].currentPage = 1
        /\ CurrentPage(r, n) = <<r, n, 1>> /\ <<r, n, 1>> \in DOMAIN pages
  BY DEF UpdateProperties, MayReport, Contains, OnePage, CurrentPage
<1>3. DOMAIN written = {<<r, n, 1>> : n \in DOMAIN updates}
  BY <1>2
<1>4. DOMAIN emptied = {<<r, n, 1>> : n \in filled}
  BY <1>2, NextOfFirst
<1>5. \A k \in DOMAIN written : written[k] = PageAfter(p, r, k[2], ts)
  OBVIOUS
<1>6. \A k \in DOMAIN emptied : emptied[k] = <<>>
  OBVIOUS
<1> HIDE DEF written, emptied
<1>7. DOMAIN pages' = DOMAIN pages
  BY <1>1, <1>2, <1>3, <1>4 DEF PutAll
<1>8. \A k \in DOMAIN pages :
        pages'[k] = IF k \in DOMAIN emptied THEN <<>>
                    ELSE IF k \in DOMAIN written THEN PageAfter(p, r, k[2], ts)
                    ELSE pages[k]
  BY <1>1, <1>5, <1>6 DEF PutAll
<1>9. ASSUME NEW n \in DOMAIN updates
      PROVE  pages'[<<r, n, 1>>] = IF Full(PageAfter(p, r, n, ts)) THEN <<>>
                                   ELSE PageAfter(p, r, n, ts)
  <2>1. <<r, n, 1>> \in DOMAIN written
    BY <1>3
  <2>2. <<r, n, 1>> \in DOMAIN emptied <=> Full(PageAfter(p, r, n, ts))
    BY <1>4
  <2> QED
    BY <1>2, <1>8, <2>1, <2>2
<1>10. ASSUME NEW k \in DOMAIN pages, k[1] # r \/ k[2] \notin DOMAIN updates
       PROVE  pages'[k] = pages[k]
  BY <1>3, <1>4, <1>8, <1>10
<1> QED
  BY <1>2, <1>7, <1>9, <1>10

LEMMA UpdatedPage ==
  ASSUME OnePage, NEW p, NEW r, NEW updates, NEW ts, UpdateProperties(p, r, updates, ts),
         NEW n \in DOMAIN updates
  PROVE  /\ CurrentPage(r, n) = <<r, n, 1>>
         /\ pages'[<<r, n, 1>>] = IF Full(PageAfter(p, r, n, ts)) THEN <<>>
                                  ELSE PageAfter(p, r, n, ts)
<1>1. /\ DOMAIN pages' = DOMAIN pages
      /\ \A m \in DOMAIN updates :
           /\ <<r, m>> \in DOMAIN properties
           /\ <<r, m, 1>> \in DOMAIN pages
           /\ CurrentPage(r, m) = <<r, m, 1>>
           /\ pages'[<<r, m, 1>>] = IF Full(PageAfter(p, r, m, ts)) THEN <<>>
                                    ELSE PageAfter(p, r, m, ts)
      /\ \A k \in DOMAIN pages :
           k[1] # r \/ k[2] \notin DOMAIN updates => pages'[k] = pages[k]
  BY UpdatedPages
<1> QED
  BY <1>1

(* What an update leaves of the properties: the page number, which is the  *)
(* one it was.                                                             *)
LEMMA UpdatedProperties ==
  ASSUME TypeOK, OnePage, NEW p, NEW r, NEW updates, NEW ts,
         UpdateProperties(p, r, updates, ts)
  PROVE  /\ DOMAIN properties' = DOMAIN properties
         /\ \A k \in DOMAIN properties :
              /\ properties'[k].currentPage = 1
              /\ properties'[k].reporters = properties[k].reporters
<1> DEFINE filled == {n \in DOMAIN updates : Full(PageAfter(p, r, n, ts))}
           turned == [k \in {r} \X filled |-> Turned(properties[k])]
<1>1. properties' = PutAll(properties, turned)
  BY DEF UpdateProperties
<1>2. DOMAIN turned \subseteq DOMAIN properties
  BY DEF UpdateProperties, MayReport, Contains
<1>3. \A k \in DOMAIN properties :
        properties[k] \in Property /\ properties[k].currentPage = 1
  BY DEF TypeOK, IsStore, OnePage
<1>4. ASSUME NEW k \in DOMAIN turned
      PROVE  turned[k].currentPage = 1 /\ turned[k].reporters = properties[k].reporters
  <2>1. k \in DOMAIN properties
    BY <1>2
  <2>2. turned[k] = Turned(properties[k])
    OBVIOUS
  <2> DEFINE prop == properties[k]
             wrapped == prop.wrapped \/ NextPage(prop.currentPage) = 1
  <2>3. prop \in Property /\ prop.currentPage = 1
    BY <1>3, <2>1
  <2>4. NextPage(prop.currentPage) = 1
    BY <2>3, NextOfFirst
  <2> HIDE DEF prop
  <2>5. Turned(prop) = [prop EXCEPT !.currentPage = 1, !.wrapped = wrapped]
    BY <2>4 DEF Turned
  <2> HIDE DEF wrapped
  <2>6. Turned(prop).currentPage = 1 /\ Turned(prop).reporters = prop.reporters
    BY <2>3, <2>5 DEF Property
  <2> QED
    BY <2>2, <2>6 DEF prop
<1> HIDE DEF turned
<1> QED
  BY <1>1, <1>2, <1>3, <1>4 DEF PutAll

(* Where no record is created, the keys of all stores stay as they are.    *)
KeysKept ==
  /\ DOMAIN records' = DOMAIN records
  /\ DOMAIN properties' = DOMAIN properties
  /\ DOMAIN pages' = DOMAIN pages
  /\ \A k \in DOMAIN properties : properties'[k].currentPage = properties[k].currentPage

(* Revocations, changes of owner and authorizations change reporters only. *)
LEMMA ReportersSet ==
  ASSUME TypeOK, NEW list, DOMAIN list \subseteq DOMAIN properties,
         properties' = PutAll(properties,
           [k \in DOMAIN list |-> [properties[k] EXCEPT !.reporters = list[k]]])
  PROVE  /\ DOMAIN properties' = DOMAIN properties
         /\ \A k \in DOMAIN properties :
              /\ properties'[k].currentPage = properties[k].currentPage
              /\ properties'[k].reporters =
                   IF k \in DOMAIN list THEN list[k] ELSE properties[k].reporters
<1> DEFINE changed ==
             [k \in DOMAIN list |-> [properties[k] EXCEPT !.reporters = list[k]]]
<1>1. \A k \in DOMAIN properties : properties[k] \in Property
  BY DEF TypeOK, IsStore
<1>2. ASSUME NEW k \in DOMAIN list
      PROVE  /\ changed[k].currentPage = properties[k].currentPage
             /\ changed[k].reporters = list[k]
  <2>1. properties[k] \in Property
    BY <1>1
  <2>2. changed[k] = [properties[k] EXCEPT !.reporters = list[k]]
    OBVIOUS
  <2> HIDE DEF changed
  <2> QED
    BY <2>1, <2>2 DEF Property
<1>3. DOMAIN changed = DOMAIN list /\ properties' = PutAll(properties, changed)
  OBVIOUS
<1> HIDE DEF changed
<1> QED
  BY <1>2, <1>3 DEF PutAll

(* Which lists each of the three writes.                                   *)
LEMMA RevokedLists ==
  ASSUME TypeOK, NEW p, NEW r, NEW q, NEW names, RevokeReporter(p, r, q, names)
  PROVE  /\ {r} \X names \subseteq DOMAIN properties
         /\ DOMAIN properties' = DOMAIN properties
         /\ \A k \in DOMAIN properties :
              /\ properties'[k].currentPage = properties[k].currentPage
              /\ properties'[k].reporters =
                   IF k \in {r} \X names THEN Revoked(properties[k].reporters, q)
                   ELSE properties[k].reporters
<1> DEFINE list == [k \in {r} \X names |-> Revoked(properties[k].reporters, q)]
<1>1. {r} \X names \subseteq DOMAIN properties
  BY DEF RevokeReporter, MayRevoke, Contains
<1>2. properties' = PutAll(properties,
        [k \in DOMAIN list |-> [properties[k] EXCEPT !.reporters = list[k]]])
  <2>1. [k \in DOMAIN list |-> [properties[k] EXCEPT !.reporters = list[k]]]
          = [k \in {r} \X names |->
               [properties[k] EXCEPT !.reporters = Revoked(properties[k].reporters, q)]]
    OBVIOUS
  <2> HIDE DEF list
  <2> QED
    BY <2>1 DEF RevokeReporter
<1>3. DOMAIN list = {r} \X names
  OBVIOUS
<1>4. \A k \in {r} \X names : list[k] = Revoked(properties[k].reporters, q)
  OBVIOUS
<1> HIDE DEF list
<1> QED
  BY <1>1, <1>2, <1>3, <1>4, ReportersSet

LEMMA HandedOverLists ==
  ASSUME TypeOK, NEW p, NEW a, AcceptOwnership(p, a)
  PROVE  LET keys == {a.record} \X DOMAIN tables[records[a.record].table]
         IN  /\ keys \subseteq DOMAIN properties
             /\ DOMAIN properties' = DOMAIN properties
             /\ \A k \in DOMAIN properties :
                  /\ properties'[k].currentPage = properties[k].currentPage
                  /\ properties'[k].reporters =
                       IF k \in keys
                       THEN HandedOver(properties[k].reporters, Owner(a.record), a.receiver)
                       ELSE properties[k].reporters
<1> DEFINE keys == {a.record} \X DOMAIN tables[records[a.record].table]
           list == [k \in keys |->
                      HandedOver(properties[k].reporters, Owner(a.record), a.receiver)]
<1>1. keys \subseteq DOMAIN properties
  BY DEF AcceptOwnership, Contains
<1>2. properties' = PutAll(properties,
        [k \in DOMAIN list |-> [properties[k] EXCEPT !.reporters = list[k]]])
  <2>1. [k \in DOMAIN list |-> [properties[k] EXCEPT !.reporters = list[k]]]
          = [k \in keys |-> [properties[k] EXCEPT !.reporters =
               HandedOver(properties[k].reporters, Owner(a.record), a.receiver)]]
    OBVIOUS
  <2> HIDE DEF list
  <2> QED
    BY <2>1 DEF AcceptOwnership
<1>3. DOMAIN list = keys
  OBVIOUS
<1>4. \A k \in keys :
        list[k] = HandedOver(properties[k].reporters, Owner(a.record), a.receiver)
  OBVIOUS
<1> HIDE DEF list, keys
<1>5. /\ DOMAIN properties' = DOMAIN properties
      /\ \A k \in DOMAIN properties :
           /\ properties'[k].currentPage = properties[k].currentPage
           /\ properties'[k].reporters =
                IF k \in keys
                THEN HandedOver(properties[k].reporters, Owner(a.record), a.receiver)
                ELSE properties[k].reporters
  BY <1>1, <1>2, <1>3, <1>4, ReportersSet
<1> QED
  BY <1>1, <1>5 DEF keys

LEMMA AuthorizedLists ==
  ASSUME TypeOK, NEW p, NEW a, AcceptReporter(p, a)
  PROVE  LET keys == {a.record} \X proposals[a.id].properties
         IN  /\ keys \subseteq DOMAIN properties
             /\ DOMAIN properties' = DOMAIN properties
             /\ \A k \in DOMAIN properties :
                  /\ properties'[k].currentPage = properties[k].currentPage
                  /\ properties'[k].reporters =
                       IF k \in keys
                       THEN Append(properties[k].reporters,
                              NewReporter(a.receiver, Len(properties[k].reporters)))
                       ELSE properties[k].reporters
<1> DEFINE keys == {a.record} \X proposals[a.id].properties
           list == [k \in keys |-> Append(properties[k].reporters,
                      NewReporter(a.receiver, Len(properties[k].reporters)))]
<1>1. keys \subseteq DOMAIN properties
  BY DEF AcceptReporter, Contains
<1>2. properties' = PutAll(properties,
        [k \in DOMAIN list |-> [properties[k] EXCEPT !.reporters = list[k]]])
  <2>1. [k \in DOMAIN list |-> [properties[k] EXCEPT !.reporters = list[k]]]
          = [k \in keys |-> [properties[k] EXCEPT !.reporters =
               Append(properties[k].reporters,
                      NewReporter(a.receiver, Len(properties[k].reporters)))]]
    OBVIOUS
  <2> HIDE DEF list
  <2> QED
    BY <2>1 DEF AcceptReporter
<1>3. DOMAIN list = keys
  OBVIOUS
<1>4. \A k \in keys :
        list[k] = Append(properties[k].reporters,
                         NewReporter(a.receiver, Len(properties[k].reporters)))
  OBVIOUS
<1> HIDE DEF list, keys
<1>5. /\ DOMAIN properties' = DOMAIN properties
      /\ \A k \in DOMAIN properties :
           /\ properties'[k].currentPage = properties[k].currentPage
           /\ properties'[k].reporters =
                IF k \in keys
                THEN Append(properties[k].reporters,
                            NewReporter(a.receiver, Len(properties[k].reporters)))
                ELSE properties[k].reporters
  BY <1>1, <1>2, <1>3, <1>4, ReportersSet
<1> QED
  BY <1>1, <1>5 DEF keys

LEMMA KeysStay ==
  ASSUME LInv, [Next]_vars, \A p, r, t, provided, ts : ~Creates(p, r, t, provided, ts)
  PROVE  KeysKept
<1>1. CASE UNCHANGED <<records, properties, pages>>
  BY <1>1 DEF KeysKept
<1>2. ASSUME NEW p, NEW r, FinalizeRecord(p, r) PROVE KeysKept
  BY <1>2 DEF FinalizeRecord, Contains, Put, KeysKept
<1>3. ASSUME NEW p, NEW r, NEW updates, NEW ts, Updates(p, r, updates, ts) PROVE KeysKept
  <2>1. UpdateProperties(p, r, updates, ts) /\ UNCHANGED records
    BY <1>3 DEF Updates, UpdateProperties
  <2>2. DOMAIN pages' = DOMAIN pages
    BY <2>1, UpdatedPages DEF LInv
  <2>3. /\ DOMAIN properties' = DOMAIN properties
        /\ \A k \in DOMAIN properties : properties'[k].currentPage = 1
    BY <2>1, UpdatedProperties DEF LInv, IInv
  <2> QED
    BY <2>1, <2>2, <2>3 DEF KeysKept, LInv, OnePage
<1>4. ASSUME NEW p, NEW r, NEW q, NEW names, Revokes(p, r, q, names) PROVE KeysKept
  <2>1. RevokeReporter(p, r, q, names) /\ UNCHANGED <<records, pages>>
    BY <1>4 DEF Revokes, RevokeReporter
  <2> QED
    BY <2>1, RevokedLists DEF KeysKept, LInv, IInv
<1>5. ASSUME NEW p, NEW a, Answers(p, a) PROVE KeysKept
  <2>1. CASE AcceptOwnership(p, a)
    <3>1. DOMAIN records' = DOMAIN records /\ UNCHANGED pages
      BY <2>1 DEF AcceptOwnership, Contains, Put
    <3> QED
      BY <2>1, <3>1, HandedOverLists DEF KeysKept, LInv, IInv
  <2>2. CASE AcceptCustodianship(p, a)
    BY <2>2 DEF AcceptCustodianship, Contains, Put, KeysKept
  <2>3. CASE AcceptReporter(p, a)
    <3>1. UNCHANGED <<records, pages>>
      BY <2>3 DEF AcceptReporter
    <3> QED
      BY <2>3, <3>1, AuthorizedLists DEF KeysKept, LInv, IInv
  <2> QED
    BY <1>5, <2>1, <2>2, <2>3 DEF Answers
<1> QED
  BY <1>1, <1>2, <1>3, <1>4, <1>5, Steps

(* Keys that stay keep the links.                                          *)
LEMMA KeptLinked ==
  ASSUME LInv, KeysKept, TablesKept,
         \A r \in DOMAIN records : RecordKept(records[r], records'[r])
  PROVE  PropertiesOfTables' /\ OnePage'
<1>1. ASSUME NEW r \in DOMAIN records
      PROVE  DOMAIN tables'[records'[r].table] = DOMAIN tables[records[r].table]
  <2>1. records'[r].table = records[r].table /\ records[r].table \in DOMAIN tables
    BY DEF LInv, RecordsComplete, RecordKept, ChainsKept
  <2> QED
    BY <2>1 DEF TablesKept
<1>2. PropertiesOfTables'
  BY <1>1 DEF KeysKept, LInv, PropertiesOfTables
<1>3. OnePage'
  BY DEF KeysKept, LInv, OnePage
<1> QED
  BY <1>2, <1>3

(* A new record comes with its properties and their first pages.           *)
LEMMA CreatedLinked ==
  ASSUME LInv, NEW p, NEW r, NEW t, NEW provided, NEW ts,
         Creates(p, r, t, provided, ts)
  PROVE  PropertiesOfTables' /\ OnePage'
<1> DEFINE names == DOMAIN tables[t]
           created == [k \in {r} \X names |-> NewProperty(p, tables[t][k[2]])]
           first == [k \in {r} \X names \X {1} |->
                       IF k[2] \in DOMAIN provided
                       THEN <<[timestamp |-> ts, reporterIndex |-> 0]>> ELSE <<>>]
<1>1. /\ properties' = PutAll(properties, created)
      /\ pages' = PutAll(pages, first)
      /\ UNCHANGED tables
  BY DEF Creates, CreateRecord
<1>2. /\ r \notin DOMAIN records
      /\ DOMAIN records' = DOMAIN records \cup {r}
      /\ records'[r].table = t
      /\ \A x \in DOMAIN records : records'[x] = records[x]
  BY DEF Creates, CreateRecord, MayCreate, Contains, Put
<1>3. /\ DOMAIN created = {r} \X names
      /\ \A k \in DOMAIN created : created[k].currentPage = 1
  BY DEF NewProperty
<1>4. DOMAIN first = {<<k[1], k[2], 1>> : k \in {r} \X names}
  <2>1. DOMAIN first = {r} \X names \X {1}
    OBVIOUS
  <2> HIDE DEF first, names
  <2>2. ASSUME NEW k \in {r} \X names \X {1}
        PROVE  k \in {<<q[1], q[2], 1>> : q \in {r} \X names}
    <3>1. <<k[1], k[2]>> \in {r} \X names /\ k = <<k[1], k[2], 1>>
      OBVIOUS
    <3> DEFINE q == <<k[1], k[2]>>
    <3>2. q \in {r} \X names /\ k = <<q[1], q[2], 1>>
      BY <3>1
    <3> HIDE DEF q
    <3> QED
      BY <3>2
  <2>3. \A q \in {r} \X names : <<q[1], q[2], 1>> \in {r} \X names \X {1}
    OBVIOUS
  <2> QED
    BY <2>1, <2>2, <2>3
<1> HIDE DEF created, first
<1>5. DOMAIN properties' = DOMAIN properties \cup ({r} \X names)
  BY <1>1, <1>3 DEF PutAll
<1>6. DOMAIN pages' = DOMAIN pages \cup {<<k[1], k[2], 1>> : k \in {r} \X names}
  BY <1>1, <1>4 DEF PutAll
<1>7. \A k \in DOMAIN properties' : properties'[k].currentPage = 1
  BY <1>1, <1>3 DEF PutAll, LInv, OnePage
<1> HIDE DEF names
<1>8. DOMAIN pages' = {<<k[1], k[2], 1>> : k \in DOMAIN properties'}
  BY <1>5, <1>6 DEF LInv, OnePage
<1>9. DOMAIN properties' =
        UNION {{x} \X (DOMAIN tables'[records'[x].table]) : x \in DOMAIN records'}
  <2>1. \A x \in DOMAIN records :
          DOMAIN tables'[records'[x].table] = DOMAIN tables[records[x].table]
    BY <1>1, <1>2
  <2>2. DOMAIN tables'[records'[r].table] = names
    BY <1>1, <1>2 DEF names
  <2>3. DOMAIN properties =
          UNION {{x} \X (DOMAIN tables[records[x].table]) : x \in DOMAIN records}
    BY DEF LInv, PropertiesOfTables
  <2> QED
    BY <1>2, <1>5, <2>1, <2>2, <2>3
<1> QED
  BY <1>7, <1>8, <1>9 DEF OnePage, PropertiesOfTables

LEMMA CompleteStays ==
  ASSUME LInv, [Next]_vars
  PROVE  RecordsComplete'
<1> SUFFICES ASSUME NEW r \in DOMAIN records'
             PROVE  /\ records'[r].owners # <<>> /\ records'[r].custodians # <<>>
                    /\ records'[r].table \in DOMAIN tables'
  BY DEF RecordsComplete
<1>1. CASE r \in DOMAIN records
  <2>1. RecordKept(records[r], records'[r]) /\ TablesKept
    BY <1>1, RecordsKept, Steps DEF LInv, IInv
  <2> DEFINE os == records[r].owners
             cs == records[r].custodians
             os2 == records'[r].owners
             cs2 == records'[r].custodians
  <2>2. os \in Seq(Participants) /\ cs \in Seq(Participants) /\ os # <<>> /\ cs # <<>>
    BY <1>1 DEF LInv, IInv, TypeOK, IsStore, Record, RecordsComplete
  <2>3. Len(os) > 0 /\ Len(cs) > 0
    BY <2>2
  <2>4. Extends(os, os2) /\ Extends(cs, cs2)
    BY <2>1 DEF RecordKept, ChainsKept
  <2> HIDE DEF os, cs, os2, cs2
  <2>5. os2 # <<>> /\ cs2 # <<>>
    BY <2>2, <2>3, <2>4 DEF Extends
  <2>6. records'[r].table = records[r].table /\ records[r].table \in DOMAIN tables
    BY <1>1, <2>1 DEF RecordKept, ChainsKept, LInv, RecordsComplete
  <2> QED
    BY <2>1, <2>5, <2>6 DEF os2, cs2, TablesKept
<1>2. CASE r \notin DOMAIN records
  <2>1. PICK p, x, t, provided, ts : Creates(p, x, t, provided, ts)
    BY <1>2, KeysStay DEF KeysKept
  <2>2. /\ r = x /\ t \in DOMAIN tables /\ UNCHANGED tables
        /\ records'[x] = [table |-> t, owners |-> <<p>>, custodians |-> <<p>>, final |-> FALSE]
    BY <1>2, <2>1 DEF Creates, CreateRecord, MayCreate, Contains, Put
  <2> QED
    BY <2>2
<1> QED
  BY <1>1, <1>2

(* The links are inductive with the invariant of the lists of reporters.   *)
LEMMA LinkedInductive == Spec => []LInv
<1>1. Init => LInv
  <2>1. Init => IInv
    BY InitType DEF Init, EmptyStore, IInv, PropertiesOwned, ReportersIndexed
  <2> QED
    BY <2>1 DEF Init, EmptyStore, LInv, RecordsComplete, PropertiesOfTables, OnePage
<1>2. LInv /\ [Next]_vars => LInv'
  <2> SUFFICES ASSUME LInv, [Next]_vars PROVE LInv'
    OBVIOUS
  <2>1. IInv'
    BY NextType, NextKept DEF LInv, IInv
  <2>2. RecordsComplete'
    BY CompleteStays
  <2>3. PropertiesOfTables' /\ OnePage'
    <3>1. CASE \E p, r, t, provided, ts : Creates(p, r, t, provided, ts)
      BY <3>1, CreatedLinked
    <3>2. CASE ~(\E p, r, t, provided, ts : Creates(p, r, t, provided, ts))
      <4>1. KeysKept
        BY <3>2, KeysStay
      <4>2. \A r \in DOMAIN records : RecordKept(records[r], records'[r])
        BY RecordsKept DEF LInv, IInv
      <4> QED
        BY <4>1, <4>2, KeptLinked, Steps
    <3> QED
      BY <3>1, <3>2
  <2> QED
    BY <2>1, <2>2, <2>3 DEF LInv
<1> QED
  BY <1>1, <1>2, PTL DEF Spec

(* Whatever handlers look up of a record, a property or a page is there.   *)
THEOREM RecordsLinked == Spec => []WellLinked
<1>1. LInv => WellLinked
  BY DEF LInv, RecordsComplete, PropertiesOfTables, OnePage, WellLinked, CurrentPage
<1> QED
  BY <1>1, LinkedInductive, PTL

-----------------------------------------------------------------------------
(* Who is mentioned is registered. *)

Known(chain) == \A i \in DOMAIN chain : chain[i] \in DOMAIN participants
KeysKnown(reporters) ==
  \A i \in DOMAIN reporters : reporters[i].key \in DOMAIN participants

ChainsKnown ==
  \A r \in DOMAIN records : Known(records[r].owners) /\ Known(records[r].custodians)
ReportersKnown == \A k \in DOMAIN properties : KeysKnown(properties[k].reporters)
IssuersKnown == \A id \in DOMAIN proposals : proposals[id].issuer \in DOMAIN participants

RInv == ChainsKnown /\ ReportersKnown /\ IssuersKnown

LEMMA RegisteredParts == RInv => Registered
<1> SUFFICES ASSUME RInv, NEW q \in Mentioned PROVE q \in DOMAIN participants
  BY DEF Registered
<1> DEFINE Chained == UNION {{r.owners[i] : i \in DOMAIN r.owners}
                               \cup {r.custodians[i] : i \in DOMAIN r.custodians} :
                             r \in {records[id] : id \in DOMAIN records}}
           Reporting == UNION {{properties[k].reporters[i].key :
                                  i \in DOMAIN properties[k].reporters} :
                               k \in DOMAIN properties}
           Issuing == {proposals[id].issuer : id \in DOMAIN proposals}
<1>1. q \in Chained \/ q \in Reporting \/ q \in Issuing
  <2>1. Mentioned = Chained \cup Reporting \cup Issuing
    BY Zenon DEF Mentioned
  <2> HIDE DEF Chained, Reporting, Issuing
  <2> QED
    BY <2>1
<1>2. q \in Chained => q \in DOMAIN participants
  BY DEF RInv, ChainsKnown, Known
<1>3. q \in Reporting => q \in DOMAIN participants
  BY DEF RInv, ReportersKnown, KeysKnown
<1>4. q \in Issuing => q \in DOMAIN participants
  BY DEF RInv, IssuersKnown
<1> QED
  BY <1>1, <1>2, <1>3, <1>4

(* No participant is ever removed, and an answer leaves the issuer of a    *)
(* proposal as it was.                                                     *)
LEMMA ParticipantsStay ==
  ASSUME TypeOK, [Next]_vars, IssuersKnown
  PROVE  DOMAIN participants \subseteq DOMAIN participants' /\ IssuersKnown'
<1> DEFINE Grow == DOMAIN participants \subseteq DOMAIN participants'
<1>1. ASSUME Grow, UNCHANGED proposals PROVE IssuersKnown'
  BY <1>1 DEF IssuersKnown
<1>2. ASSUME Grow, NEW id, NEW entry, proposals' = Put(proposals, id, entry),
             entry.issuer \in DOMAIN participants
      PROVE  IssuersKnown'
  BY <1>2 DEF IssuersKnown, Put
<1>3. ASSUME NEW id \in DOMAIN proposals, NEW status, NEW amount
      PROVE  /\ [proposals[id] EXCEPT !.status = status].issuer = proposals[id].issuer
             /\ [proposals[id] EXCEPT !.exchanged = @ + amount, !.status = status].issuer
                  = proposals[id].issuer
  <2>1. proposals[id] \in Proposal
    BY DEF TypeOK, IsStore
  <2> DEFINE sum == proposals[id].exchanged + amount
  <2> HIDE DEF sum
  <2>2. [proposals[id] EXCEPT !.exchanged = sum, !.status = status].issuer
          = proposals[id].issuer
    BY <2>1 DEF Proposal
  <2>3. [proposals[id] EXCEPT !.status = status].issuer = proposals[id].issuer
    BY <2>1 DEF Proposal
  <2> QED
    BY <2>2, <2>3 DEF sum
<1>4. CASE UNCHANGED vars
  BY <1>1, <1>4 DEF vars
<1>5. ASSUME NEW p \in Participants, RecordTransaction(p) PROVE Grow /\ IssuersKnown'
  <2>1. UNCHANGED proposals
    BY <1>5
    DEF RecordTransaction, CreateParticipant, CreateTable, CreateRecord,
        FinalizeRecord, UpdateProperties, RevokeReporter
  <2>2. Grow
    BY <1>5
    DEF RecordTransaction, CreateParticipant, CreateTable, CreateRecord,
        FinalizeRecord, UpdateProperties, RevokeReporter, Put
  <2> QED
    BY <1>1, <2>1, <2>2
<1>6. ASSUME NEW p \in Participants, NEW c \in ProposalPayloads, CreateProposal(p, c)
      PROVE  Grow /\ IssuersKnown'
  <2> DEFINE proposal == [status |-> "OPEN", role |-> c.role, issuer |-> p,
               receiver |-> c.receiver, record |-> c.record,
               properties |-> c.properties, amount |-> c.amount, exchanged |-> 0]
  <2>1. Grow /\ p \in DOMAIN participants /\ proposals' = Put(proposals, c.id, proposal)
    BY <1>6 DEF CreateProposal, Contains
  <2>2. proposal.issuer = p
    OBVIOUS
  <2> HIDE DEF proposal
  <2> QED
    BY <1>2, <2>1, <2>2
<1>7. ASSUME NEW p \in Participants, NEW a \in AnswerPayloads, AnswerProposal(p, a)
      PROVE  Grow /\ IssuersKnown'
  <2>1. Grow /\ Contains(proposals, a.id)
    BY <1>7
    DEF AnswerProposal, CancelProposal, RejectProposal, AutoOpenBuy, AutoOpenSell,
        AutoCloseBuy, AutoCloseSell, AcceptCredit, AcceptTransferCoins,
        AcceptOwnership, AcceptCustodianship, AcceptReporter, MayAccept, MayAnswer, Put
  <2>2. \/ \E status : SetStatus(a.id, status)
        \/ \E status : Exchanged(a.id, a.amount, status)
    BY <1>7
    DEF AnswerProposal, CancelProposal, RejectProposal, AutoOpenBuy, AutoOpenSell,
        AutoCloseBuy, AutoCloseSell, AcceptCredit, AcceptTransferCoins,
        AcceptOwnership, AcceptCustodianship, AcceptReporter
  <2>3. a.id \in DOMAIN proposals /\ proposals[a.id].issuer \in DOMAIN participants
    BY <2>1 DEF Contains, IssuersKnown
  <2>4. ASSUME NEW status, SetStatus(a.id, status) PROVE IssuersKnown'
    <3> DEFINE entry == [proposals[a.id] EXCEPT !.status = status]
    <3>1. entry.issuer \in DOMAIN participants
      BY <1>3, <2>3
    <3>2. proposals' = Put(proposals, a.id, entry)
      BY <2>4 DEF SetStatus
    <3> HIDE DEF entry
    <3> QED
      BY <1>2, <2>1, <3>1, <3>2
  <2>5. ASSUME NEW status, Exchanged(a.id, a.amount, status) PROVE IssuersKnown'
    <3> DEFINE entry ==
                 [proposals[a.id] EXCEPT !.exchanged = @ + a.amount, !.status = status]
    <3>1. entry.issuer \in DOMAIN participants
      BY <1>3, <2>3
    <3>2. proposals' = Put(proposals, a.id, entry)
      BY <2>5 DEF Exchanged
    <3> HIDE DEF entry
    <3> QED
      BY <1>2, <2>1, <3>1, <3>2
  <2> QED
    BY <2>1, <2>2, <2>4, <2>5
<1>8. Grow /\ IssuersKnown'
  BY <1>1, <1>4, <1>5, <1>6, <1>7 DEF Next, ProposalTransaction, vars
<1> QED
  BY <1>8

(* Owners and custodians are known: a record is created by a registered    *)
(* signer, and whoever is handed it is looked up.                          *)
LEMMA ChainsStayKnown ==
  ASSUME TypeOK, [Next]_vars, RInv
  PROVE  ChainsKnown'
<1>1. DOMAIN participants \subseteq DOMAIN participants'
  BY ParticipantsStay DEF RInv
<1>2. UNCHANGED records => ChainsKnown'
  BY <1>1 DEF RInv, ChainsKnown, Known
<1>3. ASSUME NEW x, NEW entry, records' = Put(records, x, entry),
             \A i \in DOMAIN entry.owners : entry.owners[i] \in DOMAIN participants,
             \A i \in DOMAIN entry.custodians : entry.custodians[i] \in DOMAIN participants
      PROVE  ChainsKnown'
  <2> SUFFICES ASSUME NEW r \in DOMAIN records'
               PROVE  (Known(records[r].owners) /\ Known(records[r].custodians))'
    BY DEF ChainsKnown
  <2>1. CASE r = x
    <3>1. records'[r] = entry
      BY <1>3, <2>1 DEF Put
    <3> QED
      BY <1>1, <1>3, <3>1 DEF Known
  <2>2. CASE r # x
    <3>1. r \in DOMAIN records /\ records'[r] = records[r]
      BY <1>3, <2>2 DEF Put
    <3> QED
      BY <1>1, <3>1 DEF Known, RInv, ChainsKnown
  <2> QED
    BY <2>1, <2>2
<1>4. ASSUME NEW p, NEW x, NEW t, NEW provided, NEW ts, Creates(p, x, t, provided, ts)
      PROVE  ChainsKnown'
  <2> DEFINE entry == [table |-> t, owners |-> <<p>>, custodians |-> <<p>>, final |-> FALSE]
  <2>1. records' = Put(records, x, entry) /\ p \in DOMAIN participants
    BY <1>4 DEF Creates, CreateRecord, MayCreate, Contains
  <2>2. entry.owners = <<p>> /\ entry.custodians = <<p>>
    OBVIOUS
  <2>3. \A i \in DOMAIN <<p>> : <<p>>[i] = p
    OBVIOUS
  <2> HIDE DEF entry
  <2> QED
    BY <1>3, <2>1, <2>2, <2>3
<1>5. ASSUME NEW p, NEW x, FinalizeRecord(p, x) PROVE ChainsKnown'
  <2> DEFINE entry == [records[x] EXCEPT !.final = TRUE]
  <2>1. records' = Put(records, x, entry) /\ x \in DOMAIN records
    BY <1>5 DEF FinalizeRecord, Contains
  <2>2. records[x] \in Record
    BY <2>1 DEF TypeOK, IsStore
  <2>3. entry.owners = records[x].owners /\ entry.custodians = records[x].custodians
    BY <2>2 DEF Record
  <2> HIDE DEF entry
  <2> QED
    BY <1>3, <2>1, <2>3 DEF RInv, ChainsKnown, Known
<1>6. ASSUME NEW q \in DOMAIN participants, NEW chain \in Seq(Participants), Known(chain)
      PROVE  \A i \in DOMAIN Append(chain, q) : Append(chain, q)[i] \in DOMAIN participants
  BY <1>6 DEF Known
<1>7. ASSUME NEW p, NEW a, AcceptOwnership(p, a) PROVE ChainsKnown'
  <2> DEFINE x == a.record
             longer == Append(records[x].owners, a.receiver)
             entry == [records[x] EXCEPT !.owners = longer]
  <2>1. records' = Put(records, x, entry)
    BY <1>7 DEF AcceptOwnership
  <2>2. x \in DOMAIN records /\ a.receiver \in DOMAIN participants
    BY <1>7 DEF AcceptOwnership, MayAccept, Contains
  <2>3. records[x] \in Record /\ records[x].owners \in Seq(Participants)
    BY <2>2 DEF TypeOK, IsStore, Record
  <2>4. Known(records[x].owners) /\ Known(records[x].custodians)
    BY <2>2 DEF RInv, ChainsKnown
  <2>5. \A i \in DOMAIN longer : longer[i] \in DOMAIN participants
    BY <1>6, <2>2, <2>3, <2>4
  <2> HIDE DEF longer
  <2>6. entry.owners = longer /\ entry.custodians = records[x].custodians
    BY <2>3 DEF Record
  <2> HIDE DEF entry
  <2> QED
    BY <1>3, <2>1, <2>4, <2>5, <2>6 DEF Known
<1>8. ASSUME NEW p, NEW a, AcceptCustodianship(p, a) PROVE ChainsKnown'
  <2> DEFINE x == a.record
             longer == Append(records[x].custodians, a.receiver)
             entry == [records[x] EXCEPT !.custodians = longer]
  <2>1. records' = Put(records, x, entry)
    BY <1>8 DEF AcceptCustodianship
  <2>2. x \in DOMAIN records /\ a.receiver \in DOMAIN participants
    BY <1>8 DEF AcceptCustodianship, MayAccept, Contains
  <2>3. records[x] \in Record /\ records[x].custodians \in Seq(Participants)
    BY <2>2 DEF TypeOK, IsStore, Record
  <2>4. Known(records[x].owners) /\ Known(records[x].custodians)
    BY <2>2 DEF RInv, ChainsKnown
  <2>5. \A i \in DOMAIN longer : longer[i] \in DOMAIN participants
    BY <1>6, <2>2, <2>3, <2>4
  <2> HIDE DEF longer
  <2>6. entry.custodians = longer /\ entry.owners = records[x].owners
    BY <2>3 DEF Record
  <2> HIDE DEF entry
  <2> QED
    BY <1>3, <2>1, <2>4, <2>5, <2>6 DEF Known
<1>9. CASE ~UNCHANGED records
  <2>1. \A p, x, updates, ts : ~Updates(p, x, updates, ts)
    BY <1>9 DEF Updates, UpdateProperties
  <2>2. \A p, x, q, names : ~Revokes(p, x, q, names)
    BY <1>9 DEF Revokes, RevokeReporter
  <2>3. \A p, a : ~AcceptReporter(p, a)
    BY <1>9 DEF AcceptReporter
  <2> QED
    BY <1>4, <1>5, <1>7, <1>8, <1>9, <2>1, <2>2, <2>3, Steps DEF Answers
<1> QED
  BY <1>2, <1>9

(* So are reporters: the creator, a new owner, whoever is authorized.      *)
LEMMA ListsStayKnown ==
  ASSUME LInv, [Next]_vars, RInv
  PROVE  ReportersKnown'
<1>1. DOMAIN participants \subseteq DOMAIN participants'
  BY ParticipantsStay DEF RInv, LInv, IInv
<1>2. ASSUME NEW k \in DOMAIN properties
      PROVE  properties[k].reporters \in Seq(Reporter) /\ KeysKnown(properties[k].reporters)
  BY StoredReporters DEF RInv, ReportersKnown, LInv, IInv
<1>3. ASSUME DOMAIN properties' = DOMAIN properties,
             \A k \in DOMAIN properties : KeysKnown(properties'[k].reporters)
      PROVE  ReportersKnown'
  BY <1>1, <1>3 DEF ReportersKnown, KeysKnown
<1>4. CASE UNCHANGED properties
  BY <1>2, <1>3, <1>4
<1>5. ASSUME NEW p, NEW r, NEW t, NEW provided, NEW ts, Creates(p, r, t, provided, ts)
      PROVE  ReportersKnown'
  <2> DEFINE created == [k \in {r} \X (DOMAIN tables[t]) |-> NewProperty(p, tables[t][k[2]])]
  <2>1. properties' = PutAll(properties, created) /\ p \in DOMAIN participants
    BY <1>5 DEF Creates, CreateRecord, MayCreate, Contains
  <2>2. \A k \in DOMAIN created : KeysKnown(created[k].reporters)
    BY <2>1 DEF KeysKnown, NewProperty, NewReporter
  <2> HIDE DEF created
  <2>3. \A k \in DOMAIN properties' : KeysKnown(properties'[k].reporters)
    BY <1>2, <2>1, <2>2 DEF PutAll
  <2> QED
    BY <1>1, <2>3 DEF ReportersKnown, KeysKnown
<1>6. ASSUME NEW p, NEW r, NEW updates, NEW ts, Updates(p, r, updates, ts)
      PROVE  ReportersKnown'
  BY <1>2, <1>3, <1>6, UpdatedProperties DEF Updates, LInv, IInv
<1>7. ASSUME NEW p, NEW r, NEW q, NEW names, Revokes(p, r, q, names)
      PROVE  ReportersKnown'
  <2>1. ASSUME NEW k \in DOMAIN properties
        PROVE  KeysKnown(Revoked(properties[k].reporters, q))
    <3> DEFINE list == properties[k].reporters
               after == Revoked(list, q)
    <3>1. list \in Seq(Reporter) /\ KeysKnown(list)
      BY <1>2
    <3>2. /\ after \in Seq(Reporter) /\ Len(after) = Len(list)
          /\ \A i \in 1..Len(list) : after[i].key = list[i].key
      BY <3>1, RevokedEntries
    <3> HIDE DEF list, after
    <3>3. KeysKnown(after)
      BY <3>1, <3>2 DEF KeysKnown
    <3> QED
      BY <3>3 DEF after, list
  <2> QED
    BY <1>2, <1>3, <1>7, <2>1, RevokedLists DEF Revokes, LInv, IInv
<1>8. ASSUME NEW list \in Seq(Reporter), KeysKnown(list), NEW q \in DOMAIN participants,
             NEW after \in Seq(Reporter), Len(after) \in {Len(list), Len(list) + 1},
             \A i \in 1..Len(list) : after[i].key = list[i].key,
             Len(after) = Len(list) + 1 => after[Len(after)].key = q
      PROVE  KeysKnown(after)
  <2> DEFINE n == Len(list)
             m == Len(after)
  <2>1. /\ n \in Nat /\ m \in {n, n + 1} /\ DOMAIN list = 1..n /\ DOMAIN after = 1..m
        /\ \A i \in 1..n : after[i].key = list[i].key
        /\ m = n + 1 => after[m].key = q
    BY <1>8
  <2> HIDE DEF n, m
  <2> SUFFICES ASSUME NEW i \in 1..m PROVE after[i].key \in DOMAIN participants
    BY <2>1 DEF KeysKnown
  <2>2. i \in 1..n \/ (m = n + 1 /\ i = m)
    BY <2>1
  <2> QED
    BY <1>8, <2>1, <2>2 DEF KeysKnown
<1>9. ASSUME NEW p, NEW a, AcceptOwnership(p, a) PROVE ReportersKnown'
  <2>1. a.receiver \in DOMAIN participants /\ a.receiver \in Participants
    BY <1>9 DEF AcceptOwnership, MayAccept, Contains, LInv, IInv, TypeOK, IsStore
  <2>2. ASSUME NEW k \in DOMAIN properties
        PROVE  KeysKnown(HandedOver(properties[k].reporters, Owner(a.record), a.receiver))
    <3> DEFINE list == properties[k].reporters
               after == HandedOver(list, Owner(a.record), a.receiver)
    <3>1. list \in Seq(Reporter) /\ KeysKnown(list)
      BY <1>2
    <3>2. /\ after \in Seq(Reporter)
          /\ Len(after) \in {Len(list), Len(list) + 1}
          /\ \A i \in 1..Len(list) : after[i].key = list[i].key
          /\ Len(after) = Len(list) + 1 =>
               after[Len(after)] = NewReporter(a.receiver, Len(list))
      BY <2>1, <3>1, HandedOverEntries
    <3>3. NewReporter(a.receiver, Len(list)).key = a.receiver
      BY DEF NewReporter
    <3> HIDE DEF list, after
    <3>4. KeysKnown(after)
      BY <1>8, <2>1, <3>1, <3>2, <3>3
    <3> QED
      BY <3>4 DEF after, list
  <2> QED
    BY <1>2, <1>3, <1>9, <2>2, HandedOverLists DEF LInv, IInv
<1>10. ASSUME NEW p, NEW a, AcceptReporter(p, a) PROVE ReportersKnown'
  <2>1. a.receiver \in DOMAIN participants /\ a.receiver \in Participants
    BY <1>10 DEF AcceptReporter, MayAccept, Contains, LInv, IInv, TypeOK, IsStore
  <2>2. ASSUME NEW k \in DOMAIN properties
        PROVE  KeysKnown(Append(properties[k].reporters,
                                NewReporter(a.receiver, Len(properties[k].reporters))))
    <3> DEFINE list == properties[k].reporters
               entry == NewReporter(a.receiver, Len(list))
               after == Append(list, entry)
    <3>1. list \in Seq(Reporter) /\ KeysKnown(list)
      BY <1>2
    <3>2. entry \in Reporter /\ entry.key = a.receiver
      BY <2>1, <3>1, NewReporterType DEF NewReporter
    <3> HIDE DEF list, entry
    <3>3. /\ after \in Seq(Reporter) /\ Len(after) = Len(list) + 1
          /\ \A i \in 1..Len(list) : after[i] = list[i]
          /\ after[Len(list) + 1] = entry
      BY <3>1, <3>2, AppendProperties
    <3> HIDE DEF after
    <3>4. KeysKnown(after)
      BY <1>8, <2>1, <3>1, <3>2, <3>3
    <3> QED
      BY <3>4 DEF after, list, entry
  <2> QED
    BY <1>2, <1>3, <1>10, <2>2, AuthorizedLists DEF LInv, IInv
<1>11. CASE ~UNCHANGED properties
  <2>1. \A p, r : ~FinalizeRecord(p, r)
    BY <1>11 DEF FinalizeRecord
  <2>2. \A p, a : ~AcceptCustodianship(p, a)
    BY <1>11 DEF AcceptCustodianship
  <2> QED
    BY <1>5, <1>6, <1>7, <1>9, <1>10, <1>11, <2>1, <2>2, Steps DEF Answers
<1> QED
  BY <1>4, <1>11

LEMMA RegisteredInductive == Spec => []RInv
<1>1. Init => RInv
  BY DEF Init, EmptyStore, RInv, ChainsKnown, ReportersKnown, IssuersKnown
<1>2. LInv /\ RInv /\ [Next]_vars => RInv'
  BY ParticipantsStay, ChainsStayKnown, ListsStayKnown DEF RInv, LInv, IInv
<1> QED
  BY <1>1, <1>2, LinkedInductive, PTL DEF Spec

(* Nobody unregistered owns, keeps or reports on a record or issues a      *)
(* proposal.                                                               *)
THEOREM OnlyRegistered == Spec => []Registered
<1>1. RInv => Registered
  BY RegisteredParts
<1> QED
  BY <1>1, RegisteredInductive, PTL

-----------------------------------------------------------------------------
(* Pages. *)

(* What an update writes to a page.                                        *)
PageWritten(k, p, ts) ==
  IF Full(PageAfter(p, k[1], k[2], ts)) THEN <<>> ELSE PageAfter(p, k[1], k[2], ts)

(* A page stays as it is but for an update of its property.                *)
LEMMA PageSteps ==
  ASSUME LInv, [Next]_vars, NEW k \in DOMAIN pages
  PROVE  /\ k \in DOMAIN pages'
         /\ \/ pages'[k] = pages[k]
            \/ \E p, updates, ts :
                 /\ Updates(p, k[1], updates, ts)
                 /\ k[2] \in DOMAIN updates /\ k = <<k[1], k[2], 1>>
                 /\ pages'[k] = PageWritten(k, p, ts)
<1> DEFINE Goal == /\ k \in DOMAIN pages'
                   /\ \/ pages'[k] = pages[k]
                      \/ \E p, updates, ts :
                           /\ Updates(p, k[1], updates, ts)
                           /\ k[2] \in DOMAIN updates /\ k = <<k[1], k[2], 1>>
                           /\ pages'[k] = PageWritten(k, p, ts)
<1>1. <<k[1], k[2]>> \in DOMAIN properties /\ k = <<k[1], k[2], 1>>
  <2>1. PICK q \in DOMAIN properties : k = <<q[1], q[2], 1>>
    BY DEF LInv, OnePage
  <2>2. q = <<q[1], q[2]>>
    BY DEF LInv, IInv, TypeOK, IsStore
  <2> QED
    BY <2>1, <2>2
<1>2. UNCHANGED pages => Goal
  OBVIOUS
<1>3. ASSUME NEW p, NEW r, NEW t, NEW provided, NEW ts, Creates(p, r, t, provided, ts)
      PROVE  Goal
  <2> DEFINE first == [q \in {r} \X (DOMAIN tables[t]) \X {1} |->
                         IF q[2] \in DOMAIN provided
                         THEN <<[timestamp |-> ts, reporterIndex |-> 0]>> ELSE <<>>]
  <2>1. pages' = PutAll(pages, first) /\ r \notin DOMAIN records
    BY <1>3 DEF Creates, CreateRecord, MayCreate, Contains
  <2>2. k[1] \in DOMAIN records
    BY <1>1 DEF LInv, IInv, PropertiesOwned
  <2>3. k \notin DOMAIN first
    BY <2>1, <2>2
  <2> HIDE DEF first
  <2> QED
    BY <2>1, <2>3 DEF PutAll
<1>4. ASSUME NEW p, NEW r, NEW updates, NEW ts, Updates(p, r, updates, ts) PROVE Goal
  <2>1. UpdateProperties(p, r, updates, ts)
    BY <1>4 DEF Updates
  <2>2. CASE k[1] = r /\ k[2] \in DOMAIN updates
    <3>1. k \in DOMAIN pages' /\ pages'[k] = PageWritten(k, p, ts)
      <4>1. DOMAIN pages' = DOMAIN pages
        BY <2>1, UpdatedPages DEF LInv
      <4>3. pages'[<<r, k[2], 1>>] = IF Full(PageAfter(p, r, k[2], ts)) THEN <<>>
                                     ELSE PageAfter(p, r, k[2], ts)
        BY <2>1, <2>2, UpdatedPage DEF LInv
      <4> QED
        BY <1>1, <2>2, <4>1, <4>3 DEF PageWritten
    <3> QED
      BY <1>1, <1>4, <2>2, <3>1
  <2>3. CASE ~(k[1] = r /\ k[2] \in DOMAIN updates)
    BY <2>1, <2>3, UpdatedPages DEF LInv
  <2> QED
    BY <2>2, <2>3
<1> HIDE DEF Goal
<1>5. ASSUME ~UNCHANGED pages PROVE Goal
  <2>1. \A p, r : ~FinalizeRecord(p, r)
    BY <1>5 DEF FinalizeRecord
  <2>2. \A p, r, q, names : ~Revokes(p, r, q, names)
    BY <1>5 DEF Revokes, RevokeReporter
  <2>3. \A p, a : ~Answers(p, a)
    BY <1>5 DEF Answers, AcceptOwnership, AcceptCustodianship, AcceptReporter
  <2>4. \/ \E p, r, t, provided, ts : Creates(p, r, t, provided, ts)
        \/ \E p, r, updates, ts : Updates(p, r, updates, ts)
    BY <1>5, <2>1, <2>2, <2>3, Steps
  <2> QED
    BY <1>3, <1>4, <2>4
<1> QED
  BY <1>2, <1>5 DEF Goal

(* A page appears with its record, empty or with the first value of the    *)
(* record's creator.                                                       *)
LEMMA NewPages ==
  ASSUME LInv, [Next]_vars, NEW k \in DOMAIN pages', k \notin DOMAIN pages
  PROVE  \E p, t, provided, ts :
           /\ Creates(p, k[1], t, provided, ts)
           /\ k[2] \in DOMAIN tables[t] /\ k = <<k[1], k[2], 1>>
           /\ pages'[k] = IF k[2] \in DOMAIN provided
                          THEN <<[timestamp |-> ts, reporterIndex |-> 0]>> ELSE <<>>
<1>1. PICK p, r, t, provided, ts : Creates(p, r, t, provided, ts)
  BY KeysStay DEF KeysKept
<1> DEFINE first == [q \in {r} \X (DOMAIN tables[t]) \X {1} |->
                       IF q[2] \in DOMAIN provided
                       THEN <<[timestamp |-> ts, reporterIndex |-> 0]>> ELSE <<>>]
<1>2. pages' = PutAll(pages, first)
  BY <1>1 DEF Creates, CreateRecord
<1>3. k \in DOMAIN first
  <2> HIDE DEF first
  <2> QED
    BY <1>2 DEF PutAll
<1>4. /\ k[1] = r /\ k[2] \in DOMAIN tables[t] /\ k = <<k[1], k[2], 1>>
      /\ first[k] = IF k[2] \in DOMAIN provided
                    THEN <<[timestamp |-> ts, reporterIndex |-> 0]>> ELSE <<>>
  BY <1>3
<1>5. pages'[k] = first[k]
  <2> HIDE DEF first
  <2> QED
    BY <1>2, <1>3 DEF PutAll
<1> QED
  BY <1>1, <1>4, <1>5

(* The value an update adds names an authorized entry of the signer.       *)
LEMMA ReportMade ==
  ASSUME LInv, NEW k \in DOMAIN pages, NEW p, NEW updates, NEW ts,
         Updates(p, k[1], updates, ts), k[2] \in DOMAIN updates
  PROVE  LET prop == properties[<<k[1], k[2]>>]
         IN  /\ <<k[1], k[2]>> \in DOMAIN properties
             /\ ~prop.fixed
             /\ prop.reporters \in Seq(Reporter)
             /\ \E i \in Entitled(prop.reporters, p) :
                  LET value == [timestamp |-> ts, reporterIndex |-> i - 1]
                  IN  /\ i \in 1..Len(prop.reporters)
                      /\ value \in ReportedValue
                      /\ PageAfter(p, k[1], k[2], ts) = Report(pages[k], value)
<1> DEFINE prop == properties[<<k[1], k[2]>>]
           list == prop.reporters
<1>1. UpdateProperties(p, k[1], updates, ts) /\ ts \in Timestamps
  BY DEF Updates
<1>2. /\ <<k[1], k[2]>> \in DOMAIN properties
      /\ Entitled(list, p) # {} /\ ~prop.fixed
  BY <1>1, Zenon DEF UpdateProperties, MayReport, Contains
<1>3. list \in Seq(Reporter) /\ Indexed(list)
  BY <1>2, StoredReporters DEF LInv, IInv
<1>4. CurrentPage(k[1], k[2]) = k
  <2>1. PICK q \in DOMAIN properties : k = <<q[1], q[2], 1>>
    BY DEF LInv, OnePage
  <2>2. CurrentPage(k[1], k[2]) = <<k[1], k[2], 1>>
    BY <1>1, UpdatedPage DEF LInv
  <2> QED
    BY <2>1, <2>2
<1> HIDE DEF list
<1>5. PICK i \in Entitled(list, p) : ReporterIndex(list, p) = list[i].index
  BY <1>2, <1>3, ReporterIndexEntitled
<1>6. i \in 1..Len(list) /\ list[i].index = i - 1
  BY <1>3 DEF Entitled, Indexed
<1> DEFINE value == [timestamp |-> ts, reporterIndex |-> i - 1]
<1>7. value \in ReportedValue
  BY <1>1, <1>3, <1>6 DEF ReportedValue
<1>8. PageAfter(p, k[1], k[2], ts) = Report(pages[k], value)
  BY <1>4, <1>5, <1>6 DEF PageAfter, list
<1> HIDE DEF value
<1>9. \E j \in Entitled(list, p) :
        /\ j \in 1..Len(list)
        /\ [timestamp |-> ts, reporterIndex |-> j - 1] \in ReportedValue
        /\ PageAfter(p, k[1], k[2], ts)
             = Report(pages[k], [timestamp |-> ts, reporterIndex |-> j - 1])
  BY <1>6, <1>7, <1>8 DEF value
<1> QED
  BY <1>2, <1>3, <1>9, Zenon DEF list

-----------------------------------------------------------------------------
(* Values in a page. *)

(* A page in order, with room for a value, that names n reporters at most. *)
Sound(page, n) ==
  /\ Sorted(page)
  /\ Len(page) < PROPERTY_PAGE_MAX_LENGTH
  /\ \A i \in DOMAIN page : page[i].reporterIndex < n

PInv ==
  \A k \in DOMAIN pages : Sound(pages[k], Len(properties[<<k[1], k[2]>>].reporters))

LEMMA SoundPages ==
  /\ \A n \in Nat : Sound(<<>>, n)
  /\ \A v \in ReportedValue : \A n \in Nat : v.reporterIndex < n => Sound(<<v>>, n)
<1>1. ASSUME NEW n \in Nat PROVE Sound(<<>>, n)
  BY PageMaxAssumption DEF Sound, Sorted
<1>2. ASSUME NEW v \in ReportedValue, NEW n \in Nat, v.reporterIndex < n
      PROVE  Sound(<<v>>, n)
  <2>1. DOMAIN <<v>> = {1} /\ <<v>>[1] = v /\ Len(<<v>>) = 1
    OBVIOUS
  <2>2. NotLater(v, v)
    BY NotLaterOrder
  <2>3. Sorted(<<v>>)
    BY <2>1, <2>2 DEF Sorted
  <2> QED
    BY <1>2, <2>1, <2>3, PageMaxAssumption DEF Sound
<1> QED
  BY <1>1, <1>2

(* A sound page stays sound when its property gains reporters.             *)
LEMMA SoundLonger ==
  ASSUME NEW page \in Seq(ReportedValue), NEW n \in Nat, NEW m \in Nat, n <= m,
         Sound(page, n)
  PROVE  Sound(page, m)
<1>0. \A i \in DOMAIN page : page[i] \in ReportedValue
  OBVIOUS
<1>1. \A i \in DOMAIN page : page[i].reporterIndex \in Nat
  BY <1>0 DEF ReportedValue
<1> QED
  BY <1>1 DEF Sound

(* Reporting a value and emptying the page that fills keeps it sound.      *)
LEMMA SoundReport ==
  ASSUME NEW page \in Seq(ReportedValue), NEW value \in ReportedValue, NEW n \in Nat,
         Sound(page, n), value.reporterIndex < n
  PROVE  Sound(IF Full(Report(page, value)) THEN <<>> ELSE Report(page, value), n)
<1> DEFINE after == Report(page, value)
<1>1. /\ after \in Seq(ReportedValue) /\ Len(after) = Len(page) + 1
      /\ \A i \in 1..(Len(page) + 1) :
           after[i] \in {page[j] : j \in 1..Len(page)} \cup {value}
  BY ReportPage
<1>2. Sorted(after)
  BY ReportSorted DEF Sound
<1> HIDE DEF after
<1>3. \A i \in DOMAIN after : after[i].reporterIndex < n
  <2> SUFFICES ASSUME NEW i \in DOMAIN after PROVE after[i].reporterIndex < n
    OBVIOUS
  <2>1. i \in 1..(Len(page) + 1)
    BY <1>1
  <2>2. CASE after[i] = value
    BY <2>2
  <2>3. CASE after[i] # value
    <3>1. PICK j \in 1..Len(page) : after[i] = page[j]
      BY <1>1, <2>1, <2>3
    <3> QED
      BY <3>1 DEF Sound
  <2> QED
    BY <2>2, <2>3
<1>4. ~Full(after) => Len(after) < PROPERTY_PAGE_MAX_LENGTH
  BY <1>1, PageMaxAssumption DEF Full
<1>5. Sound(<<>>, n)
  BY SoundPages
<1>6. Sound(IF Full(after) THEN <<>> ELSE after, n)
  BY <1>2, <1>3, <1>4, <1>5 DEF Sound
<1> QED
  BY <1>6 DEF after

(* No list of reporters gets shorter.                                      *)
LEMMA ListsGrow ==
  ASSUME LInv, [Next]_vars, NEW k \in DOMAIN properties
  PROVE  /\ k \in DOMAIN properties'
         /\ Len(properties[k].reporters) \in Nat /\ Len(properties'[k].reporters) \in Nat
         /\ Len(properties[k].reporters) <= Len(properties'[k].reporters)
<1> DEFINE before == properties[k].reporters
           after == properties'[k].reporters
<1>1. k \in DOMAIN properties' /\ Kept(before, after)
  BY NextKept DEF LInv, IInv, ReportersKept
<1>2. before \in Seq(Reporter)
  BY DEF LInv, IInv, TypeOK, IsStore, Property
<1>3. TypeOK'
  BY NextType DEF LInv, IInv
<1>4. after \in Seq(Reporter)
  BY <1>1, <1>3 DEF TypeOK, IsStore, Property
<1> HIDE DEF before, after
<1>5. Len(before) \in Nat /\ Len(after) \in Nat
  BY <1>2, <1>4
<1>6. Len(before) # 0 => Len(before) \in 1..Len(after)
  BY <1>1, <1>2, <1>4, <1>5 DEF Kept
<1>7. Len(before) <= Len(after)
  BY <1>5, <1>6
<1> QED
  BY <1>1, <1>5, <1>7 DEF before, after

LEMMA PageOwned ==
  ASSUME LInv, NEW k \in DOMAIN pages
  PROVE  /\ pages[k] \in Seq(ReportedValue)
         /\ <<k[1], k[2]>> \in DOMAIN properties
         /\ k = <<k[1], k[2], 1>>
<1>1. PICK q \in DOMAIN properties : k = <<q[1], q[2], 1>>
  BY DEF LInv, OnePage
<1>2. q = <<q[1], q[2]>>
  BY DEF LInv, IInv, TypeOK, IsStore
<1>3. pages[k] \in Seq(ReportedValue)
  BY DEF LInv, IInv, TypeOK, IsStore
<1> QED
  BY <1>1, <1>2, <1>3

(* Pages that were there.                                                  *)
LEMMA OldPagesSound ==
  ASSUME LInv, PInv, [Next]_vars, NEW k \in DOMAIN pages
  PROVE  Sound(pages'[k], Len(properties'[<<k[1], k[2]>>].reporters))
<1> DEFINE n == Len(properties[<<k[1], k[2]>>].reporters)
           m == Len(properties'[<<k[1], k[2]>>].reporters)
<1>1. pages[k] \in Seq(ReportedValue) /\ <<k[1], k[2]>> \in DOMAIN properties
  BY PageOwned
<1>2. n \in Nat /\ m \in Nat /\ n <= m
  BY <1>1, ListsGrow
<1>3. Sound(pages[k], n)
  BY DEF PInv
<1>4. CASE pages'[k] = pages[k]
  <2> HIDE DEF n, m
  <2>1. Sound(pages[k], m)
    BY <1>1, <1>2, <1>3, SoundLonger
  <2> QED
    BY <1>4, <2>1 DEF m
<1>5. CASE pages'[k] # pages[k]
  <2>1. PICK p, updates, ts :
          /\ Updates(p, k[1], updates, ts) /\ k[2] \in DOMAIN updates
          /\ pages'[k] = PageWritten(k, p, ts)
    BY <1>5, PageSteps
  <2> DEFINE list == properties[<<k[1], k[2]>>].reporters
  <2>2. PICK i \in 1..Len(list) :
          LET value == [timestamp |-> ts, reporterIndex |-> i - 1]
          IN  value \in ReportedValue
              /\ PageAfter(p, k[1], k[2], ts) = Report(pages[k], value)
    BY <2>1, ReportMade
  <2> DEFINE value == [timestamp |-> ts, reporterIndex |-> i - 1]
  <2>3. value.reporterIndex < n /\ value \in ReportedValue
    <3>1. value.reporterIndex = i - 1
      OBVIOUS
    <3>2. i \in Int /\ i <= n
      BY <1>2
    <3> QED
      BY <1>2, <2>2, <3>1, <3>2
  <2>4. pages'[k] = IF Full(Report(pages[k], value)) THEN <<>>
                    ELSE Report(pages[k], value)
    BY <2>1, <2>2 DEF PageWritten
  <2> HIDE DEF value, n, m
  <2>5. Sound(pages'[k], n)
    BY <1>1, <1>2, <1>3, <2>3, <2>4, SoundReport
  <2>6. /\ IF Full(Report(pages[k], value)) THEN TRUE
           ELSE Report(pages[k], value) \in Seq(ReportedValue)
    BY <1>1, <2>3, ReportPage
  <2>7. pages'[k] \in Seq(ReportedValue)
    BY <2>4, <2>6
  <2>8. Sound(pages'[k], m)
    BY <1>2, <2>5, <2>7, SoundLonger
  <2> QED
    BY <2>8 DEF m
<1> QED
  BY <1>4, <1>5

(* Pages of a new record.                                                  *)
LEMMA NewPagesSound ==
  ASSUME LInv, [Next]_vars, NEW k \in DOMAIN pages', k \notin DOMAIN pages
  PROVE  Sound(pages'[k], Len(properties'[<<k[1], k[2]>>].reporters))
<1>1. PICK p, t, provided, ts :
        /\ Creates(p, k[1], t, provided, ts) /\ k[2] \in DOMAIN tables[t]
        /\ pages'[k] = IF k[2] \in DOMAIN provided
                       THEN <<[timestamp |-> ts, reporterIndex |-> 0]>> ELSE <<>>
  BY NewPages
<1> DEFINE value == [timestamp |-> ts, reporterIndex |-> 0]
<1>2. value \in ReportedValue /\ value.reporterIndex < 1
  BY <1>1 DEF Creates, ReportedValue
<1>3. Len(properties'[<<k[1], k[2]>>].reporters) = 1
  <2> DEFINE q == <<k[1], k[2]>>
             created == [x \in {k[1]} \X (DOMAIN tables[t]) |->
                           NewProperty(p, tables[t][x[2]])]
  <2>1. properties' = PutAll(properties, created)
    BY <1>1 DEF Creates, CreateRecord
  <2>2. q \in DOMAIN created /\ created[q].reporters = <<NewReporter(p, 0)>>
    BY <1>1 DEF NewProperty
  <2> HIDE DEF created, q
  <2>3. properties'[q] = created[q]
    BY <2>1, <2>2 DEF PutAll
  <2>4. Len(properties'[q].reporters) = 1
    BY <2>2, <2>3
  <2> QED
    BY <2>4 DEF q
<1>4. Sound(<<value>>, 1) /\ Sound(<<>>, 1)
  <2> HIDE DEF value
  <2> QED
    BY <1>2, SoundPages
<1> HIDE DEF value
<1>5. pages'[k] = <<value>> \/ pages'[k] = <<>>
  BY <1>1 DEF value
<1> QED
  BY <1>3, <1>4, <1>5

LEMMA PagesInductive == Spec => [](LInv /\ PInv)
<1>1. Init => PInv
  BY DEF Init, EmptyStore, PInv
<1>2. LInv /\ PInv /\ [Next]_vars => PInv'
  BY OldPagesSound, NewPagesSound DEF PInv
<1> QED
  BY <1>1, <1>2, LinkedInductive, PTL DEF Spec

(* Pages are in the order of time and reporter.                            *)
THEOREM PagesStayOrdered == Spec => []PagesOrdered
<1>1. PInv => PagesOrdered
  BY DEF PInv, Sound, PagesOrdered
<1> QED
  BY <1>1, PagesInductive, PTL

(* Every value can be shown with its reporter.                             *)
THEOREM ValuesAttributable == Spec => []Attributable
<1>1. LInv /\ PInv => Attributable
  BY PageOwned DEF PInv, Sound, Attributable
<1> QED
  BY <1>1, PagesInductive, PTL

-----------------------------------------------------------------------------
(* What no transaction does to reported values. *)

(* The values of a page that was there are those it had, and one of an     *)
(* authorized reporter.                                                    *)
LEMMA NewValueEntitled ==
  ASSUME LInv, [Next]_vars, NEW k \in DOMAIN pages,
         NEW v \in ValuesIn(pages'[k]), v \notin ValuesIn(pages[k])
  PROVE  properties[<<k[1], k[2]>>].reporters[v.reporterIndex + 1].authorized
<1>1. PICK p, updates, ts :
        /\ Updates(p, k[1], updates, ts) /\ k[2] \in DOMAIN updates
        /\ pages'[k] = PageWritten(k, p, ts)
  BY PageSteps DEF ValuesIn
<1> DEFINE list == properties[<<k[1], k[2]>>].reporters
<1>2. PICK i \in Entitled(list, p) :
        /\ i \in 1..Len(list)
        /\ [timestamp |-> ts, reporterIndex |-> i - 1] \in ReportedValue
        /\ PageAfter(p, k[1], k[2], ts)
             = Report(pages[k], [timestamp |-> ts, reporterIndex |-> i - 1])
  BY <1>1, ReportMade
<1> DEFINE value == [timestamp |-> ts, reporterIndex |-> i - 1]
           after == Report(pages[k], value)
<1>3. pages[k] \in Seq(ReportedValue) /\ value \in ReportedValue
  BY <1>2, PageOwned
<1>4. value.reporterIndex + 1 = i
  BY <1>2
<1>5. pages'[k] = after \/ pages'[k] = <<>>
  BY <1>1, <1>2 DEF PageWritten
<1> HIDE DEF value, list
<1>6. DOMAIN after = 1..(Len(pages[k]) + 1)
      /\ \A j \in 1..(Len(pages[k]) + 1) :
           after[j] \in {pages[k][x] : x \in 1..Len(pages[k])} \cup {value}
  <2>1. /\ after \in Seq(ReportedValue) /\ Len(after) = Len(pages[k]) + 1
        /\ \A j \in 1..(Len(pages[k]) + 1) :
             after[j] \in {pages[k][x] : x \in 1..Len(pages[k])} \cup {value}
    BY <1>3, ReportPage
  <2> HIDE DEF after
  <2> QED
    BY <2>1
<1> HIDE DEF after
<1>7. v = value
  <2>1. pages'[k] = after
    BY <1>5 DEF ValuesIn
  <2>2. PICK j \in DOMAIN after : v = after[j]
    BY <2>1 DEF ValuesIn
  <2>3. {pages[k][x] : x \in 1..Len(pages[k])} = ValuesIn(pages[k])
    BY <1>3 DEF ValuesIn
  <2> QED
    BY <1>6, <2>2, <2>3
<1>8. list[i].authorized
  BY <1>2, Zenon DEF Entitled
<1> QED
  BY <1>4, <1>7, <1>8, Zenon DEF list

(* A value is attributed to an entry in force when it is reported.         *)
THEOREM ReportsAreInForce == Spec => ReportsInForce
<1> DEFINE Step ==
      \A k \in DOMAIN properties \cap DOMAIN properties' :
        \A page \in {q \in DOMAIN pages : q[1] = k[1] /\ q[2] = k[2]} :
          \A v \in ValuesIn(pages'[page]) \ ValuesIn(pages[page]) :
            properties[k].reporters[v.reporterIndex + 1].authorized
<1>1. LInv /\ [Next]_vars => Step
  <2> SUFFICES ASSUME LInv, [Next]_vars,
                      NEW k \in DOMAIN properties,
                      NEW page \in DOMAIN pages, page[1] = k[1] /\ page[2] = k[2],
                      NEW v \in ValuesIn(pages'[page]), v \notin ValuesIn(pages[page])
               PROVE  properties[k].reporters[v.reporterIndex + 1].authorized
    BY Zenon
  <2>1. k = <<page[1], page[2]>>
    BY DEF LInv, IInv, TypeOK, IsStore
  <2>2. properties[<<page[1], page[2]>>].reporters[v.reporterIndex + 1].authorized
    BY NewValueEntitled
  <2> QED
    BY <2>1, <2>2, Zenon
<1>2. LInv /\ [Next]_vars => [Step]_vars
  BY <1>1
<1> QED
  BY <1>2, LinkedInductive, PTL DEF Spec, ReportsInForce

(* A record that is final stays final, and nothing is reported on it.      *)
THEOREM FinalValuesStay == Spec => FinalValuesKept
<1> DEFINE Step ==
      \A r \in DOMAIN records : records[r].final =>
        /\ records'[r].final
        /\ \A k \in DOMAIN pages : k[1] = r => pages'[k] = pages[k]
<1>1. LInv /\ [Next]_vars => Step
  <2> SUFFICES ASSUME LInv, [Next]_vars, NEW r \in DOMAIN records, records[r].final
               PROVE  /\ records'[r].final
                      /\ \A k \in DOMAIN pages : k[1] = r => pages'[k] = pages[k]
    BY Zenon
  <2>1. RecordKept(records[r], records'[r])
    BY RecordsKept DEF LInv, IInv
  <2>2. records'[r].final
    BY <2>1, Zenon DEF RecordKept
  <2>3. ASSUME NEW k \in DOMAIN pages, k[1] = r, pages'[k] # pages[k] PROVE FALSE
    <3>1. PICK p, updates, ts : Updates(p, k[1], updates, ts)
      BY <2>3, PageSteps
    <3>2. ~records[k[1]].final
      BY <3>1, Zenon DEF Updates, UpdateProperties, OpenToUpdates
    <3> QED
      BY <2>3, <3>2, Zenon
  <2> QED
    BY <2>2, <2>3, Zenon
<1>2. LInv /\ [Next]_vars => [Step]_vars
  BY <1>1
<1> QED
  BY <1>2, LinkedInductive, PTL DEF Spec, FinalValuesKept

(* Fixed properties are settled when their record is created, and delayed  *)
(* ones start without a value.                                             *)
THEOREM SchemasHonoured == Spec => SchemaHonoured
<1> DEFINE Step ==
      /\ \A k \in DOMAIN pages : properties[<<k[1], k[2]>>].fixed => pages'[k] = pages[k]
      /\ \A k \in DOMAIN pages' \ DOMAIN pages :
           LET schema == tables[records'[k[1]].table][k[2]]
           IN  schema.delayed => pages'[k] = <<>>
<1>1. LInv /\ [Next]_vars => Step
  <2> SUFFICES ASSUME LInv, [Next]_vars PROVE Step
    OBVIOUS
  <2>1. ASSUME NEW k \in DOMAIN pages, properties[<<k[1], k[2]>>].fixed,
               pages'[k] # pages[k]
        PROVE  FALSE
    <3>1. PICK p, updates, ts : Updates(p, k[1], updates, ts) /\ k[2] \in DOMAIN updates
      BY <2>1, PageSteps
    <3>2. ~properties[<<k[1], k[2]>>].fixed
      BY <3>1, Zenon DEF Updates, UpdateProperties, MayReport
    <3> QED
      BY <2>1, <3>2, Zenon
  <2>2. ASSUME NEW k \in DOMAIN pages', k \notin DOMAIN pages,
               tables[records'[k[1]].table][k[2]].delayed, pages'[k] # <<>>
        PROVE  FALSE
    <3>1. PICK p, t, provided, ts :
            /\ Creates(p, k[1], t, provided, ts)
            /\ pages'[k] = IF k[2] \in DOMAIN provided
                           THEN <<[timestamp |-> ts, reporterIndex |-> 0]>> ELSE <<>>
      BY <2>2, NewPages
    <3>2. k[2] \in DOMAIN provided
      BY <2>2, <3>1
    <3>3. FitsSchema(provided, tables[t])
      BY <3>1 DEF Creates, CreateRecord
    <3>4. ~tables[t][k[2]].delayed
      BY <3>2, <3>3, Zenon DEF FitsSchema
    <3>5. records'[k[1]].table = t
      BY <3>1 DEF Creates, CreateRecord, Put
    <3> QED
      BY <2>2, <3>4, <3>5, Zenon
  <2> QED
    BY <2>1, <2>2, Zenon
<1>2. LInv /\ [Next]_vars => [Step]_vars
  BY <1>1
<1> QED
  BY <1>2, LinkedInductive, PTL DEF Spec, SchemaHonoured

-----------------------------------------------------------------------------
(* Ownership and the right to report. *)

LEMMA HandedOverEntitled ==
  ASSUME NEW reporters \in Seq(Reporter), NEW old, NEW new \in Participants
  PROVE  LET after == HandedOver(reporters, old, new)
         IN  /\ Entitled(after, new) # {}
             /\ old # new => Entitled(after, old) = {}
<1> DEFINE n == Len(reporters)
           marked == [i \in DOMAIN reporters |->
             [reporters[i] EXCEPT !.authorized =
                reporters[i].key # old /\ (@ \/ reporters[i].key = new)]]
           entry == NewReporter(new, n)
<1>1. n \in Nat /\ DOMAIN reporters = 1..n /\ \A i \in 1..n : reporters[i] \in Reporter
  OBVIOUS
<1>2. ASSUME NEW i \in 1..n
      PROVE  /\ marked[i] \in Reporter
             /\ marked[i].key = reporters[i].key
             /\ marked[i].authorized =
                  (reporters[i].key # old
                     /\ (reporters[i].authorized \/ reporters[i].key = new))
  <2> DEFINE mark == reporters[i].key # old
                       /\ (reporters[i].authorized \/ reporters[i].key = new)
  <2>1. marked[i] = [reporters[i] EXCEPT !.authorized = mark]
    BY <1>1, Zenon
  <2>2. mark \in BOOLEAN
    BY Zenon
  <2>3. reporters[i] \in Reporter
    BY <1>1
  <2> HIDE DEF mark, marked
  <2>4. marked[i] \in Reporter /\ marked[i].key = reporters[i].key /\ marked[i].authorized = mark
    BY <2>1, <2>2, <2>3 DEF Reporter
  <2> QED
    BY <2>4 DEF mark
<1>3. DOMAIN marked = 1..n /\ marked \in Seq(Reporter) /\ Len(marked) = n
  <2>1. marked \in [1..n -> Reporter]
    BY <1>1, <1>2
  <2>2. marked \in Seq(Reporter)
    BY <1>1, <2>1, IsASeq
  <2> QED
    BY <1>1, <2>1, <2>2, LenProperties
<1>4. HandedOver(reporters, old, new) =
        IF new # old /\ Entries(reporters, new) # {} THEN marked
        ELSE Append(marked, entry)
  BY DEF HandedOver
<1>5. entry \in Reporter /\ entry.key = new /\ entry.authorized
  <2>1. entry = [key |-> new, authorized |-> TRUE, index |-> n]
    BY DEF NewReporter
  <2> HIDE DEF entry
  <2> QED
    BY <1>1, <2>1 DEF Reporter
<1> HIDE DEF marked, entry, n
<1>6. ASSUME NEW i \in 1..n, marked[i].key = old PROVE ~marked[i].authorized
  BY <1>2, <1>6, Zenon
<1>7. CASE new # old /\ Entries(reporters, new) # {}
  <2>1. PICK i \in 1..n : reporters[i].key = new
    BY <1>1, <1>7 DEF Entries
  <2>2. marked[i].key = new /\ marked[i].authorized
    BY <1>2, <1>7, <2>1, Zenon
  <2>3. i \in Entitled(marked, new)
    BY <1>3, <2>2, Zenon DEF Entitled
  <2>4. Entitled(marked, old) = {}
    BY <1>3, <1>6, Zenon DEF Entitled
  <2> QED
    BY <1>4, <1>7, <2>3, <2>4
<1>8. CASE ~(new # old /\ Entries(reporters, new) # {})
  <2> DEFINE after == Append(marked, entry)
  <2>1. /\ DOMAIN after = 1..(n + 1) /\ n + 1 \in 1..(n + 1)
        /\ after[n + 1] = entry
        /\ \A i \in 1..n : after[i] = marked[i]
    BY <1>1, <1>3, <1>5
  <2>2. \A i \in 1..(n + 1) : i \in 1..n \/ i = n + 1
    BY <1>1
  <2> HIDE DEF after
  <2>3. n + 1 \in Entitled(after, new)
    BY <1>5, <2>1, Zenon DEF Entitled
  <2>4. ASSUME old # new, NEW i \in Entitled(after, old) PROVE FALSE
    <3>1. i \in 1..(n + 1) /\ after[i].key = old /\ after[i].authorized
      BY <2>1, <2>4, Zenon DEF Entitled
    <3>2. i \in 1..n /\ after[i] = marked[i]
      BY <1>5, <2>1, <2>2, <2>4, <3>1
    <3> QED
      BY <1>6, <3>1, <3>2, Zenon
  <2>5. HandedOver(reporters, old, new) = after
    BY <1>4, <1>8 DEF after
  <2> QED
    BY <2>3, <2>4, <2>5
<1> QED
  BY <1>7, <1>8

(* The owners of a record change in one kind of transaction.               *)
LEMMA OwnersChange ==
  ASSUME LInv, [Next]_vars, NEW r \in DOMAIN records,
         records'[r].owners # records[r].owners
  PROVE  \E p, a : /\ AcceptOwnership(p, a) /\ a.record = r
                   /\ a.receiver \in Participants
                   /\ Latest(records'[r].owners) = a.receiver
<1>1. records[r] \in Record /\ records[r].owners \in Seq(Participants)
  BY DEF LInv, IInv, TypeOK, IsStore, Record
<1>2. ASSUME NEW x, NEW entry, records' = Put(records, x, entry)
      PROVE  x = r /\ records'[r] = entry
  BY <1>2 DEF Put
<1>3. \A p, x, t, provided, ts : ~Creates(p, x, t, provided, ts)
  <2> SUFFICES ASSUME NEW p, NEW x, NEW t, NEW provided, NEW ts,
                      Creates(p, x, t, provided, ts)
               PROVE  FALSE
    OBVIOUS
  <2>1. PICK entry : records' = Put(records, x, entry) /\ x # r
    BY DEF Creates, CreateRecord, MayCreate, Contains
  <2> QED
    BY <1>2, <2>1
<1>4. \A p, x : ~FinalizeRecord(p, x)
  <2> SUFFICES ASSUME NEW p, NEW x, FinalizeRecord(p, x) PROVE FALSE
    OBVIOUS
  <2> DEFINE entry == [records[x] EXCEPT !.final = TRUE]
  <2>1. records' = Put(records, x, entry)
    BY DEF FinalizeRecord
  <2>2. entry.owners = records[x].owners \/ x # r
    BY <1>1 DEF Record
  <2> HIDE DEF entry
  <2> QED
    BY <1>2, <2>1, <2>2
<1>5. \A p, x, updates, ts : ~Updates(p, x, updates, ts)
  BY DEF Updates, UpdateProperties
<1>6. \A p, x, q, names : ~Revokes(p, x, q, names)
  BY DEF Revokes, RevokeReporter
<1>7. \A p, a : ~AcceptReporter(p, a)
  BY DEF AcceptReporter
<1>8. \A p, a : ~AcceptCustodianship(p, a)
  <2> SUFFICES ASSUME NEW p, NEW a, AcceptCustodianship(p, a) PROVE FALSE
    OBVIOUS
  <2> DEFINE longer == Append(records[a.record].custodians, a.receiver)
             entry == [records[a.record] EXCEPT !.custodians = longer]
  <2>1. records' = Put(records, a.record, entry)
    BY DEF AcceptCustodianship
  <2> HIDE DEF longer
  <2>2. entry.owners = records[a.record].owners \/ a.record # r
    BY <1>1 DEF Record
  <2> HIDE DEF entry
  <2> QED
    BY <1>2, <2>1, <2>2
<1>9. PICK p, a : AcceptOwnership(p, a)
  BY <1>3, <1>4, <1>5, <1>6, <1>7, <1>8, Steps DEF Answers
<1> DEFINE longer == Append(records[a.record].owners, a.receiver)
           entry == [records[a.record] EXCEPT !.owners = longer]
<1>10. records' = Put(records, a.record, entry)
  BY <1>9 DEF AcceptOwnership
<1>11. a.receiver \in Participants
  BY <1>9 DEF AcceptOwnership, MayAccept, Contains, LInv, IInv, TypeOK, IsStore
<1>12. a.record = r /\ records'[r] = entry
  <2> HIDE DEF entry
  <2> QED
    BY <1>2, <1>10
<1>13. Latest(longer) = a.receiver
  BY <1>1, <1>11, <1>12, ExtendedChain
<1> HIDE DEF longer
<1>14. entry.owners = longer
  BY <1>1, <1>12 DEF Record
<1> QED
  BY <1>9, <1>11, <1>12, <1>13, <1>14

(* The right to report follows the ownership of a record.                  *)
THEOREM OwnersReport == Spec => OwnershipCarriesReporting
<1> DEFINE Step ==
      \A r \in DOMAIN records : records'[r].owners # records[r].owners =>
        LET old == Owner(r)
            new == Latest(records'[r].owners)
        IN  \A k \in DOMAIN properties : k[1] = r =>
              /\ Entitled(properties'[k].reporters, new) # {}
              /\ old # new => Entitled(properties'[k].reporters, old) = {}
<1>1. LInv /\ [Next]_vars => Step
  <2> SUFFICES ASSUME LInv, [Next]_vars,
                      NEW r \in DOMAIN records, records'[r].owners # records[r].owners,
                      NEW k \in DOMAIN properties, k[1] = r
               PROVE  LET old == Owner(r)
                          new == Latest(records'[r].owners)
                      IN  /\ Entitled(properties'[k].reporters, new) # {}
                          /\ old # new => Entitled(properties'[k].reporters, old) = {}
    OBVIOUS
  <2>1. PICK p, a : /\ AcceptOwnership(p, a) /\ a.record = r
                    /\ a.receiver \in Participants
                    /\ Latest(records'[r].owners) = a.receiver
    BY OwnersChange
  <2>2. k \in {r} \X DOMAIN tables[records[r].table]
    BY PropertyOf DEF LInv
  <2>3. properties'[k].reporters =
          HandedOver(properties[k].reporters, Owner(r), a.receiver)
    BY <2>1, <2>2, HandedOverLists DEF LInv, IInv
  <2>4. properties[k].reporters \in Seq(Reporter)
    BY StoredReporters DEF LInv, IInv
  <2> QED
    BY <2>1, <2>3, <2>4, HandedOverEntitled
<1>2. LInv /\ [Next]_vars => [Step]_vars
  BY <1>1
<1> QED
  BY <1>2, LinkedInductive, PTL DEF Spec, OwnershipCarriesReporting

-----------------------------------------------------------------------------
(* What the server serves. *)

(* The last value of a page in order is a latest one.                      *)
LEMMA LastIsLatest ==
  ASSUME NEW page \in Seq(ReportedValue), Sorted(page), page # <<>>
  PROVE  /\ Latest(page) \in ValuesOf(page)
         /\ \A v \in ValuesOf(page) : v.timestamp <= Latest(page).timestamp
<1> DEFINE n == Len(page)
<1>1. n \in Nat /\ n > 0 /\ DOMAIN page = 1..n /\ \A i \in 1..n : page[i] \in ReportedValue
  OBVIOUS
<1>2. Latest(page) = page[n]
  BY DEF Latest
<1> HIDE DEF n
<1>3. \A i \in 1..n : page[i].timestamp \in Nat
  BY <1>1, TimestampsAssumption DEF ReportedValue
<1>4. ASSUME NEW i \in 1..n PROVE page[i].timestamp <= page[n].timestamp
  <2>1. NotLater(page[i], page[n])
    BY <1>1 DEF Sorted
  <2>2. page[i].timestamp \in Nat /\ page[n].timestamp \in Nat
    BY <1>1, <1>3
  <2> QED
    BY <2>1, <2>2 DEF NotLater
<1> QED
  BY <1>1, <1>2, <1>4 DEF ValuesOf

(* A property is served from its one page.                                 *)
LEMMA ServedFrom ==
  ASSUME LInv, NEW k \in DOMAIN properties
  PROVE  LET q == <<k[1], k[2], 1>>
         IN  /\ q \in DOMAIN pages
             /\ PagesFor(Ledger, k[1], k[2]) = {pages[q]}
<1> DEFINE q == <<k[1], k[2], 1>>
<1>1. q \in DOMAIN pages
  BY DEF LInv, OnePage
<1>2. Ledger.pages = pages
  BY DEF Ledger
<1>3. ASSUME NEW x \in DOMAIN pages PROVE <<x[1], x[2]>> = <<k[1], k[2]>> <=> x = q
  <2>1. x = <<x[1], x[2], 1>>
    BY PageOwned
  <2>2. <<x[1], x[2]>> = <<k[1], k[2]>> => x = q
    BY <2>1
  <2> QED
    BY <2>2
<1>4. {x \in DOMAIN pages : <<x[1], x[2]>> = <<k[1], k[2]>>} = {q}
  BY <1>1, <1>3
<1> HIDE DEF q
<1>5. PagesFor(Ledger, k[1], k[2]) = {pages[q]}
  BY <1>2, <1>4 DEF PagesFor
<1> QED
  BY <1>1, <1>5 DEF q

(* What is as new as the last value of a page in order was reported at the *)
(* same time, by a reporter authorized before its own.                     *)
LEMMA TiesPrecede ==
  ASSUME NEW page \in Seq(ReportedValue), page # <<>>, Sorted(page),
         NEW v \in ValuesOf(page), Latest(page).timestamp <= v.timestamp
  PROVE  /\ v.timestamp = Latest(page).timestamp
         /\ v # Latest(page) => v.reporterIndex < Latest(page).reporterIndex
<1> DEFINE n == Len(page)
<1>1. n \in DOMAIN page
  OBVIOUS
<1>2. PICK i \in DOMAIN page : v = page[i]
  BY DEF ValuesOf
<1>3. i <= n
  OBVIOUS
<1>4. Latest(page) = page[n]
  BY DEF Latest
<1>5. NotLater(page[i], page[n])
  BY <1>1, <1>3 DEF Sorted
<1>6. page[i] \in ReportedValue /\ page[n] \in ReportedValue
  BY <1>1
<1> DEFINE w == page[n]
<1>7. v \in ReportedValue /\ w \in ReportedValue /\ NotLater(v, w) /\ w.timestamp <= v.timestamp
  BY <1>2, <1>4, <1>5, <1>6
<1> HIDE DEF w, n
<1>8. /\ v.timestamp \in Nat /\ w.timestamp \in Nat
      /\ v.reporterIndex \in Nat /\ w.reporterIndex \in Nat
  BY <1>7, TimestampsAssumption DEF ReportedValue
<1>9. v.timestamp = w.timestamp /\ v.reporterIndex <= w.reporterIndex
  BY <1>7, <1>8 DEF NotLater
<1>10. v.reporterIndex = w.reporterIndex => v = w
  BY <1>7, <1>9 DEF ReportedValue
<1>11. v # w => v.reporterIndex < w.reporterIndex
  BY <1>8, <1>9, <1>10
<1> QED
  BY <1>4, <1>9, <1>11 DEF w

(* The two routes serve values of one time under registered names; which   *)
(* of the values of one time either serves is not said.                    *)
THEOREM ServedOfOneTime == Spec => []ServedValuesConcur
<1>1. LInv /\ PInv /\ RInv => ServedValuesConcur
  <2> SUFFICES ASSUME LInv, PInv, RInv, NEW k \in DOMAIN properties
               PROVE  LET fetched == CurrentValues(Ledger, k[1], k[2])
                          retrieved == LastValues(Ledger, k[1], k[2])
                      IN  /\ fetched = {} <=> retrieved = {}
                          /\ \A v \in fetched, w \in retrieved :
                               /\ v.timestamp = w.timestamp
                               /\ v # w => v.reporterIndex < w.reporterIndex
                          /\ \A v \in fetched \cup retrieved :
                               ReporterOf(Ledger, k[1], k[2], v) \in DOMAIN participants
    BY DEF ServedValuesConcur
  <2> DEFINE q == <<k[1], k[2], 1>>
             page == pages[q]
             list == properties[k].reporters
             Last == LastValues(Ledger, k[1], k[2])
             Current == CurrentValues(Ledger, k[1], k[2])
             All == Reported(Ledger, k[1], k[2])
  <2>1. q \in DOMAIN pages /\ PagesFor(Ledger, k[1], k[2]) = {page}
    BY ServedFrom
  <2>2. k = <<k[1], k[2]>>
    BY DEF LInv, IInv, TypeOK, IsStore
  <2>3. page \in Seq(ReportedValue)
    BY <2>1, PageOwned
  <2>4. Sound(page, Len(list))
    BY <2>1, <2>2 DEF PInv
  <2>5. All = ValuesOf(page)
    BY <2>1 DEF Reported
  <2>6. Last = IF page = <<>> THEN {} ELSE {Latest(page)}
    BY <2>1 DEF LastValues
  <2>7. Current = {v \in All : \A w \in All : w.timestamp <= v.timestamp}
    BY DEF CurrentValues
  <2>8. Ledger.properties[k] = properties[k]
    BY DEF Ledger
  <2> HIDE DEF page, Last, Current, All, q
  <2>9. ASSUME NEW v \in ValuesOf(page)
        PROVE  ReporterOf(Ledger, k[1], k[2], v) \in DOMAIN participants
    <3>1. PICK i \in DOMAIN page : v = page[i]
      BY <2>9 DEF ValuesOf
    <3>2. v.reporterIndex \in Nat /\ v.reporterIndex < Len(list)
      <4>1. page[i] \in ReportedValue
        BY <2>3
      <4> QED
        BY <2>4, <3>1, <4>1 DEF Sound, ReportedValue
    <3>3. list \in Seq(Reporter)
      BY StoredReporters DEF LInv, IInv
    <3>4. v.reporterIndex + 1 \in DOMAIN list
      BY <3>2, <3>3
    <3>5. list[v.reporterIndex + 1].key \in DOMAIN participants
      BY <3>4 DEF RInv, ReportersKnown, KeysKnown
    <3> QED
      BY <2>2, <2>8, <3>5 DEF ReporterOf
  <2>10. CASE page = <<>>
    <3>1. All = {} /\ Last = {} /\ Current = {}
      BY <2>5, <2>6, <2>7, <2>10 DEF ValuesOf
    <3> QED
      BY <3>1 DEF Last, Current
  <2>11. CASE page # <<>>
    <3>1. /\ Latest(page) \in ValuesOf(page)
          /\ \A v \in ValuesOf(page) : v.timestamp <= Latest(page).timestamp
      BY <2>3, <2>4, <2>11, LastIsLatest DEF Sound
    <3>2. Latest(page) \in Current /\ Last = {Latest(page)}
      BY <2>5, <2>6, <2>7, <2>11, <3>1
    <3>3. Current \subseteq ValuesOf(page) /\ Last \subseteq ValuesOf(page)
      BY <2>5, <2>7, <3>1, <3>2
    <3>4. ASSUME NEW v \in Current, NEW w \in Last
          PROVE  v.timestamp = w.timestamp /\ (v # w => v.reporterIndex < w.reporterIndex)
      <4>1. w = Latest(page) /\ v \in ValuesOf(page)
        BY <3>2, <3>3
      <4>2. Latest(page).timestamp <= v.timestamp
        BY <2>5, <2>7, <3>1
      <4> QED
        BY <2>3, <2>4, <2>11, <4>1, <4>2, TiesPrecede DEF Sound
    <3>5. Current # {} /\ Last # {}
      BY <3>2
    <3> HIDE DEF ReporterOf
    <3>6. \A v \in Current \cup Last :
            ReporterOf(Ledger, k[1], k[2], v) \in DOMAIN participants
      BY <2>9, <3>3
    <3> QED
      BY <3>4, <3>5, <3>6 DEF Last, Current
  <2> QED
    BY <2>10, <2>11
<1>2. Spec => []RInv
  BY RegisteredInductive
<1> QED
  BY <1>1, <1>2, PagesInductive, PTL
=============================================================================
