------------------------------ MODULE SyncProofs ------------------------------
(***************************************************************************)
(* The ledger sync, for any keys, and a chain of any length.               *)
(*                                                                         *)
(* In full, with forks: its variables have their types, and the blocks     *)
(* table names the chain once all is dealt with.  The argument follows the *)
(* events still to be dealt with: in their order they take the blocks      *)
(* table to the chain as far as it was delivered, and the blocks below     *)
(* each of them are older, and there or on their way before it.            *)
(*                                                                         *)
(* With forks, but until the process is restarted, and with a database     *)
(* that carries out the writes of a block before its wait ends: no         *)
(* document of an abandoned block is left.                                 *)
(*                                                                         *)
(* Without forks, and with such a database: what a reader finds.  The      *)
(* process may be restarted and queries may fail at any moment, so the     *)
(* invariant has to say of each key how far the blocks dealt with since    *)
(* the last start are in its documents, while writes that are left from    *)
(* before the start are still carried out.                                 *)
(***************************************************************************)
EXTENDS LedgerSync, SequenceTheorems, WellFoundedInduction, TLAPS

-----------------------------------------------------------------------------
(* Types.  TypeOK alone is not inductive: that the blocks table holds ids  *)
(* that were made depends on the events on their way to it.                *)

Block == [id: Nat, changed: SUBSET Keys]

EventsKnown ==
  /\ \A n \in DOMAIN chain : chain[n].id \in 1..made
  /\ \A n \in DOMAIN queue : queue[n].num >= 1 /\ queue[n].id \in 1..made
  /\ job.phase # "idle" => job.event.num >= 1 /\ job.event.id \in 1..made

TypeInv == TypeOK /\ EventsKnown

LEMMA WritesTyped ==
  ASSUME NEW event \in Event, NEW keys \in SUBSET Keys
  PROVE  Writes(event, keys) \subseteq Write
<1>1. ASSUME NEW k \in keys \cap event.changed
      PROVE  [step |-> IF k \in Pages THEN "lookup" ELSE "close", key |-> k,
              num |-> event.num, id |-> event.id, converted |-> k \notin Pages] \in Write
  <2>1. (IF k \in Pages THEN "lookup" ELSE "close") \in {"lookup", "close", "insert"}
    OBVIOUS
  <2>2. event.num \in Nat /\ event.id \in Nat /\ (k \notin Pages) \in BOOLEAN /\ k \in Keys
    BY DEF Event
  <2> QED
    BY <2>1, <2>2, Zenon DEF Write
<1> QED
  BY <1>1 DEF Writes

LEMMA StartTyped ==
  ASSUME TypeInv, NEW event \in Event, Start(event)
  PROVE  job' \in Job /\ job'.phase = "waiting" /\ job'.event = event /\ sent' \subseteq Write
<1>1. Writes(event, Keys \ Pages) \subseteq Write
  BY WritesTyped
<1> QED
  BY <1>1 DEF Start, Job, Phases, TypeInv, TypeOK

LEMMA RunNextTyped ==
  ASSUME TypeInv, RunNext
  PROVE  /\ queue' \in Seq(Event) /\ job' \in Job /\ sent' \subseteq Write
         /\ job'.phase = "idle" => job' = Idle /\ queue' = <<>>
         /\ \A n \in DOMAIN queue' : queue'[n].num >= 1 /\ queue'[n].id \in 1..made
         /\ job'.phase # "idle" => job'.event.num >= 1 /\ job'.event.id \in 1..made
<1> USE DEF TypeInv, TypeOK, EventsKnown
<1>1. CASE queue = <<>> /\ job' = Idle /\ UNCHANGED <<queue, sent>>
  BY <1>1 DEF Idle, NoEvent, Job, Event, Phases
<1>2. CASE queue # <<>> /\ Start(Head(queue)) /\ queue' = Tail(queue)
  <2>1. Head(queue) \in Event /\ Tail(queue) \in Seq(Event) /\ Len(queue) >= 1
        /\ Head(queue) = queue[1]
        /\ \A n \in DOMAIN Tail(queue) : n + 1 \in DOMAIN queue /\ Tail(queue)[n] = queue[n + 1]
    BY <1>2, HeadTailProperties
  <2>2. job' \in Job /\ job'.phase = "waiting" /\ job'.event = Head(queue) /\ sent' \subseteq Write
    BY <1>2, <2>1, StartTyped
  <2> QED
    BY <1>2, <2>1, <2>2
<1> QED
  BY <1>1, <1>2 DEF RunNext

-----------------------------------------------------------------------------
(* The validator. *)

LEMMA ExtendTyped ==
  ASSUME TypeInv, NEW num \in 1..Len(chain) + 1, NEW changed \in SUBSET Keys,
         Extend(SubSeq(chain, 1, num - 1), changed)
  PROVE  /\ made' = made + 1 /\ chain' \in Seq(Block) /\ Len(chain') = num
         /\ \A m \in 1..num - 1 : chain'[m] = chain[m]
         /\ chain'[num] = [id |-> made + 1, changed |-> changed]
         /\ \A m \in DOMAIN chain' : chain'[m].id \in 1..made'
<1> DEFINE prefix == SubSeq(chain, 1, num - 1)
           new == [id |-> made + 1, changed |-> changed]
<1>1. /\ chain \in Seq(Block) /\ made \in Nat
      /\ \A m \in 1..Len(chain) : chain[m].id \in 1..made
  BY DEF TypeInv, TypeOK, EventsKnown, Block
<1>2. /\ prefix \in Seq(Block) /\ Len(prefix) = num - 1
      /\ \A m \in 1..num - 1 : prefix[m] = chain[m]
  BY <1>1, SubSeqProperties
<1>3. new \in Block
  BY <1>1 DEF Block
<1>4. made' = made + 1 /\ chain' = Append(prefix, new)
  BY DEF Extend
<1> HIDE DEF prefix, new
<1>5. /\ chain' \in Seq(Block) /\ Len(chain') = num
      /\ \A m \in 1..num - 1 : chain'[m] = prefix[m]
      /\ chain'[num] = new
  BY <1>2, <1>3, <1>4, AppendProperties
<1>6. new.id = made + 1
  BY DEF new
<1>7. ASSUME NEW m \in 1..num
      PROVE  chain'[m].id \in 1..made + 1
  <2>1. CASE m = num
    BY <1>1, <1>5, <1>6, <2>1
  <2>2. CASE m \in 1..num - 1
    <3>1. m \in 1..Len(chain) /\ chain'[m] = chain[m]
      BY <1>1, <1>2, <1>5, <2>2
    <3> QED
      BY <1>1, <3>1
  <2> QED
    BY <1>1, <2>1, <2>2
<1> QED
  BY <1>1, <1>2, <1>4, <1>5, <1>7 DEF new

LEMMA CommitIsExtend ==
  ASSUME TypeInv
  PROVE  SubSeq(chain, 1, Len(chain) + 1 - 1) = chain /\ Len(chain) \in Nat
BY SubSeqFull DEF TypeInv, TypeOK

LEMMA ChainTyped ==
  ASSUME TypeInv, made' = made + 1, chain' \in Seq(Block), delivered' \in 0..Len(chain'),
         \A m \in DOMAIN chain' : chain'[m].id \in 1..made',
         UNCHANGED <<queue, job, sent, docs, blocks, failed, overtaken>>
  PROVE  TypeInv'
<1>1. made \in Nat /\ made' \in Nat /\ \A id \in 1..made : id \in 1..made'
  BY DEF TypeInv, TypeOK
<1>2. TypeOK'
  BY <1>1 DEF TypeInv, TypeOK, Block
<1>3. EventsKnown'
  BY <1>1 DEF TypeInv, EventsKnown
<1> QED
  BY <1>2, <1>3 DEF TypeInv

LEMMA ValidatorTyped ==
  ASSUME TypeInv, Grow \/ Switch
  PROVE  TypeInv'
<1>1. ASSUME NEW changed \in SUBSET Keys, Commit(changed)
      PROVE  TypeInv'
  <2> DEFINE num == Len(chain) + 1
  <2>2. /\ num = Len(chain) + 1 /\ Len(chain) \in Nat /\ num \in 1..Len(chain) + 1
        /\ SubSeq(chain, 1, num - 1) = chain
    BY CommitIsExtend
  <2> HIDE DEF num
  <2>1. Extend(SubSeq(chain, 1, num - 1), changed)
    BY <1>1, <2>2 DEF Commit
  <2>3. /\ made' = made + 1 /\ chain' \in Seq(Block) /\ Len(chain') = num
        /\ \A m \in DOMAIN chain' : chain'[m].id \in 1..made'
    BY <2>1, <2>2, ExtendTyped
  <2>4. delivered' \in 0..Len(chain')
    BY <1>1, <2>2, <2>3 DEF Commit, TypeInv, TypeOK
  <2> QED
    BY <1>1, <2>3, <2>4, ChainTyped DEF Commit
<1>2. ASSUME NEW changed \in SUBSET Keys, NEW num \in 1..Len(chain), SwitchFork(num, changed)
      PROVE  TypeInv'
  <2>1. Extend(SubSeq(chain, 1, num - 1), changed) /\ num \in 1..Len(chain) + 1
    BY <1>2, CommitIsExtend DEF SwitchFork
  <2>2. /\ made' = made + 1 /\ chain' \in Seq(Block) /\ Len(chain') = num
        /\ \A m \in DOMAIN chain' : chain'[m].id \in 1..made'
    BY <2>1, ExtendTyped
  <2>3. delivered' \in 0..Len(chain')
    BY <1>2, <2>2 DEF SwitchFork, TypeInv, TypeOK
  <2> QED
    BY <1>2, <2>2, <2>3, ChainTyped DEF SwitchFork
<1> QED
  BY <1>1, <1>2 DEF Grow, Switch

-----------------------------------------------------------------------------
(* The queue. *)

\* The next event of the chain.
Coming == [num |-> delivered + 1, id |-> chain[delivered + 1].id,
           changed |-> chain[delivered + 1].changed]

LEMMA ComingTyped ==
  ASSUME TypeInv, delivered < Len(chain)
  PROVE  /\ delivered + 1 \in 1..Len(chain) /\ Coming \in Event
         /\ Coming.num = delivered + 1 /\ Coming.id = chain[delivered + 1].id
         /\ Coming.num >= 1 /\ Coming.id \in 1..made
<1>0. chain \in Seq(Block) /\ delivered \in 0..Len(chain)
  BY DEF TypeInv, TypeOK, Block
<1>1. delivered + 1 \in 1..Len(chain) /\ chain[delivered + 1] \in Block
  BY <1>0
<1>2. chain[delivered + 1].id \in 1..made
  BY <1>1 DEF TypeInv, EventsKnown
<1> QED
  BY <1>1, <1>2 DEF Coming, Event, Block

LEMMA DeliverTyped ==
  ASSUME TypeInv, Deliver
  PROVE  TypeInv'
<1>1. /\ delivered < Len(chain) /\ delivered' = delivered + 1
      /\ UNCHANGED <<chain, made, docs, blocks, failed>> /\ overtaken' \in BOOLEAN
  BY DEF Deliver, GoOn, TypeInv, TypeOK
<1>2. /\ Coming \in Event /\ Coming.num >= 1 /\ Coming.id \in 1..made
      /\ delivered' \in 0..Len(chain')
  BY <1>1, ComingTyped DEF TypeInv, TypeOK
<1>3. \/ job.phase = "idle" /\ Start(Coming) /\ UNCHANGED queue
      \/ job.phase # "idle" /\ queue' = Append(queue, Coming) /\ UNCHANGED <<job, sent>>
  BY <1>1 DEF Deliver, Coming
<1>4. CASE job.phase = "idle" /\ Start(Coming) /\ UNCHANGED queue
  <2>1. job' \in Job /\ job'.phase = "waiting" /\ job'.event = Coming /\ sent' \subseteq Write
    BY <1>2, <1>4, StartTyped
  <2>2. TypeOK'
    BY <1>1, <1>2, <1>4, <2>1 DEF TypeInv, TypeOK
  <2>3. EventsKnown'
    BY <1>1, <1>2, <1>4, <2>1 DEF TypeInv, EventsKnown
  <2> QED
    BY <2>2, <2>3 DEF TypeInv
<1>5. CASE job.phase # "idle" /\ queue' = Append(queue, Coming) /\ UNCHANGED <<job, sent>>
  <2>1. queue \in Seq(Event)
    BY DEF TypeInv, TypeOK
  <2>2. /\ queue' \in Seq(Event) /\ Len(queue') = Len(queue) + 1 /\ Len(queue) \in Nat
        /\ \A n \in 1..Len(queue) : queue'[n] = queue[n]
        /\ queue'[Len(queue) + 1] = Coming
    BY <1>2, <1>5, <2>1, AppendProperties
  <2>3. TypeOK'
    BY <1>1, <1>2, <1>5, <2>2 DEF TypeInv, TypeOK
  <2>4. \A n \in DOMAIN queue' : queue'[n].num >= 1 /\ queue'[n].id \in 1..made
    BY <1>2, <2>1, <2>2 DEF TypeInv, EventsKnown
  <2>5. EventsKnown'
    BY <1>1, <1>5, <2>4 DEF TypeInv, EventsKnown
  <2> QED
    BY <2>3, <2>5 DEF TypeInv
<1> QED
  BY <1>3, <1>4, <1>5

(* What goes on with the job at hand.                                      *)
LEMMA JobTyped ==
  ASSUME TypeInv, job.phase # "idle", job' \in Job, job'.phase # "idle",
         job'.event = job.event, sent' \subseteq Write, docs' \subseteq Doc,
         DOMAIN blocks' \subseteq Nat, \A n \in DOMAIN blocks' : blocks'[n] \in 1..made,
         failed' \in {"no", "before", "now"}, overtaken' \in BOOLEAN,
         UNCHANGED <<validator, queue>>
  PROVE  TypeInv'
BY DEF TypeInv, TypeOK, EventsKnown, validator

LEMMA SendPagesTyped ==
  ASSUME TypeInv, SendPages
  PROVE  TypeInv'
<1>1. job \in Job /\ job.event \in Event /\ Pages \in SUBSET Keys
  BY KeysAssumption DEF TypeInv, TypeOK, Job
<1>2. Writes(job.event, Pages) \subseteq Write
  BY <1>1, WritesTyped
<1>3. job' \in Job /\ job'.phase = "inserting" /\ job'.event = job.event
  BY <1>1 DEF SendPages, Job, Phases
<1> QED
  BY <1>2, <1>3, JobTyped DEF SendPages, GoOn, TypeInv, TypeOK, database

-----------------------------------------------------------------------------
(* Documents. *)

LEMMA DocsTyped ==
  ASSUME TypeInv, sent' \subseteq Write, docs' \subseteq Doc,
         failed' \in {"no", "before", "now"}, overtaken' \in BOOLEAN,
         UNCHANGED <<validator, queue, job, blocks>>
  PROVE  TypeInv'
BY DEF TypeInv, TypeOK, EventsKnown, validator

LEMMA LookUpTyped ==
  ASSUME TypeInv, NEW w \in sent, LookUpProperty(w)
  PROVE  TypeInv'
<1> DEFINE found == Current(PropertyOf[w.key]) # {}
<1>1. found \in BOOLEAN /\ w \in Write
  BY DEF TypeInv, TypeOK
<1>2. sent' = (sent \ {w}) \cup {[w EXCEPT !.step = "close", !.converted = found]}
  BY DEF LookUpProperty
<1> HIDE DEF found
<1>3. [w EXCEPT !.step = "close", !.converted = found] \in Write
  BY <1>1, Zenon DEF Write
<1> QED
  BY <1>2, <1>3, DocsTyped DEF LookUpProperty, TypeInv, TypeOK, database

LEMMA EndOldDocsTyped ==
  ASSUME TypeInv, NEW w \in sent, EndOldDocs(w)
  PROVE  TypeInv'
<1>1. w \in Write /\ w.num \in Nat
  BY DEF TypeInv, TypeOK, Write
<1>2. [w EXCEPT !.step = "insert"] \in Write
  BY <1>1, Zenon DEF Write
<1>3. ASSUME NEW d \in docs
      PROVE  [d EXCEPT !.end = w.num] \in Doc /\ d \in Doc
  BY <1>1, Zenon DEF TypeInv, TypeOK, Doc
<1>4. sent' \subseteq Write
  BY <1>2 DEF EndOldDocs, TypeInv, TypeOK
<1>5. docs' \subseteq Doc
  BY <1>3 DEF EndOldDocs, TypeInv, TypeOK
<1> QED
  BY <1>4, <1>5, DocsTyped DEF EndOldDocs, TypeInv, TypeOK, validator

LEMMA InsertDocTyped ==
  ASSUME TypeInv, NEW w \in sent, InsertDoc(w)
  PROVE  TypeInv'
<1>1. w \in Write
  BY DEF TypeInv, TypeOK
<1>2. [key |-> w.key, value |-> w.id, start |-> w.num, end |-> MAX_SAFE_INTEGER,
       converted |-> w.converted] \in Doc
  BY <1>1, MaxAssumption, Zenon DEF Write, Doc
<1> QED
  BY <1>2, DocsTyped DEF InsertDoc, TypeInv, TypeOK, validator

-----------------------------------------------------------------------------
(* Blocks and forks. *)

LEMMA InsertBlockTyped ==
  ASSUME TypeInv, InsertBlock
  PROVE  TypeInv'
<1>1. job \in Job /\ job.event \in Event /\ job.event.num \in Nat /\ job.event.id \in 1..made
  BY DEF InsertBlock, TypeInv, TypeOK, EventsKnown, Job, Event
<1>2. UNCHANGED <<validator, docs, failed>> /\ overtaken' \in BOOLEAN
  BY DEF InsertBlock, GoOn, TypeInv, TypeOK
<1>3. \/ /\ job.event.num \notin DOMAIN blocks
         /\ blocks' = [n \in DOMAIN blocks \cup {job.event.num} |->
                         IF n = job.event.num THEN job.event.id ELSE blocks[n]]
         /\ RunNext
      \/ RunNext /\ UNCHANGED blocks
      \/ job' = [job EXCEPT !.phase = "replacing"] /\ UNCHANGED <<queue, sent, blocks>>
  BY DEF InsertBlock
<1>4. CASE RunNext /\ DOMAIN blocks' \subseteq Nat /\ \A n \in DOMAIN blocks' : blocks'[n] \in 1..made
  BY <1>2, <1>4, RunNextTyped DEF TypeInv, TypeOK, EventsKnown, validator
<1>5. CASE job' = [job EXCEPT !.phase = "replacing"] /\ UNCHANGED <<queue, sent, blocks>>
  <2>1. job' \in Job /\ job'.phase = "replacing" /\ job'.event = job.event
    BY <1>1, <1>5 DEF Job, Phases
  <2> QED
    BY <1>2, <1>5, <2>1, JobTyped DEF InsertBlock, TypeInv, TypeOK
<1> QED
  BY <1>1, <1>3, <1>4, <1>5 DEF TypeInv, TypeOK

LEMMA ReplaceBlocksTyped ==
  ASSUME TypeInv, ReplaceBlocks
  PROVE  TypeInv'
<1>1. job \in Job /\ job.event.num \in Nat /\ job.event.id \in 1..made
  BY DEF ReplaceBlocks, TypeInv, TypeOK, EventsKnown, Job, Event
<1>2. job' \in Job /\ job'.phase = "removing" /\ job'.event = job.event
  BY <1>1 DEF ReplaceBlocks, Job, Phases
<1>3. DOMAIN blocks' \subseteq Nat /\ \A n \in DOMAIN blocks' : blocks'[n] \in 1..made
  BY <1>1 DEF ReplaceBlocks, TypeInv, TypeOK
<1> QED
  BY <1>2, <1>3, JobTyped DEF ReplaceBlocks, TypeInv, TypeOK

LEMMA RemoveTyped ==
  ASSUME TypeInv, NEW key \in Keys, RemoveForkedDocs(key)
  PROVE  TypeInv'
<1>1. job \in Job
  BY DEF TypeInv, TypeOK
<1>2. job' \in Job /\ job'.phase = "removing" /\ job'.event = job.event
  BY <1>1 DEF RemoveForkedDocs, Job
<1>3. ASSUME NEW d \in docs
      PROVE  Reopened(d) \in Doc /\ d \in Doc
  <2>1. d \in Doc
    BY DEF TypeInv, TypeOK
  <2>2. (IF d.end >= job.event.num THEN MAX_SAFE_INTEGER ELSE d.end) \in Nat
    BY <2>1, MaxAssumption DEF Doc
  <2>3. Reopened(d) = [d EXCEPT !.end = IF d.end >= job.event.num THEN MAX_SAFE_INTEGER ELSE d.end]
    BY <2>1 DEF Reopened, Doc
  <2> QED
    BY <2>1, <2>2, <2>3, Zenon DEF Doc
<1>4. docs' \subseteq Doc
  BY <1>3 DEF RemoveForkedDocs
<1> QED
  BY <1>2, <1>4, JobTyped DEF RemoveForkedDocs, TypeInv, TypeOK

LEMMA ForkResolvedTyped ==
  ASSUME TypeInv, ForkResolved
  PROVE  TypeInv'
BY RunNextTyped DEF ForkResolved, TypeInv, TypeOK, EventsKnown, validator, database

LEMMA FailTyped ==
  ASSUME TypeInv, Fail
  PROVE  TypeInv'
<1>1. CASE BlockQueryFails
  <2>1. job \in Job
    BY DEF TypeInv, TypeOK
  <2>2. job' \in Job /\ job'.phase = "stuck" /\ job'.event = job.event
    BY <1>1, <2>1 DEF BlockQueryFails, Job, Phases
  <2> QED
    BY <1>1, <2>2, JobTyped DEF BlockQueryFails, TypeInv, TypeOK, database
<1>2. ASSUME NEW w \in sent, WriteFails(w)
      PROVE  TypeInv'
  BY <1>2, DocsTyped DEF WriteFails, TypeInv, TypeOK, database
<1> QED
  BY <1>1, <1>2 DEF Fail

LEMMA RestartTyped ==
  ASSUME TypeInv, Restart
  PROVE  TypeInv'
<1>1. Idle \in Job /\ Idle.phase = "idle"
  BY DEF Idle, NoEvent, Job, Event, Phases
<1>2. sent' \subseteq Write /\ failed' \in {"no", "before", "now"} /\ overtaken' \in BOOLEAN
  BY DEF Restart, TypeInv, TypeOK
<1> QED
  BY <1>1, <1>2 DEF Restart, TypeInv, TypeOK, EventsKnown, database

LEMMA InitTyped == Init => TypeInv
<1>1. Idle \in Job /\ Idle.phase = "idle"
  BY DEF Idle, NoEvent, Job, Event, Phases
<1>2. Init => overtaken \in BOOLEAN
  BY Zenon DEF Init
<1> QED
  BY <1>1, <1>2 DEF Init, TypeInv, TypeOK, EventsKnown

LEMMA NextTyped ==
  ASSUME TypeInv, [Next]_vars
  PROVE  TypeInv'
<1>1. CASE UNCHANGED vars
  BY <1>1 DEF vars, TypeInv, TypeOK, EventsKnown
<1>2. CASE Sync
  BY <1>2, DeliverTyped, SendPagesTyped, LookUpTyped, EndOldDocsTyped, InsertDocTyped,
     InsertBlockTyped, ReplaceBlocksTyped, RemoveTyped, ForkResolvedTyped
  DEF Sync, CarryOut, Resolve
<1> QED
  BY <1>1, <1>2, FailTyped, RestartTyped, ValidatorTyped DEF Next

(* The variables of the ledger sync have their types, and its queue is     *)
(* never idle while events wait: for any keys, chain, forks and failures.  *)
THEOREM SyncTyped == Spec => []TypeOK
<1>1. TypeInv => TypeOK
  BY DEF TypeInv
<1> QED
  BY <1>1, InitTyped, NextTyped, PTL DEF Spec

-----------------------------------------------------------------------------
(* The blocks table and the chain.  p stands for the events that have yet  *)
(* to reach the blocks table b, the one that is running included; d blocks *)
(* of the chain c have been delivered.                                     *)

Increasing(c) == \A i, j \in 1..Len(c) : i < j => c[i].id < c[j].id

\* Ids are given out in the order in which events come; what is still to
\* be delivered comes after them.
InOrder(p, c, d) ==
  /\ Increasing(p)
  /\ \A i \in 1..Len(p), m \in d + 1..Len(c) : p[i].id < c[m].id

\* From one event to a later one of a higher number, every number comes by.
Climbs(p) == \A i, j \in 1..Len(p), m \in Nat :
  i < j /\ p[i].num < m /\ m < p[j].num =>
    \E k \in 1..Len(p) : i < k /\ k < j /\ p[k].num = m

\* Below an event there are older blocks: in the table, or to reach it before.
OnBranch(p, b) == \A i \in 1..Len(p), m \in Nat \ {0} : m < p[i].num =>
  \/ \E j \in 1..Len(p) : j < i /\ p[j].num = m
  \/ m \in DOMAIN b /\ b[m] < p[i].id

\* Whatever was delivered is in the table, or will be, and nothing is going
\* to replace it.
Covered(p, b, c, d) == \A m \in 1..d :
  \/ \E i \in 1..Len(p) : /\ p[i].num = m /\ p[i].id = c[m].id
                           /\ \A j \in 1..Len(p) : i < j => m < p[j].num
  \/ /\ \A j \in 1..Len(p) : m < p[j].num
     /\ m \in DOMAIN b /\ b[m] = c[m].id

Following(p, b, c, d) ==
  InOrder(p, c, d) /\ Climbs(p) /\ OnBranch(p, b) /\ Covered(p, b, c, d)

(* The next block of the chain is delivered.                               *)
LEMMA DeliverFollows ==
  ASSUME NEW p \in Seq(Event), NEW b, NEW c \in Seq(Block), NEW d \in Nat, d < Len(c),
         Increasing(c), Following(p, b, c, d),
         NEW e \in Event, e.num = d + 1, e.id = c[d + 1].id
  PROVE  Following(Append(p, e), b, c, d + 1)
<1> DEFINE q == Append(p, e)
           last == Len(p) + 1
<1>1. /\ q \in Seq(Event) /\ Len(q) = last /\ q[last] = e
      /\ \A i \in 1..Len(p) : q[i] = p[i]
  BY AppendProperties
<1>0. /\ Len(p) \in Nat /\ Len(c) \in Nat
      /\ \A m \in 1..Len(c) : c[m] \in Block
      /\ \A i \in 1..Len(p) : p[i] \in Event
  OBVIOUS
<1>2. /\ Len(p) \in Nat /\ last = Len(p) + 1 /\ Len(c) \in Nat
      /\ \A m \in 1..Len(c) : c[m].id \in Nat
      /\ \A i \in 1..Len(p) : p[i].id \in Nat /\ p[i].num \in Nat
  BY <1>0 DEF Block, Event
<1> HIDE DEF q, last
<1>3. \A i \in 1..last : i \in 1..Len(p) \/ i = last
  BY <1>2
<1>4. InOrder(q, c, d + 1)
  <2>1. \A i \in 1..Len(p) : p[i].id < e.id
    BY <1>2 DEF Following, InOrder
  <2>2. ASSUME NEW i \in 1..last, NEW j \in 1..last, i < j
        PROVE  q[i].id < q[j].id
    <3>1. i \in 1..Len(p) /\ q[i] = p[i]
      BY <1>1, <1>2, <2>2
    <3>2. CASE j = last
      BY <1>1, <2>1, <3>1, <3>2
    <3>3. CASE j \in 1..Len(p)
      BY <1>1, <2>2, <3>1, <3>3 DEF Following, InOrder, Increasing
    <3> QED
      BY <1>3, <3>2, <3>3
  <2>5. Increasing(q)
    BY <1>1, <2>2 DEF Increasing
  <2>3. \A m \in d + 2..Len(c) : e.id < c[m].id
    BY <1>2 DEF Increasing
  <2>4. \A i \in 1..Len(q), m \in d + 2..Len(c) : q[i].id < c[m].id
    BY <1>1, <1>2, <1>3, <2>3 DEF Following, InOrder
  <2> QED
    BY <2>4, <2>5 DEF InOrder
<1>5. Climbs(q)
  <2> SUFFICES ASSUME NEW i \in 1..last, NEW j \in 1..last, NEW m \in Nat,
                      i < j, q[i].num < m, m < q[j].num
               PROVE  \E k \in 1..last : i < k /\ k < j /\ q[k].num = m
    BY <1>1 DEF Climbs
  <2>1. i \in 1..Len(p) /\ p[i].num < m
    BY <1>1, <1>2, <1>3
  <2>2. CASE j \in 1..Len(p)
    <3>1. PICK k \in 1..Len(p) : i < k /\ k < j /\ p[k].num = m
      BY <1>1, <2>1, <2>2 DEF Following, Climbs
    <3> QED
      BY <1>1, <1>2, <3>1
  <2>3. CASE j = last
    <3>1. m \in 1..d
      BY <1>1, <1>2, <2>1, <2>3
    <3>2. ~ (m < p[i].num)
      BY <1>2, <2>1
    <3>3. PICK k \in 1..Len(p) : p[k].num = m /\ \A l \in 1..Len(p) : k < l => m < p[l].num
      BY <2>1, <3>1, <3>2 DEF Following, Covered
    <3>4. i < k
      BY <1>2, <2>1, <3>2, <3>3
    <3> QED
      BY <1>1, <1>2, <2>3, <3>3, <3>4
  <2> QED
    BY <1>3, <2>2, <2>3
<1>6. OnBranch(q, b)
  <2> SUFFICES ASSUME NEW i \in 1..last, NEW m \in Nat \ {0}, m < q[i].num
               PROVE  \/ \E j \in 1..last : j < i /\ q[j].num = m
                      \/ m \in DOMAIN b /\ b[m] < q[i].id
    BY <1>1 DEF OnBranch
  <2>1. CASE i \in 1..Len(p)
    <3>1. \/ \E j \in 1..Len(p) : j < i /\ p[j].num = m
          \/ m \in DOMAIN b /\ b[m] < p[i].id
      BY <1>1, <2>1 DEF Following, OnBranch
    <3> QED
      BY <1>1, <1>2, <2>1, <3>1
  <2>2. CASE i = last
    <3>1. m \in 1..d /\ m \in 1..Len(c) /\ d + 1 \in 1..Len(c) /\ m < d + 1
      BY <1>1, <1>2, <2>2
    <3>2. c[m].id < e.id
      BY <3>1 DEF Increasing
    <3>3. \/ \E j \in 1..Len(p) : p[j].num = m
          \/ m \in DOMAIN b /\ b[m] = c[m].id
      BY <3>1 DEF Following, Covered
    <3> QED
      BY <1>1, <1>2, <2>2, <3>2, <3>3
  <2> QED
    BY <1>3, <2>1, <2>2
<1>7. Covered(q, b, c, d + 1)
  <2> SUFFICES ASSUME NEW m \in 1..d + 1
               PROVE  \/ \E i \in 1..last : /\ q[i].num = m /\ q[i].id = c[m].id
                                             /\ \A j \in 1..last : i < j => m < q[j].num
                      \/ /\ \A j \in 1..last : m < q[j].num
                         /\ m \in DOMAIN b /\ b[m] = c[m].id
    BY <1>1 DEF Covered
  <2>1. CASE m = d + 1
    BY <1>1, <1>2, <2>1
  <2>2. CASE m \in 1..d
    <3>1. m < q[last].num
      BY <1>1, <2>2
    <3>2. \/ \E i \in 1..Len(p) : /\ p[i].num = m /\ p[i].id = c[m].id
                                   /\ \A j \in 1..Len(p) : i < j => m < p[j].num
          \/ /\ \A j \in 1..Len(p) : m < p[j].num
             /\ m \in DOMAIN b /\ b[m] = c[m].id
      BY <2>2 DEF Following, Covered
    <3>3. ASSUME NEW i \in 1..Len(p), p[i].num = m, p[i].id = c[m].id,
                 \A j \in 1..Len(p) : i < j => m < p[j].num
          PROVE  /\ i \in 1..last /\ q[i].num = m /\ q[i].id = c[m].id
                 /\ \A j \in 1..last : i < j => m < q[j].num
      <4>1. i \in 1..last /\ q[i] = p[i]
        BY <1>1, <1>2
      <4>2. ASSUME NEW j \in 1..last, i < j
            PROVE  m < q[j].num
        <5>1. CASE j = last
          BY <3>1, <5>1
        <5>2. CASE j \in 1..Len(p)
          BY <1>1, <3>3, <4>2, <5>2
        <5> QED
          BY <1>3, <5>1, <5>2
      <4> QED
        BY <3>3, <4>1, <4>2
    <3>4. ASSUME \A j \in 1..Len(p) : m < p[j].num
          PROVE  \A j \in 1..last : m < q[j].num
      BY <1>1, <1>3, <3>1, <3>4
    <3> QED
      BY <3>2, <3>3, <3>4
  <2>3. m = d + 1 \/ m \in 1..d
    OBVIOUS
  <2> QED
    BY <2>1, <2>2, <2>3
<1> QED
  BY <1>4, <1>5, <1>6, <1>7 DEF Following, q

(* The chain grows by a new block at num, in place of those from there on. *)
LEMMA ForkFollows ==
  ASSUME NEW p \in Seq(Event), NEW b, NEW c \in Seq(Block), NEW d \in 0..Len(c),
         Following(p, b, c, d),
         NEW c2 \in Seq(Block), NEW num \in 1..Len(c) + 1, Len(c2) = num,
         \A m \in 1..num - 1 : c2[m] = c[m],
         \A i \in 1..Len(p) : p[i].id < c2[num].id
  PROVE  Following(p, b, c2, IF d < num THEN d ELSE num - 1)
<1> DEFINE d2 == IF d < num THEN d ELSE num - 1
<1>a. /\ d2 \in Nat /\ d2 <= d /\ d2 < num /\ Len(c) \in Nat /\ num \in Nat
      /\ num <= Len(c) + 1 /\ (d2 = d \/ d2 = num - 1)
  OBVIOUS
<1> HIDE DEF d2
<1>b. \A m \in 1..d2 : m \in 1..d /\ c2[m] = c[m]
  BY <1>a
<1>c. \A m \in d2 + 1..num : m = num \/ (m \in d + 1..Len(c) /\ c2[m] = c[m])
  BY <1>a
<1>1. /\ d2 \in Nat
      /\ \A m \in 1..d2 : m \in 1..d /\ c2[m] = c[m]
      /\ \A m \in d2 + 1..num : m = num \/ (m \in d + 1..Len(c) /\ c2[m] = c[m])
  BY <1>a, <1>b, <1>c
<1>2. InOrder(p, c2, d2)
  BY <1>1 DEF Following, InOrder
<1>3. Covered(p, b, c2, d2)
  <2> SUFFICES ASSUME NEW m \in 1..d2
               PROVE  \/ \E i \in 1..Len(p) : /\ p[i].num = m /\ p[i].id = c2[m].id
                                               /\ \A j \in 1..Len(p) : i < j => m < p[j].num
                      \/ /\ \A j \in 1..Len(p) : m < p[j].num
                         /\ m \in DOMAIN b /\ b[m] = c2[m].id
    BY DEF Covered
  <2>1. m \in 1..d /\ c2[m] = c[m]
    BY <1>1
  <2> QED
    BY <2>1 DEF Following, Covered
<1> QED
  BY <1>2, <1>3 DEF Following, d2

(* The first of the events has reached the table, which keeps what is      *)
(* below it: whatever becomes of what is above, later events replace it.   *)
LEMMA DoneFollows ==
  ASSUME NEW p \in Seq(Event), p # <<>>, NEW b, NEW c, NEW d \in Nat, Following(p, b, c, d),
         NEW b2, p[1].num \in DOMAIN b2, b2[p[1].num] = p[1].id,
         \A m \in DOMAIN b : m < p[1].num => m \in DOMAIN b2 /\ b2[m] = b[m]
  PROVE  Following(Tail(p), b2, c, d)
<1> DEFINE q == Tail(p)
<1>1. /\ q \in Seq(Event) /\ Len(p) \in Nat /\ Len(p) >= 1 /\ Len(q) = Len(p) - 1
      /\ \A i \in 1..Len(q) : q[i] = p[i + 1]
  BY HeadTailProperties
<1>0. \A i \in 1..Len(p) : p[i] \in Event
  OBVIOUS
<1>2. \A i \in 1..Len(p) : p[i].num \in Nat /\ p[i].id \in Nat
  BY <1>0 DEF Event
<1> HIDE DEF q
<1>3. \A i \in 1..Len(q) : i + 1 \in 1..Len(p) /\ 1 < i + 1 /\ q[i] = p[i + 1]
  BY <1>1
<1>4. \A j \in 1..Len(p) : 1 < j => j - 1 \in 1..Len(q) /\ q[j - 1] = p[j]
  BY <1>1
<1>5. InOrder(q, c, d)
  <2>1. ASSUME NEW i \in 1..Len(q), NEW j \in 1..Len(q), i < j
        PROVE  q[i].id < q[j].id
    <3>1. i + 1 \in 1..Len(p) /\ j + 1 \in 1..Len(p) /\ i + 1 < j + 1
          /\ q[i] = p[i + 1] /\ q[j] = p[j + 1]
      BY <1>3, <2>1
    <3> QED
      BY <3>1 DEF Following, InOrder, Increasing
  <2>2. \A i \in 1..Len(q), m \in d + 1..Len(c) : q[i].id < c[m].id
    BY <1>3 DEF Following, InOrder
  <2>3. Increasing(q)
    BY <2>1 DEF Increasing
  <2> QED
    BY <2>2, <2>3 DEF InOrder
<1>6. Climbs(q)
  <2> SUFFICES ASSUME NEW i \in 1..Len(q), NEW j \in 1..Len(q), NEW m \in Nat,
                      i < j, q[i].num < m, m < q[j].num
               PROVE  \E k \in 1..Len(q) : i < k /\ k < j /\ q[k].num = m
    BY DEF Climbs
  <2>0. /\ i + 1 \in 1..Len(p) /\ j + 1 \in 1..Len(p) /\ i + 1 < j + 1
        /\ p[i + 1].num < m /\ m < p[j + 1].num
    BY <1>3
  <2>1. PICK k \in 1..Len(p) : i + 1 < k /\ k < j + 1 /\ p[k].num = m
    BY <2>0 DEF Following, Climbs
  <2>2. i < k - 1 /\ k - 1 < j /\ 1 < k
    BY <2>1
  <2>3. k - 1 \in 1..Len(q) /\ q[k - 1].num = m
    BY <1>4, <2>1, <2>2
  <2> QED
    BY <2>2, <2>3
<1>7. OnBranch(q, b2)
  <2> SUFFICES ASSUME NEW i \in 1..Len(q), NEW m \in Nat \ {0}, m < q[i].num
               PROVE  \/ \E j \in 1..Len(q) : j < i /\ q[j].num = m
                      \/ m \in DOMAIN b2 /\ b2[m] < q[i].id
    BY DEF OnBranch
  <2>0. i + 1 \in 1..Len(p) /\ q[i] = p[i + 1] /\ 1 \in 1..Len(p)
    BY <1>1, <1>3
  <2>1. CASE m = p[1].num
    BY <1>1, <2>0, <2>1 DEF Following, InOrder, Increasing
  <2>2. CASE p[1].num < m
    <3>1. PICK k \in 1..Len(p) : 1 < k /\ k < i + 1 /\ p[k].num = m
      BY <1>1, <2>0, <2>2 DEF Following, Climbs
    <3>2. k - 1 \in 1..Len(q) /\ k - 1 < i /\ q[k - 1].num = m
      BY <1>1, <1>4, <3>1
    <3> QED
      BY <3>2
  <2>3. CASE m < p[1].num
    <3>1. \/ \E j \in 1..Len(p) : j < i + 1 /\ p[j].num = m
          \/ m \in DOMAIN b /\ b[m] < p[i + 1].id
      BY <2>0 DEF Following, OnBranch
    <3>2. ASSUME NEW j \in 1..Len(p), j < i + 1, p[j].num = m
          PROVE  j - 1 \in 1..Len(q) /\ j - 1 < i /\ q[j - 1].num = m
      <4>1. j # 1
        BY <1>2, <2>0, <2>3, <3>2
      <4> QED
        BY <1>1, <1>4, <3>2, <4>1
    <3> QED
      BY <2>0, <2>3, <3>1, <3>2
  <2> QED
    BY <1>2, <2>0, <2>1, <2>2, <2>3
<1>8. Covered(q, b2, c, d)
  <2> SUFFICES ASSUME NEW m \in 1..d
               PROVE  \/ \E i \in 1..Len(q) : /\ q[i].num = m /\ q[i].id = c[m].id
                                               /\ \A j \in 1..Len(q) : i < j => m < q[j].num
                      \/ /\ \A j \in 1..Len(q) : m < q[j].num
                         /\ m \in DOMAIN b2 /\ b2[m] = c[m].id
    BY DEF Covered
  <2>1. \/ \E i \in 1..Len(p) : /\ p[i].num = m /\ p[i].id = c[m].id
                                 /\ \A j \in 1..Len(p) : i < j => m < p[j].num
        \/ /\ \A j \in 1..Len(p) : m < p[j].num
           /\ m \in DOMAIN b /\ b[m] = c[m].id
    BY DEF Following, Covered
  <2>2. ASSUME NEW i \in 1..Len(p), p[i].num = m, p[i].id = c[m].id,
               \A j \in 1..Len(p) : i < j => m < p[j].num
        PROVE  \/ \E k \in 1..Len(q) : /\ q[k].num = m /\ q[k].id = c[m].id
                                        /\ \A j \in 1..Len(q) : k < j => m < q[j].num
               \/ /\ \A j \in 1..Len(q) : m < q[j].num
                  /\ m \in DOMAIN b2 /\ b2[m] = c[m].id
    <3>1. CASE i = 1
      BY <1>1, <1>3, <2>2, <3>1
    <3>2. CASE 1 < i
      <4>1. i - 1 \in 1..Len(q) /\ q[i - 1] = p[i]
        BY <1>4, <3>2
      <4>2. \A j \in 1..Len(q) : i - 1 < j => m < q[j].num
        BY <1>1, <1>3, <2>2
      <4> QED
        BY <2>2, <4>1, <4>2
    <3> QED
      BY <3>1, <3>2
  <2>3. ASSUME \A j \in 1..Len(p) : m < p[j].num, m \in DOMAIN b, b[m] = c[m].id
        PROVE  /\ \A j \in 1..Len(q) : m < q[j].num
               /\ m \in DOMAIN b2 /\ b2[m] = c[m].id
    <3>1. m < p[1].num
      BY <1>1, <2>3
    <3> QED
      BY <1>3, <2>3, <3>1
  <2> QED
    BY <2>1, <2>2, <2>3
<1> QED
  BY <1>5, <1>6, <1>7, <1>8 DEF Following, q

-----------------------------------------------------------------------------
(* The invariant: the blocks table is a branch that grew in the order of   *)
(* its ids, and the events that are still to reach it follow it.           *)

\* The chain always ends with the block that was made last.
Growing ==
  /\ Increasing(chain)
  /\ IF chain = <<>> THEN made = 0 ELSE chain[Len(chain)].id = made

Branch ==
  /\ blocks = [n \in DOMAIN blocks |-> blocks[n]]
  /\ \A n \in DOMAIN blocks : n >= 1 /\ \A m \in 1..n - 1 : m \in DOMAIN blocks /\ blocks[m] < blocks[n]

\* The events that have yet to reach the blocks table.
Pending ==
  IF job.phase \in {"waiting", "inserting", "replacing"} THEN <<job.event>> \o queue ELSE queue

FollowInv ==
  /\ TypeInv /\ Growing /\ Branch
  /\ job.phase # "stuck" => Following(Pending, blocks, chain, delivered)

LEMMA PendingTyped ==
  ASSUME TypeInv
  PROVE  /\ Pending \in Seq(Event)
         /\ \A i \in 1..Len(Pending) : Pending[i].num >= 1 /\ Pending[i].id \in 1..made
<1>1. queue \in Seq(Event) /\ job \in Job /\ job.event \in Event
  BY DEF TypeInv, TypeOK, Job
<1>2. CASE job.phase \in {"waiting", "inserting", "replacing"}
  <2>1. /\ <<job.event>> \in Seq(Event) /\ Len(<<job.event>>) = 1 /\ <<job.event>>[1] = job.event
    BY <1>1
  <2>2. Pending = <<job.event>> \o queue
    BY <1>2 DEF Pending
  <2>3. /\ Pending \in Seq(Event) /\ Len(Pending) = 1 + Len(queue) /\ Len(queue) \in Nat
        /\ \A i \in 1..Len(Pending) :
             Pending[i] = IF i <= 1 THEN <<job.event>>[i] ELSE queue[i - 1]
    BY <1>1, <2>1, <2>2, ConcatProperties
  <2>4. \A i \in 1..Len(Pending) :
          Pending[i] = job.event \/ (i - 1 \in 1..Len(queue) /\ Pending[i] = queue[i - 1])
    BY <2>1, <2>3
  <2> QED
    BY <1>1, <1>2, <2>3, <2>4 DEF TypeInv, EventsKnown
<1>3. CASE job.phase \notin {"waiting", "inserting", "replacing"}
  BY <1>1, <1>3 DEF Pending, TypeInv, EventsKnown
<1> QED
  BY <1>2, <1>3

(* An event is at the head of the pending ones until it is done.           *)
LEMMA PendingHead ==
  ASSUME TypeInv, job.phase \in {"waiting", "inserting", "replacing"}
  PROVE  Pending # <<>> /\ Pending[1] = job.event /\ Tail(Pending) = queue
<1>1. queue \in Seq(Event) /\ job.event \in Event
  BY DEF TypeInv, TypeOK, Job
<1>2. Pending = <<job.event>> \o queue
  BY DEF Pending
<1> HIDE DEF Pending
<1>3. /\ <<job.event>> \in Seq(Event) /\ Len(<<job.event>>) = 1 /\ <<job.event>>[1] = job.event
  BY <1>1
<1>4. /\ Pending \in Seq(Event) /\ Len(Pending) = 1 + Len(queue) /\ Len(queue) \in Nat
      /\ \A i \in 1..Len(Pending) :
           Pending[i] = IF i <= 1 THEN <<job.event>>[i] ELSE queue[i - 1]
  BY <1>1, <1>2, <1>3, ConcatProperties
<1>5. Pending # <<>> /\ Pending[1] = job.event
  BY <1>3, <1>4
<1>6. /\ Tail(Pending) \in Seq(Event) /\ Len(Tail(Pending)) = Len(queue)
      /\ \A i \in 1..Len(Tail(Pending)) : Tail(Pending)[i] = Pending[i + 1]
  BY <1>4, <1>5, HeadTailProperties
<1>7. \A i \in 1..Len(queue) : Tail(Pending)[i] = queue[i]
  BY <1>4, <1>6
<1>8. Tail(Pending) = queue
  BY <1>1, <1>6, <1>7, SeqEqual
<1> QED
  BY <1>5, <1>8

(* RunNext makes of the events that wait the pending ones.                 *)
LEMMA PendingNext ==
  ASSUME TypeInv, RunNext
  PROVE  Pending' = queue /\ job'.phase # "stuck"
<1>1. queue \in Seq(Event)
  BY DEF TypeInv, TypeOK
<1>2. CASE queue = <<>> /\ job' = Idle /\ UNCHANGED queue
  BY <1>2 DEF Pending, Idle
<1>3. CASE queue # <<>> /\ Start(Head(queue)) /\ queue' = Tail(queue)
  <2>1. job'.phase = "waiting" /\ job'.event = Head(queue)
    BY <1>3 DEF Start
  <2>2. Pending' = <<Head(queue)>> \o Tail(queue)
    BY <1>3, <2>1 DEF Pending
  <2>3. <<Head(queue)>> \o Tail(queue) = queue
    BY <1>1, <1>3, ConcatSimplifications, HeadTailProperties
  <2> QED
    BY <2>1, <2>2, <2>3
<1> QED
  BY <1>2, <1>3 DEF RunNext

LEMMA ExtendFollows ==
  ASSUME FollowInv, TypeInv', NEW num \in 1..Len(chain) + 1, NEW changed \in SUBSET Keys,
         Extend(SubSeq(chain, 1, num - 1), changed),
         delivered' = IF delivered < num THEN delivered ELSE num - 1,
         UNCHANGED <<queue, job, blocks>>
  PROVE  FollowInv'
<1>1. /\ made' = made + 1 /\ chain' \in Seq(Block) /\ Len(chain') = num
      /\ \A m \in 1..num - 1 : chain'[m] = chain[m]
      /\ chain'[num].id = made + 1
  <2>1. /\ made' = made + 1 /\ chain' \in Seq(Block) /\ Len(chain') = num
        /\ \A m \in 1..num - 1 : chain'[m] = chain[m]
        /\ chain'[num] = [id |-> made + 1, changed |-> changed]
    BY ExtendTyped DEF FollowInv
  <2> QED
    BY <2>1
<1>2. /\ chain \in Seq(Block) /\ delivered \in 0..Len(chain) /\ made \in Nat
      /\ \A m \in 1..Len(chain) : chain[m].id \in 1..made
  BY DEF FollowInv, TypeInv, TypeOK, EventsKnown, Block
<1>3. Growing'
  <2>1. Increasing(chain)
    BY DEF FollowInv, Growing
  <2>2. ASSUME NEW i \in 1..num, NEW j \in 1..num, i < j
        PROVE  chain'[i].id < chain'[j].id
    <3>1. i \in 1..num - 1 /\ i \in 1..Len(chain) /\ chain'[i] = chain[i]
      BY <1>1, <1>2, <2>2
    <3>2. CASE j = num
      <4>1. chain[i].id \in 1..made
        BY <1>2, <3>1
      <4> QED
        BY <1>1, <1>2, <3>1, <3>2, <4>1
    <3>3. CASE j # num
      <4>1. j \in 1..num - 1 /\ j \in 1..Len(chain) /\ chain'[j] = chain[j]
        BY <1>1, <1>2, <3>3
      <4> QED
        BY <2>1, <2>2, <3>1, <4>1 DEF Increasing
    <3> QED
      BY <3>2, <3>3
  <2>3. Increasing(chain')
    BY <1>1, <2>2 DEF Increasing
  <2> QED
    BY <1>1, <2>3 DEF Growing
<1>4. Pending' = Pending
  BY DEF Pending
<1>5. job.phase # "stuck" => Following(Pending, blocks, chain', delivered')
  <2>1. SUFFICES ASSUME job.phase # "stuck"
                 PROVE  Following(Pending, blocks, chain', delivered')
    OBVIOUS
  <2>2. /\ Pending \in Seq(Event)
        /\ \A i \in 1..Len(Pending) : Pending[i].id < chain'[num].id
    BY <1>1, <1>2, PendingTyped DEF FollowInv
  <2> QED
    BY <1>1, <1>2, <2>1, <2>2, ForkFollows DEF FollowInv
<1> QED
  BY <1>3, <1>4, <1>5 DEF FollowInv, Branch

LEMMA ValidatorFollows ==
  ASSUME FollowInv, TypeInv', Grow \/ Switch
  PROVE  FollowInv'
<1>1. ASSUME NEW changed \in SUBSET Keys, Commit(changed)
      PROVE  FollowInv'
  <2> DEFINE num == Len(chain) + 1
  <2>1. /\ num = Len(chain) + 1 /\ Len(chain) \in Nat /\ num \in 1..Len(chain) + 1
        /\ SubSeq(chain, 1, num - 1) = chain /\ delivered < num
    BY CommitIsExtend DEF FollowInv, TypeInv, TypeOK
  <2> HIDE DEF num
  <2>2. Extend(SubSeq(chain, 1, num - 1), changed)
    BY <1>1, <2>1 DEF Commit
  <2> QED
    BY <1>1, <2>1, <2>2, ExtendFollows DEF Commit
<1>2. ASSUME NEW changed \in SUBSET Keys, NEW num \in 1..Len(chain), SwitchFork(num, changed)
      PROVE  FollowInv'
  <2>1. num \in 1..Len(chain) + 1
    BY CommitIsExtend DEF FollowInv
  <2> QED
    BY <1>2, <2>1, ExtendFollows DEF SwitchFork
<1> QED
  BY <1>1, <1>2 DEF Grow, Switch

LEMMA EventsFollow ==
  ASSUME FollowInv, TypeInv', Deliver
  PROVE  FollowInv'
<1>1. /\ delivered < Len(chain) /\ delivered' = delivered + 1
      /\ UNCHANGED <<chain, made, blocks>>
  BY DEF Deliver
<1>2. /\ Coming \in Event /\ Coming.num = delivered + 1 /\ Coming.id = chain[delivered + 1].id
      /\ chain \in Seq(Block) /\ delivered \in Nat
  BY <1>1, ComingTyped DEF FollowInv, TypeInv, TypeOK, Block
<1>3. \/ job.phase = "idle" /\ Start(Coming) /\ UNCHANGED queue
      \/ job.phase # "idle" /\ queue' = Append(queue, Coming) /\ UNCHANGED job
  BY <1>1 DEF Deliver, Coming
<1>4. ASSUME job'.phase # "stuck"
      PROVE  job.phase # "stuck" /\ Pending' = Append(Pending, Coming)
  <2>1. CASE job.phase = "idle" /\ Start(Coming) /\ UNCHANGED queue
    <3>1. queue = <<>> /\ Pending = <<>>
      BY <2>1 DEF Pending, FollowInv, TypeInv, TypeOK
    <3>2. Pending' = <<Coming>> \o <<>>
      BY <2>1, <3>1 DEF Pending, Start
    <3> QED
      BY <1>2, <2>1, <3>1, <3>2
  <2>2. CASE job.phase # "idle" /\ queue' = Append(queue, Coming) /\ UNCHANGED job
    <3>1. queue \in Seq(Event) /\ <<Coming>> \in Seq(Event) /\ <<job.event>> \in Seq(Event)
      BY <1>2 DEF FollowInv, TypeInv, TypeOK, Job
    <3>2. CASE job.phase \in {"waiting", "inserting", "replacing"}
      <4>1. Pending = <<job.event>> \o queue /\ Pending' = <<job.event>> \o (queue \o <<Coming>>)
        BY <1>2, <2>2, <3>1, <3>2, AppendIsConcat DEF Pending
      <4>2. Pending' = (<<job.event>> \o queue) \o <<Coming>>
        BY <3>1, <4>1, ConcatAssociative
      <4>3. Pending \in Seq(Event)
        BY PendingTyped DEF FollowInv
      <4> QED
        BY <1>2, <3>2, <4>1, <4>2, <4>3, AppendIsConcat
    <3>3. CASE job.phase \notin {"waiting", "inserting", "replacing"}
      BY <1>4, <2>2, <3>3 DEF Pending
    <3> QED
      BY <3>2, <3>3
  <2> QED
    BY <1>3, <2>1, <2>2
<1>5. ASSUME job'.phase # "stuck"
      PROVE  Following(Append(Pending, Coming), blocks, chain, delivered + 1)
  <2>1. Pending \in Seq(Event) /\ Following(Pending, blocks, chain, delivered) /\ Increasing(chain)
    BY <1>4, <1>5, PendingTyped DEF FollowInv, Growing
  <2> QED
    BY <1>1, <1>2, <2>1, DeliverFollows
<1> QED
  BY <1>1, <1>4, <1>5 DEF FollowInv, Growing, Branch

(* What the running event does before it reaches the blocks table, and     *)
(* what does not concern events.                                           *)
LEMMA OthersFollow ==
  ASSUME FollowInv, TypeInv', UNCHANGED <<validator, queue, blocks>>,
         \/ job' = job
         \/ job'.event = job.event /\ job.phase # "stuck" /\ {job.phase, job'.phase} \subseteq {"waiting", "inserting", "replacing"}
         \/ job.phase = "removing" /\ job'.phase = "removing"
         \/ job'.phase = "stuck"
  PROVE  FollowInv'
<1>1. job'.phase # "stuck" => job.phase # "stuck" /\ Pending' = Pending
  BY DEF Pending
<1> QED
  BY <1>1 DEF FollowInv, Growing, Branch, validator

\* The head of the pending events reaches the table.
LEMMA HeadFollows ==
  ASSUME FollowInv, job.phase \in {"waiting", "inserting", "replacing"},
         NEW b, job.event.num \in DOMAIN b, b[job.event.num] = job.event.id,
         \A m \in DOMAIN blocks : m < job.event.num => m \in DOMAIN b /\ b[m] = blocks[m]
  PROVE  Following(queue, b, chain, delivered)
<1>1. Pending # <<>> /\ Pending[1] = job.event /\ Tail(Pending) = queue
  BY PendingHead DEF FollowInv
<1>2. Pending \in Seq(Event) /\ delivered \in Nat
  BY PendingTyped DEF FollowInv, TypeInv, TypeOK
<1>3. Following(Pending, blocks, chain, delivered)
  BY DEF FollowInv
<1> HIDE DEF Pending
<1>4. Following(Tail(Pending), b, chain, delivered)
  BY <1>1, <1>2, <1>3, DoneFollows
<1> QED
  BY <1>1, <1>4

\* What is below the running event.
LEMMA BelowHead ==
  ASSUME FollowInv, job.phase \in {"waiting", "inserting", "replacing"}
  PROVE  /\ job.event.num \in Nat \ {0}
         /\ \A m \in 1..job.event.num - 1 : m \in DOMAIN blocks /\ blocks[m] < job.event.id
<1>1. Pending # <<>> /\ Pending[1] = job.event
  BY PendingHead DEF FollowInv
<1>2. Pending \in Seq(Event) /\ OnBranch(Pending, blocks)
  BY PendingTyped DEF FollowInv, Following
<1>3. job.event.num \in Nat \ {0}
  BY DEF FollowInv, TypeInv, TypeOK, EventsKnown, Job, Event
<1> HIDE DEF Pending
<1>4. 1 \in 1..Len(Pending) /\ ~ \E j \in 1..Len(Pending) : j < 1
  BY <1>1, <1>2
<1>5. \A m \in Nat \ {0} : m < Pending[1].num => m \in DOMAIN blocks /\ blocks[m] < Pending[1].id
  BY <1>2, <1>4 DEF OnBranch
<1> QED
  BY <1>1, <1>3, <1>5

LEMMA InsertBlockFollows ==
  ASSUME FollowInv, TypeInv', InsertBlock
  PROVE  FollowInv'
<1> DEFINE num == job.event.num
           id == job.event.id
<1>1. job.phase = "inserting" /\ UNCHANGED validator
  BY DEF InsertBlock
<1>2. /\ num \in Nat \ {0} /\ DOMAIN blocks \subseteq Nat
      /\ \A m \in 1..num - 1 : m \in DOMAIN blocks /\ blocks[m] < id
  BY <1>1, BelowHead DEF FollowInv, TypeInv, TypeOK
<1>3. ASSUME RunNext, Branch', num \in DOMAIN blocks', blocks'[num] = id,
             \A m \in DOMAIN blocks : m < num => m \in DOMAIN blocks' /\ blocks'[m] = blocks[m]
      PROVE  FollowInv'
  <2>1. Following(queue, blocks', chain, delivered)
    BY <1>1, <1>3, HeadFollows
  <2>2. Pending' = queue
    BY <1>3, PendingNext DEF FollowInv
  <2> QED
    BY <1>1, <1>3, <2>1, <2>2 DEF FollowInv, Growing, validator
<1>4. CASE /\ num \notin DOMAIN blocks /\ RunNext
           /\ blocks' = [n \in DOMAIN blocks \cup {num} |-> IF n = num THEN id ELSE blocks[n]]
  <2>1. /\ DOMAIN blocks' = DOMAIN blocks \cup {num} /\ blocks'[num] = id
        /\ \A m \in DOMAIN blocks : blocks'[m] = blocks[m]
    BY <1>4
  <2>2. \A n \in DOMAIN blocks : n < num
    BY <1>2, <1>4 DEF FollowInv, Branch
  <2>3. blocks' = [n \in DOMAIN blocks' |-> blocks'[n]]
    BY <1>4
  <2> HIDE DEF num, id
  <2>4. ASSUME NEW n \in DOMAIN blocks'
        PROVE  n >= 1 /\ \A m \in 1..n - 1 : m \in DOMAIN blocks' /\ blocks'[m] < blocks'[n]
    <3>1. CASE n = num
      BY <1>2, <2>1, <3>1
    <3>2. CASE n \in DOMAIN blocks
      BY <1>2, <2>1, <3>2 DEF FollowInv, Branch
    <3> QED
      BY <2>1, <3>1, <3>2
  <2>5. Branch'
    BY <2>3, <2>4 DEF Branch
  <2> QED
    BY <1>3, <1>4, <2>1, <2>5
<1>5. CASE num \in DOMAIN blocks /\ blocks[num] = id /\ RunNext /\ UNCHANGED blocks
  BY <1>3, <1>5 DEF FollowInv, Branch
<1>6. CASE job' = [job EXCEPT !.phase = "replacing"] /\ UNCHANGED <<queue, blocks>>
  <2>1. job \in Job
    BY DEF FollowInv, TypeInv, TypeOK
  <2>2. job'.phase = "replacing" /\ job'.event = job.event
    BY <1>6, <2>1 DEF Job
  <2> QED
    BY <1>1, <1>6, <2>2, OthersFollow
<1> QED
  BY <1>4, <1>5, <1>6 DEF InsertBlock

LEMMA ReplaceBlocksFollows ==
  ASSUME FollowInv, TypeInv', ReplaceBlocks
  PROVE  FollowInv'
<1> DEFINE num == job.event.num
           id == job.event.id
<1>1. /\ job.phase = "replacing" /\ UNCHANGED <<validator, queue>>
      /\ blocks' = [n \in {m \in DOMAIN blocks : m < num} \cup {num} |->
                      IF n = num THEN id ELSE blocks[n]]
  BY DEF ReplaceBlocks
<1>2. /\ num \in Nat \ {0} /\ DOMAIN blocks \subseteq Nat
      /\ \A m \in 1..num - 1 : m \in DOMAIN blocks /\ blocks[m] < id
  BY <1>1, BelowHead DEF FollowInv, TypeInv, TypeOK
<1>3. /\ DOMAIN blocks' = {m \in DOMAIN blocks : m < num} \cup {num}
      /\ blocks' = [n \in DOMAIN blocks' |-> blocks'[n]] /\ blocks'[num] = id
      /\ \A m \in DOMAIN blocks : m < num => m \in DOMAIN blocks' /\ blocks'[m] = blocks[m]
  BY <1>1, <1>2
<1>4. job \in Job
  BY DEF FollowInv, TypeInv, TypeOK
<1>5. job'.phase = "removing"
  BY <1>4 DEF ReplaceBlocks, Job
<1>6. Pending' = queue
  BY <1>1, <1>5 DEF Pending
<1>7. Following(queue, blocks', chain, delivered)
  BY <1>1, <1>3, HeadFollows
<1> HIDE DEF num, id
<1>8. ASSUME NEW n \in DOMAIN blocks'
      PROVE  n >= 1 /\ \A m \in 1..n - 1 : m \in DOMAIN blocks' /\ blocks'[m] < blocks'[n]
  <2>1. CASE n = num
    BY <1>2, <1>3, <2>1
  <2>2. CASE n \in DOMAIN blocks /\ n < num
    BY <1>2, <1>3, <2>2 DEF FollowInv, Branch
  <2> QED
    BY <1>3, <2>1, <2>2
<1>9. Branch'
  BY <1>3, <1>8 DEF Branch
<1> QED
  BY <1>1, <1>6, <1>7, <1>9 DEF FollowInv, Growing, validator

LEMMA ForkResolvedFollows ==
  ASSUME FollowInv, TypeInv', ForkResolved
  PROVE  FollowInv'
<1>1. job.phase = "removing" /\ RunNext /\ UNCHANGED <<validator, blocks>>
  BY DEF ForkResolved, database
<1>2. Pending = queue /\ Pending' = queue
  BY <1>1, PendingNext DEF Pending, FollowInv
<1> QED
  BY <1>1, <1>2 DEF FollowInv, Growing, Branch, validator

LEMMA RestartFollows ==
  ASSUME FollowInv, TypeInv', Restart
  PROVE  FollowInv'
<1>1. Pending' = <<>>
  BY DEF Restart, Pending, Idle
<1>2. Following(<<>>, blocks, chain, 0)
  BY DEF Following, InOrder, Increasing, Climbs, OnBranch, Covered
<1> QED
  BY <1>1, <1>2 DEF Restart, FollowInv, Growing, Branch, database

LEMMA InitFollows == Init => FollowInv
<1> SUFFICES ASSUME Init PROVE FollowInv
  OBVIOUS
<1>1. TypeInv
  BY InitTyped
<1>2. Growing /\ Branch
  BY DEF Init, Growing, Branch, Increasing
<1>3. Pending = <<>>
  BY DEF Init, Pending, Idle
<1>4. Following(<<>>, blocks, chain, 0)
  BY DEF Following, InOrder, Increasing, Climbs, OnBranch, Covered
<1> QED
  BY <1>1, <1>2, <1>3, <1>4 DEF FollowInv, Init

LEMMA NextFollows ==
  ASSUME FollowInv, [Next]_vars
  PROVE  FollowInv'
<1>0. TypeInv' /\ job \in Job
  BY NextTyped DEF FollowInv, TypeInv, TypeOK
<1>1. CASE UNCHANGED vars
  BY <1>0, <1>1, OthersFollow DEF vars, validator
<1>2. CASE CarryOut \/ \E w \in sent : WriteFails(w)
  BY <1>0, <1>2, OthersFollow
  DEF CarryOut, LookUpProperty, EndOldDocs, InsertDoc, WriteFails, database
<1>3. CASE SendPages
  <2>1. job'.phase = "inserting" /\ job'.event = job.event
    BY <1>0, <1>3 DEF SendPages, Job
  <2> QED
    BY <1>0, <1>3, <2>1, OthersFollow DEF SendPages, database
<1>4. CASE Resolve
  <2>1. PICK key \in Keys : RemoveForkedDocs(key)
    BY <1>4 DEF Resolve
  <2>2. job'.phase = "removing"
    BY <1>0, <2>1 DEF RemoveForkedDocs, Job
  <2> QED
    BY <1>0, <2>1, <2>2, OthersFollow DEF RemoveForkedDocs
<1>5. CASE BlockQueryFails
  <2>1. job'.phase = "stuck"
    BY <1>0, <1>5 DEF BlockQueryFails, Job
  <2> QED
    BY <1>0, <1>5, <2>1, OthersFollow DEF BlockQueryFails, database
<1>6. CASE Deliver \/ InsertBlock \/ ReplaceBlocks \/ ForkResolved
  BY <1>0, <1>6, EventsFollow, InsertBlockFollows, ReplaceBlocksFollows, ForkResolvedFollows
<1> QED
  BY <1>0, <1>1, <1>2, <1>3, <1>4, <1>5, <1>6, RestartFollows, ValidatorFollows
  DEF Next, Sync, Fail

LEMMA FollowInvariant == Spec => []FollowInv
BY InitFollows, NextFollows, PTL DEF Spec

LEMMA TableIsChain ==
  ASSUME FollowInv, AtRest
  PROVE  /\ DOMAIN blocks = DOMAIN chain
         /\ \A n \in DOMAIN chain : blocks[n] = chain[n].id
<1>1. /\ chain \in Seq(Block) /\ made \in Nat /\ DOMAIN blocks \subseteq Nat
      /\ \A n \in DOMAIN blocks : blocks[n] \in 1..made
  BY DEF FollowInv, TypeInv, TypeOK, Block
<1>2. Pending = <<>> /\ delivered = Len(chain) /\ job.phase # "stuck"
  BY DEF AtRest, Pending, Idle
<1>3. \A m \in 1..Len(chain) : m \in DOMAIN blocks /\ blocks[m] = chain[m].id
  BY <1>1, <1>2 DEF FollowInv, Following, Covered
<1>4. ASSUME NEW n \in DOMAIN blocks
      PROVE  n \in 1..Len(chain)
  <2>1. SUFFICES ASSUME n > Len(chain) PROVE FALSE
    BY <1>1 DEF FollowInv, Branch
  <2>2. CASE chain = <<>>
    BY <1>1, <2>2 DEF FollowInv, Growing
  <2>3. CASE chain # <<>>
    <3>1. Len(chain) \in 1..Len(chain) /\ Len(chain) \in 1..n - 1
      BY <1>1, <2>1, <2>3
    <3>2. blocks[Len(chain)] = made /\ blocks[Len(chain)] < blocks[n]
      BY <1>3, <2>3, <3>1 DEF FollowInv, Growing, Branch
    <3> QED
      BY <1>1, <3>2
  <2> QED
    BY <2>2, <2>3
<1>5. DOMAIN blocks = 1..Len(chain)
  BY <1>3, <1>4
<1>6. DOMAIN chain = 1..Len(chain)
  BY <1>1
<1> QED
  BY <1>3, <1>5, <1>6

(* Once every block is dealt with the blocks table names the chain, block  *)
(* by block: whatever forks there were, whenever the process was restarted *)
(* and whatever queries failed.                                            *)
THEOREM BlocksNameTheChain == Spec => []BlocksFollow
<1>1. FollowInv => BlocksFollow
  <2> SUFFICES ASSUME FollowInv, AtRest
               PROVE  blocks = [n \in DOMAIN chain |-> chain[n].id]
    BY DEF BlocksFollow
  <2> QED
    BY TableIsChain DEF FollowInv, Branch
<1> QED
  BY <1>1, FollowInvariant, PTL

-----------------------------------------------------------------------------
(* With forks, until the process is restarted.  The documents of all       *)
(* tables a fork is resolved in are those of the blocks table, of the      *)
(* running event, or about to be removed.                                  *)

OneRunNext == Sync \/ Fail \/ Grow \/ Switch

OneRunSpec == Init /\ [][OneRunNext]_vars

InTable(d) == d.start \in DOMAIN blocks /\ blocks[d.start] = d.value

OfEvent(d) == /\ job.phase \in {"waiting", "inserting", "replacing"}
              /\ d.start = job.event.num /\ d.value = job.event.id

ToBeRemoved(d) == job.phase = "removing" /\ d.key \in job.left /\ d.start >= job.event.num

DocsOfBlocks == job.phase # "stuck" =>
  /\ \A w \in sent : /\ job.phase \in {"waiting", "inserting"}
                    /\ w.num = job.event.num /\ w.id = job.event.id
  /\ \A d \in docs : d.key \notin Exchanges => InTable(d) \/ OfEvent(d) \/ ToBeRemoved(d)

\* Steps that leave the blocks, the documents and the running event alone.
LEMMA EventGoesOn ==
  ASSUME DocsOfBlocks, UNCHANGED <<docs, blocks>>, job'.event = job.event, sent' \subseteq sent,
         \/ job' = job
         \/ job'.phase = "stuck"
         \/ /\ sent' = {} /\ job.phase # "stuck"
            /\ {job.phase, job'.phase} \subseteq {"waiting", "inserting", "replacing"}
  PROVE  DocsOfBlocks'
BY DEF DocsOfBlocks, InTable, OfEvent, ToBeRemoved

\* An event ends when all documents are those of the table; the next one
\* has writes only.
LEMMA EventChanges ==
  ASSUME NEW event,
         \/ /\ sent' \subseteq Writes(event, Keys)
            /\ job'.phase = "waiting" /\ job'.event = event
         \/ sent' = {} /\ job' = Idle,
         \A d \in docs' : d.key \notin Exchanges => InTable(d)'
  PROVE  DocsOfBlocks'
<1>1. \A w \in Writes(event, Keys) : w.num = event.num /\ w.id = event.id
  BY DEF Writes
<1> QED
  BY <1>1 DEF DocsOfBlocks, Idle

LEMMA WritesOfSome ==
  ASSUME NEW event, NEW keys \in SUBSET Keys
  PROVE  Writes(event, keys) \subseteq Writes(event, Keys)
BY DEF Writes

LEMMA RunNextChanges ==
  ASSUME TypeInv, RunNext, sent = {}, \A d \in docs' : d.key \notin Exchanges => InTable(d)'
  PROVE  DocsOfBlocks'
<1>1. CASE queue = <<>> /\ job' = Idle /\ UNCHANGED sent
  BY <1>1, EventChanges
<1>2. CASE queue # <<>> /\ Start(Head(queue))
  <2> DEFINE event == Head(queue)
  <2>1. job'.phase = "waiting" /\ job'.event = event /\ sent' = Writes(event, Keys \ Pages)
    BY <1>2 DEF Start
  <2> HIDE DEF event
  <2>2. sent' \subseteq Writes(event, Keys)
    BY <2>1, WritesOfSome
  <2> QED
    BY <2>1, <2>2, EventChanges
<1> QED
  BY <1>1, <1>2 DEF RunNext

\* A document stays one of the blocks, whatever its end becomes.
LEMMA SameDocs ==
  ASSUME DocsOfBlocks, UNCHANGED <<job, blocks>>,
         \A w \in sent' : \E v \in sent : w.num = v.num /\ w.id = v.id,
         \A d \in docs' : \/ OfEvent(d)
                         \/ \E c \in docs : d.key = c.key /\ d.start = c.start /\ d.value = c.value
  PROVE  DocsOfBlocks'
BY DEF DocsOfBlocks, InTable, OfEvent, ToBeRemoved

LEMMA CarryOutKeepsDocs ==
  ASSUME TypeInv, DocsOfBlocks, job.phase # "stuck", CarryOut
  PROVE  DocsOfBlocks'
<1>1. PICK w \in sent : LookUpProperty(w) \/ EndOldDocs(w) \/ InsertDoc(w)
  BY DEF CarryOut
<1>2. w \in Write /\ docs \subseteq Doc
  BY DEF TypeInv, TypeOK
<1>3. /\ job.phase \in {"waiting", "inserting"}
      /\ w.num = job.event.num /\ w.id = job.event.id
  BY DEF DocsOfBlocks
<1>4. CASE LookUpProperty(w)
  <2> DEFINE v == [w EXCEPT !.step = "close", !.converted = Current(PropertyOf[w.key]) # {}]
  <2>1. v.num = w.num /\ v.id = w.id
    BY <1>2 DEF Write
  <2>2. sent' = (sent \ {w}) \cup {v} /\ UNCHANGED <<job, docs, blocks>>
    BY <1>4, Zenon DEF LookUpProperty, database
  <2> HIDE DEF v
  <2> QED
    BY <2>1, <2>2, SameDocs
<1>5. CASE EndOldDocs(w)
  <2> DEFINE v == [w EXCEPT !.step = "insert"]
             Ended(d) == [d EXCEPT !.end = w.num]
  <2>1. v.num = w.num /\ v.id = w.id
    BY <1>2 DEF Write
  <2>2. \A d \in docs : Ended(d).key = d.key /\ Ended(d).start = d.start /\ Ended(d).value = d.value
    BY <1>2 DEF Doc
  <2>3. UNCHANGED <<job, blocks>> /\ sent' \subseteq (sent \ {w}) \cup {v}
    BY <1>5 DEF EndOldDocs
  <2>4. \/ UNCHANGED docs
        \/ docs' = {IF d.key = w.key THEN Ended(d) ELSE d : d \in docs}
    BY <1>5 DEF EndOldDocs
  <2> HIDE DEF v, Ended
  <2>5. \A d \in docs' : \E c \in docs : d.key = c.key /\ d.start = c.start /\ d.value = c.value
    BY <2>2, <2>4
  <2>6. \A u \in sent' : \E x \in sent : u.num = x.num /\ u.id = x.id
    BY <2>1, <2>3
  <2> QED
    BY <2>3, <2>5, <2>6, SameDocs
<1>6. CASE InsertDoc(w)
  <2> DEFINE new == [key |-> w.key, value |-> w.id, start |-> w.num,
                     end |-> MAX_SAFE_INTEGER, converted |-> w.converted]
  <2>1. new.start = w.num /\ new.value = w.id
    OBVIOUS
  <2>2. UNCHANGED <<job, blocks>> /\ sent' = sent \ {w} /\ docs' = docs \cup {new}
    BY <1>6 DEF InsertDoc
  <2> HIDE DEF new
  <2>3. OfEvent(new)
    BY <1>3, <2>1 DEF OfEvent
  <2> QED
    BY <2>2, <2>3, SameDocs
<1> QED
  BY <1>1, <1>4, <1>5, <1>6

LEMMA ReplaceKeepsDocs ==
  ASSUME TypeInv, DocsOfBlocks, ReplaceBlocks
  PROVE  DocsOfBlocks'
<1> DEFINE num == job.event.num
<1>0. /\ job.phase = "replacing" /\ UNCHANGED <<sent, docs>>
      /\ blocks' = [n \in {m \in DOMAIN blocks : m < num} \cup {num} |->
                      IF n = num THEN job.event.id ELSE blocks[n]]
  BY DEF ReplaceBlocks
<1>1. /\ job.phase = "replacing" /\ UNCHANGED <<sent, docs>>
      /\ \A n \in DOMAIN blocks : n < num => n \in DOMAIN blocks' /\ blocks'[n] = blocks[n]
  <2>1. num \in Nat
    BY DEF TypeInv, TypeOK, Job, Event
  <2> HIDE DEF num
  <2> QED
    BY <1>0, <2>1
<1>2. job'.phase = "removing" /\ job'.left = Keys \ Exchanges /\ job'.event = job.event
  BY DEF ReplaceBlocks, TypeInv, TypeOK, Job
<1>3. job.event.num \in Nat /\ \A d \in docs : d.key \in Keys /\ d.start \in Nat
  BY DEF TypeInv, TypeOK, Job, Event, Doc
<1>4. sent = {}
  BY <1>1 DEF DocsOfBlocks
<1>5. ASSUME NEW d \in docs, d.key \notin Exchanges
      PROVE  InTable(d)' \/ ToBeRemoved(d)'
  <2>1. CASE d.start >= job.event.num
    BY <1>2, <1>3, <1>5, <2>1 DEF ToBeRemoved
  <2>2. CASE d.start < job.event.num
    <3>1. InTable(d)
      BY <1>1, <1>3, <1>5, <2>2 DEF DocsOfBlocks, OfEvent, ToBeRemoved
    <3> QED
      BY <1>1, <1>3, <2>2, <3>1 DEF InTable
  <2> QED
    BY <1>3, <2>1, <2>2
<1> QED
  BY <1>1, <1>4, <1>5 DEF DocsOfBlocks

LEMMA RemoveKeepsDocs ==
  ASSUME TypeInv, DocsOfBlocks, NEW key \in Keys, RemoveForkedDocs(key)
  PROVE  DocsOfBlocks'
<1> DEFINE kept == {e \in docs : ~(e.key = key /\ e.start >= job.event.num)}
<1>1. /\ job.phase = "removing" /\ UNCHANGED <<sent, blocks>>
      /\ docs' = {IF d.key = key THEN Reopened(d) ELSE d : d \in kept}
  BY DEF RemoveForkedDocs
<1>2. job'.phase = "removing" /\ job'.left = job.left \ {key} /\ job'.event = job.event
  BY DEF RemoveForkedDocs, TypeInv, TypeOK, Job
<1>3. \A d \in docs : /\ Reopened(d).key = d.key /\ Reopened(d).start = d.start
                      /\ Reopened(d).value = d.value
  BY DEF TypeInv, TypeOK, Doc, Reopened
<1>4. \A d \in kept : d \in docs /\ (d.key = key => ~ (d.start >= job.event.num))
  OBVIOUS
<1> HIDE DEF kept
<1>5. \A d \in docs' : \E c \in kept : d.key = c.key /\ d.start = c.start /\ d.value = c.value
  BY <1>1, <1>3, <1>4
<1>6. ASSUME NEW d \in docs', d.key \notin Exchanges
      PROVE  InTable(d)' \/ ToBeRemoved(d)'
  <2>1. PICK c \in kept : d.key = c.key /\ d.start = c.start /\ d.value = c.value
    BY <1>5
  <2>2. InTable(c) \/ ToBeRemoved(c)
    BY <1>1, <1>4, <1>6, <2>1 DEF DocsOfBlocks, OfEvent
  <2> QED
    BY <1>1, <1>2, <1>4, <2>1, <2>2 DEF InTable, ToBeRemoved
<1>7. sent = {}
  BY <1>1 DEF DocsOfBlocks
<1> QED
  BY <1>1, <1>6, <1>7 DEF DocsOfBlocks

LEMMA InsertBlockKeepsDocs ==
  ASSUME TypeInv, DocsOfBlocks, InsertBlock, sent = {}
  PROVE  DocsOfBlocks'
<1>1. job.phase = "inserting" /\ UNCHANGED docs
  BY DEF InsertBlock
<1>2. CASE job' = [job EXCEPT !.phase = "replacing"] /\ UNCHANGED <<sent, blocks>>
  <2>1. job'.phase = "replacing" /\ job'.event = job.event
    BY <1>2 DEF TypeInv, TypeOK, Job
  <2> QED
    BY <1>1, <1>2, <2>1, EventGoesOn
<1>3. CASE
        /\ RunNext
        /\ \/ blocks' = [n \in DOMAIN blocks \cup {job.event.num} |->
                           IF n = job.event.num THEN job.event.id ELSE blocks[n]]
              /\ job.event.num \notin DOMAIN blocks
           \/ UNCHANGED blocks
              /\ job.event.num \in DOMAIN blocks /\ blocks[job.event.num] = job.event.id
  <2>1. /\ job.event.num \in DOMAIN blocks' /\ blocks'[job.event.num] = job.event.id
        /\ \A n \in DOMAIN blocks : n \in DOMAIN blocks' /\ blocks'[n] = blocks[n]
    BY <1>3
  <2>2. \A d \in docs : d.key \notin Exchanges => InTable(d) \/ OfEvent(d)
    BY <1>1 DEF DocsOfBlocks, ToBeRemoved
  <2>3. \A d \in docs' : d.key \notin Exchanges => InTable(d)'
    BY <1>1, <2>1, <2>2 DEF InTable, OfEvent
  <2> QED
    BY <1>3, <2>3, RunNextChanges
<1> QED
  BY <1>2, <1>3 DEF InsertBlock

LEMMA DeliverKeepsDocs ==
  ASSUME TypeInv, DocsOfBlocks, sent = {} \/ job.phase # "idle", Deliver
  PROVE  DocsOfBlocks'
<1>1. CASE job.phase = "idle" /\ Start(Coming) /\ UNCHANGED queue
  <2>1. /\ job'.phase = "waiting" /\ job'.event = Coming /\ sent' = Writes(Coming, Keys \ Pages)
        /\ UNCHANGED <<docs, blocks>>
    BY <1>1 DEF Start, Deliver
  <2> HIDE DEF Coming
  <2>2. sent' \subseteq Writes(Coming, Keys)
    BY <2>1, WritesOfSome
  <2>3. \A d \in docs' : d.key \notin Exchanges => InTable(d)'
    BY <1>1, <2>1 DEF DocsOfBlocks, InTable, OfEvent, ToBeRemoved
  <2> QED
    BY <2>1, <2>2, <2>3, EventChanges
<1>2. CASE job.phase # "idle" /\ UNCHANGED <<job, sent>>
  BY <1>2, EventGoesOn DEF Deliver
<1> QED
  BY <1>1, <1>2 DEF Deliver, Coming

LEMMA SendPagesKeepsDocs ==
  ASSUME TypeInv, DocsOfBlocks, SendPages, sent = {}
  PROVE  DocsOfBlocks'
<1>1. /\ job.phase = "waiting" /\ sent' = Writes(job.event, Pages) /\ UNCHANGED <<docs, blocks>>
  BY DEF SendPages, database
<1>2. job'.phase = "inserting" /\ job'.event = job.event
  BY DEF SendPages, TypeInv, TypeOK, Job
<1>3. \A w \in Writes(job.event, Pages) : w.num = job.event.num /\ w.id = job.event.id
  BY DEF Writes
<1> QED
  BY <1>1, <1>2, <1>3 DEF DocsOfBlocks, InTable, OfEvent, ToBeRemoved

LEMMA OvertakenStays ==
  ASSUME overtaken, [Next]_vars
  PROVE  overtaken'
<1>1. CASE Deliver \/ SendPages \/ InsertBlock
  BY <1>1 DEF Deliver, SendPages, InsertBlock, GoOn
<1>2. CASE CarryOut \/ ReplaceBlocks \/ Resolve \/ ForkResolved
  BY <1>2, Zenon
  DEF CarryOut, LookUpProperty, EndOldDocs, InsertDoc, ReplaceBlocks, Resolve,
      RemoveForkedDocs, ForkResolved
<1>3. CASE Fail \/ Restart \/ Grow \/ Switch
  BY <1>3, Zenon
  DEF Fail, BlockQueryFails, WriteFails, Restart, Grow, Switch, Commit, SwitchFork
<1> QED
  BY <1>1, <1>2, <1>3 DEF Next, Sync, vars

LEMMA OneRunStep ==
  ASSUME ~overtaken', TypeInv, DocsOfBlocks, [OneRunNext]_vars
  PROVE  DocsOfBlocks'
<1>1. CASE UNCHANGED vars
  BY <1>1, EventGoesOn DEF vars
<1>2. CASE Grow \/ Switch
  <2>1. UNCHANGED <<job, sent, docs, blocks>>
    BY <1>2 DEF Grow, Switch, Commit, SwitchFork
  <2> QED
    BY <2>1, EventGoesOn
<1>3. CASE Fail
  <2>1. CASE BlockQueryFails
    <3>1. job'.phase = "stuck" /\ job'.event = job.event /\ UNCHANGED <<sent, docs, blocks>>
      BY <2>1 DEF BlockQueryFails, TypeInv, TypeOK, Job, database
    <3> QED
      BY <3>1, EventGoesOn
  <2>2. CASE \E w \in sent : WriteFails(w)
    <3>1. sent' \subseteq sent /\ UNCHANGED <<job, docs, blocks>>
      BY <2>2 DEF WriteFails, database
    <3> QED
      BY <3>1, EventGoesOn
  <2> QED
    BY <1>3, <2>1, <2>2 DEF Fail
<1>4. CASE Deliver
  BY <1>4, DeliverKeepsDocs DEF Deliver, GoOn
<1>5. CASE SendPages
  BY <1>5, SendPagesKeepsDocs DEF SendPages, GoOn
<1>6. CASE CarryOut
  <2>1. CASE job.phase = "stuck"
    <3>1. PICK w \in sent : LookUpProperty(w) \/ EndOldDocs(w) \/ InsertDoc(w)
      BY <1>6 DEF CarryOut
    <3>2. LookUpProperty(w) => UNCHANGED job
      BY Zenon DEF LookUpProperty
    <3>3. EndOldDocs(w) \/ InsertDoc(w) => UNCHANGED job
      BY DEF EndOldDocs, InsertDoc
    <3> QED
      BY <2>1, <3>1, <3>2, <3>3 DEF DocsOfBlocks
  <2> QED
    BY <1>6, <2>1, CarryOutKeepsDocs
<1>7. CASE InsertBlock
  BY <1>7, InsertBlockKeepsDocs DEF InsertBlock, GoOn
<1>8. CASE Resolve
  BY <1>8, RemoveKeepsDocs DEF Resolve
<1>9. CASE ForkResolved
  <2>1. /\ job.phase = "removing" /\ job.left = {} /\ RunNext /\ UNCHANGED <<docs, blocks>>
    BY <1>9 DEF ForkResolved, database
  <2>2. sent = {} /\ \A d \in docs' : d.key \notin Exchanges => InTable(d)'
    BY <2>1 DEF DocsOfBlocks, InTable, OfEvent, ToBeRemoved
  <2> QED
    BY <2>1, <2>2, RunNextChanges
<1> QED
  BY <1>1, <1>2, <1>3, <1>4, <1>5, <1>6, <1>7, <1>8, <1>9, ReplaceKeepsDocs DEF OneRunNext, Sync

(* Whatever forks there were, no document of an abandoned block is left in *)
(* the tables a fork is resolved in once all is dealt with, unless a query *)
(* has failed, the queue has gone on ahead of its writes, which nothing in *)
(* the code prevents, or the process was restarted.                        *)
THEOREM AbandonedDocsGo == OneRunSpec => []AbandonedGone
<1>1. Init => DocsOfBlocks /\ TypeInv /\ FollowInv
  <2>1. Init => DocsOfBlocks
    BY DEF Init, DocsOfBlocks
  <2> QED
    BY <2>1, InitTyped, InitFollows
<1>2. [OneRunNext]_vars => [Next]_vars
  BY DEF OneRunNext, Next
<1>3. FollowInv /\ [Next]_vars => FollowInv'
  BY NextFollows
<1>4. FollowInv => TypeInv
  BY DEF FollowInv
<1>5. TypeInv /\ (overtaken \/ DocsOfBlocks) /\ [OneRunNext]_vars
        => (overtaken \/ DocsOfBlocks)'
  BY <1>2, OneRunStep, OvertakenStays
<1>6. FollowInv /\ (overtaken \/ DocsOfBlocks) => AbandonedGone
  <2> SUFFICES ASSUME FollowInv, DocsOfBlocks, AtRest, NEW d \in docs, d.key \notin Exchanges
               PROVE  d.start \in DOMAIN chain /\ chain[d.start].id = d.value
    BY DEF AbandonedGone, Unharmed
  <2>1. job.phase = "idle"
    BY DEF AtRest, Idle
  <2>2. InTable(d)
    BY <2>1 DEF DocsOfBlocks, OfEvent, ToBeRemoved
  <2> QED
    BY <2>2, TableIsChain DEF InTable
<1> QED
  BY <1>1, <1>2, <1>3, <1>4, <1>5, <1>6, PTL DEF OneRunSpec

-----------------------------------------------------------------------------
(* Without forks.  The chain only grows, to less than MAX_SAFE_INTEGER     *)
(* blocks; the process may be restarted and queries may fail at any time.  *)

OneChainNext == Sync \/ Fail \/ Restart \/ (made + 1 < MAX_SAFE_INTEGER /\ Grow)

OneChainSpec == Init /\ [][OneChainNext]_vars

OfChain(event) ==
  event.num \in 1..made /\ event.id = event.num /\ event.changed = chain[event.num].changed

\* Blocks are made, delivered, dealt with and stored in the order of their
\* numbers, which are their ids; a queue that is stuck stays so.
ChainInv ==
  /\ Len(chain) = made
  /\ \A n \in 1..made : n < MAX_SAFE_INTEGER /\ chain[n].id = n
  /\ \A n \in 1..made : \A k \in Pages \cap chain[n].changed :
       \E m \in 1..n : PropertyOf[k] \in chain[m].changed
  /\ \A n \in DOMAIN blocks : n \in 1..made /\ blocks[n] = n
  /\ \A n \in 1..Position : n \in DOMAIN blocks
  /\ job.phase \in {"idle", "waiting", "inserting", "stuck"}
  /\ job.phase = "stuck" => failed = "now"
  /\ job.phase # "idle" => OfChain(job.event) /\ delivered = job.event.num + Len(queue)
  /\ \A i \in 1..Len(queue) : OfChain(queue[i]) /\ queue[i].num = job.event.num + i

Running == job.phase \in {"waiting", "inserting"}

\* No two writes of one key are under way, nor are writes of pages while
\* other entries are written; and they are the running event's, or are left
\* from before a restart.
WritesInv ==
  /\ \A w \in sent : /\ w.num \in 1..made /\ w.id = w.num /\ w.key \in chain[w.num].changed
                     /\ w.step = "lookup" => w.key \in Pages
  /\ \A v, w \in sent : v.key = w.key => v = w
  /\ \A v, w \in sent : v.key \in Pages => w.key \in Pages
  /\ Running => \A w \in sent : w.num = job.event.num
  /\ job.phase = "waiting" => \A w \in sent : w.key \notin Pages
  /\ job.phase = "idle" /\ delivered > 0 => sent = {}

\* The documents of a key ended together, when the one in force started, or
\* will start.
DocsInv ==
  /\ \A d \in docs : /\ d.start \in 1..made /\ d.value = d.start
                     /\ d.key \in chain[d.start].changed
                     /\ d.end = MAX_SAFE_INTEGER \/ d.end \in 1..made
  /\ \A c, d \in docs : c.key = d.key =>
       /\ (c.end # MAX_SAFE_INTEGER /\ d.end # MAX_SAFE_INTEGER) => c.end = d.end
       /\ (c.end = MAX_SAFE_INTEGER /\ d.end # MAX_SAFE_INTEGER) => d.end = c.start
       /\ (c.end = MAX_SAFE_INTEGER /\ d.end = MAX_SAFE_INTEGER) => d.start = c.start
  /\ \A w \in sent, d \in docs : (w.step = "insert" /\ d.key = w.key) => d.end = w.num

Stored(k, n) == \E d \in docs : d.key = k /\ d.start = n

InForce(k, n) == \E d \in docs : d.key = k /\ d.start = n /\ d.end = MAX_SAFE_INTEGER

\* The last change of key k in the first p blocks is that of block n.
LastChange(k, p, n) ==
  n \in 1..p /\ k \in chain[n].changed /\ \A m \in n + 1..p : k \notin chain[m].changed

\* The write of key k has come past the documents that were there.
Turned(k) ==
  /\ Running /\ k \in job.event.changed
  /\ ~ (job.phase = "waiting" /\ k \in Pages)
  /\ \A w \in sent : w.key = k => w.step = "insert"

\* Since the process was started without a failure: a key that the blocks up
\* to Position changed is as the last of them left it, or the running event
\* is about to replace it, or has.
ProgressInv == failed # "now" =>
  /\ \A k \in Keys, n \in 1..Position : LastChange(k, Position, n) =>
       Stored(k, n) /\ (InForce(k, n) \/ Turned(k))
  /\ \A k \in Keys : Turned(k) =>
       InForce(k, job.event.num) \/ (\E w \in sent : w.key = k /\ w.step = "insert")

\* A page is converted, and its property in force for as long as it is not.
ConvertedInv == failed = "no" =>
  /\ \A d \in docs : d.converted
  /\ \A w \in sent : w.step # "lookup" => w.converted
  /\ \A w \in sent : w.step = "lookup" => Current(PropertyOf[w.key]) # {}

OneChainInv == TypeInv /\ FollowInv /\ ChainInv /\ WritesInv /\ DocsInv /\ ProgressInv /\ ConvertedInv

-----------------------------------------------------------------------------
(* ChainInv. *)

LEMMA RunNextGoes ==
  ASSUME TypeInv, RunNext
  PROVE  \/ queue = <<>> /\ job' = Idle /\ queue' = <<>> /\ sent' = sent
         \/ /\ Len(queue) >= 1 /\ job'.phase = "waiting" /\ job'.event = queue[1]
            /\ Len(queue') = Len(queue) - 1
            /\ \A i \in 1..Len(queue') : i + 1 \in 1..Len(queue) /\ queue'[i] = queue[i + 1]
            /\ sent' = sent \cup Writes(queue[1], Keys \ Pages)
<1>1. queue \in Seq(Event)
  BY DEF TypeInv, TypeOK
<1>2. CASE queue # <<>> /\ Start(Head(queue)) /\ queue' = Tail(queue)
  <2>1. Len(queue) \in Nat /\ Len(queue) >= 1 /\ Head(queue) = queue[1]
    BY <1>1, <1>2
  <2>2. /\ Len(queue') = Len(queue) - 1 /\ \A i \in 1..Len(queue') : queue'[i] = queue[i + 1]
    BY <1>1, <1>2, HeadTailProperties
  <2>3. job'.phase = "waiting" /\ job'.event = queue[1] /\ sent' = sent \cup Writes(queue[1], Keys \ Pages)
    BY <1>2, <2>1 DEF Start
  <2> QED
    BY <2>1, <2>2, <2>3
<1> QED
  BY <1>2 DEF RunNext

\* What is a position, an event of the chain and a block stays one.
LEMMA SameChain ==
  ASSUME TypeInv, ChainInv, UNCHANGED <<validator, blocks, queue>>, job'.event = job.event,
         job'.phase = "idle" <=> job.phase = "idle",
         job'.phase \in {"idle", "waiting", "inserting", "stuck"},
         job'.phase = "stuck" => failed' = "now"
  PROVE  ChainInv' /\ Position' = Position
<1>1. Position' = Position
  BY DEF Position, validator
<1> QED
  BY <1>1 DEF ChainInv, OfChain, validator

\* What is at the front of the queue and in the table is known.
LEMMA RunningBlock ==
  ASSUME TypeInv, ChainInv, job.phase # "idle"
  PROVE  /\ job.event.num \in 1..made /\ job.event.id = job.event.num
         /\ job.event.changed = chain[job.event.num].changed
         /\ Position = job.event.num - 1 /\ made \in Nat
BY DEF ChainInv, OfChain, Position, TypeInv, TypeOK

LEMMA GrowKeepsChain ==
  ASSUME TypeInv, ChainInv, made + 1 < MAX_SAFE_INTEGER, Grow
  PROVE  /\ ChainInv' /\ Position' = Position /\ made' = made + 1
         /\ \A n \in 1..made : chain'[n] = chain[n]
         /\ UNCHANGED <<delivered, queue, job, sent, docs, blocks, failed>>
<1>1. PICK changed \in SUBSET Keys : Commit(changed)
  BY DEF Grow
<1>2. UNCHANGED <<delivered, queue, job, sent, docs, blocks, failed>>
  BY <1>1 DEF Commit
<1>3. /\ made \in Nat /\ Len(chain) = made /\ MAX_SAFE_INTEGER \in Nat
      /\ SubSeq(chain, 1, made + 1 - 1) = chain
      /\ made + 1 \in 1..Len(chain) + 1
  BY CommitIsExtend, MaxAssumption DEF TypeInv, TypeOK, ChainInv
<1>4. Extend(SubSeq(chain, 1, made + 1 - 1), changed)
  BY <1>1, <1>3 DEF Commit
<1>5. /\ made' = made + 1 /\ Len(chain') = made + 1
      /\ \A m \in 1..made + 1 - 1 : chain'[m] = chain[m]
      /\ chain'[made + 1] = [id |-> made + 1, changed |-> changed]
  BY <1>3, <1>4, ExtendTyped
<1>6. /\ \A n \in 1..made : chain'[n] = chain[n]
      /\ chain'[made + 1].id = made + 1 /\ chain'[made + 1].changed = changed
      /\ \A n \in 1..made' : n \in 1..made \/ n = made + 1
      /\ \A n \in 1..made : n \in 1..made'
  BY <1>3, <1>5
<1>7. Position' = Position
  BY <1>2 DEF Position
<1>8. \A n \in 1..made' : n < MAX_SAFE_INTEGER /\ chain'[n].id = n
  BY <1>3, <1>6 DEF ChainInv
<1>9. ASSUME NEW n \in 1..made', NEW k \in Pages \cap chain'[n].changed
      PROVE  \E m \in 1..n : PropertyOf[k] \in chain'[m].changed
  <2>1. CASE n \in 1..made
    <3>1. PICK m \in 1..n : PropertyOf[k] \in chain[m].changed
      BY <1>6, <1>9, <2>1 DEF ChainInv
    <3>2. m \in 1..made
      BY <1>3, <2>1
    <3> QED
      BY <1>6, <3>1, <3>2
  <2>2. CASE n = made + 1
    <3>1. PropertyOf[k] \in changed \cup ChangedIn(chain)
      BY <1>1, <1>6, <1>9, <2>2 DEF Commit, Extend
    <3>2. CASE PropertyOf[k] \in changed
      BY <1>3, <1>6, <2>2, <3>2
    <3>3. CASE PropertyOf[k] \in ChangedIn(chain)
      <4>1. PICK m \in DOMAIN chain : PropertyOf[k] \in chain[m].changed
        BY <3>3 DEF ChangedIn
      <4>2. m \in 1..made
        BY <1>3, <4>1 DEF TypeInv, TypeOK
      <4> QED
        BY <1>3, <1>6, <2>2, <4>1, <4>2
    <3> QED
      BY <3>1, <3>2, <3>3
  <2> QED
    BY <1>6, <2>1, <2>2
<1>11. /\ job.phase # "idle" => OfChain(job.event)'
       /\ \A i \in 1..Len(queue) : OfChain(queue[i])'
  BY <1>2, <1>6 DEF ChainInv, OfChain
<1>12. \A n \in DOMAIN blocks' : n \in 1..made' /\ blocks'[n] = n
  BY <1>2, <1>6 DEF ChainInv
<1>13. ChainInv'
  BY <1>2, <1>5, <1>7, <1>8, <1>9, <1>11, <1>12 DEF ChainInv
<1> QED
  BY <1>2, <1>5, <1>6, <1>7, <1>13

LEMMA DeliverKeepsChain ==
  ASSUME TypeInv, ChainInv, Deliver
  PROVE  ChainInv' /\ Position' = Position
<1>1. /\ delivered < Len(chain) /\ delivered' = delivered + 1 /\ delivered \in Nat
      /\ UNCHANGED <<chain, made, docs, blocks, failed>>
  BY DEF Deliver, TypeInv, TypeOK
<1>2. /\ delivered + 1 \in 1..made /\ Coming.num = delivered + 1 /\ Coming.id = delivered + 1
      /\ Coming.changed = chain[delivered + 1].changed /\ Coming \in Event
  BY <1>1, ComingTyped DEF ChainInv, Coming
<1>3. OfChain(Coming)
  BY <1>2 DEF OfChain
<1>4. CASE job.phase = "idle" /\ Start(Coming) /\ UNCHANGED queue
  <2>1. queue = <<>> /\ Len(queue) = 0
    BY <1>4 DEF TypeInv, TypeOK
  <2>2. job'.phase = "waiting" /\ job'.event = Coming
    BY <1>4 DEF Start
  <2>3. Position' = Position
    BY <1>1, <1>2, <1>4, <2>2 DEF Position
  <2> HIDE DEF Coming
  <2> QED
    BY <1>1, <1>2, <1>3, <1>4, <2>1, <2>2, <2>3 DEF ChainInv, OfChain
<1>5. CASE job.phase # "idle" /\ queue' = Append(queue, Coming) /\ UNCHANGED <<job, sent>>
  <2>1. queue \in Seq(Event)
    BY DEF TypeInv, TypeOK
  <2>2. /\ Len(queue') = Len(queue) + 1 /\ Len(queue) \in Nat
        /\ \A n \in 1..Len(queue) : queue'[n] = queue[n]
        /\ queue'[Len(queue) + 1] = Coming
    BY <1>2, <1>5, <2>1, AppendProperties
  <2>3. Position' = Position
    BY <1>5 DEF Position
  <2>4. delivered = job.event.num + Len(queue)
    BY <1>5 DEF ChainInv
  <2>5. job.event.num \in Nat
    BY DEF TypeInv, TypeOK, Job, Event
  <2>6. ASSUME NEW i \in 1..Len(queue')
        PROVE  OfChain(queue'[i]) /\ queue'[i].num = job.event.num + i
    <3>1. CASE i \in 1..Len(queue)
      BY <2>2, <3>1 DEF ChainInv
    <3>2. CASE i = Len(queue) + 1
      <4>1. queue'[i] = Coming
        BY <2>2, <3>2
      <4>2. Coming.num = job.event.num + i
        BY <1>2, <2>2, <2>4, <2>5, <3>2
      <4> QED
        BY <1>3, <4>1, <4>2
    <3> QED
      BY <2>2, <3>1, <3>2
  <2>7. delivered' = job.event.num + Len(queue')
    <3>1. Len(queue') = Len(queue) + 1 /\ Len(queue) \in Nat
      BY <2>2
    <3>2. delivered' = delivered + 1
      BY <1>1
    <3> QED
      BY <2>4, <2>5, <3>1, <3>2
  <2>8. \A i \in 1..Len(queue') : OfChain(queue[i])' /\ queue'[i].num = job.event.num + i
    <3>1. \A e : OfChain(e) => e.num \in 1..made' /\ e.id = e.num /\ e.changed = chain'[e.num].changed
      BY <1>1 DEF OfChain
    <3> QED
      BY <2>6, <3>1 DEF OfChain
  <2>9. OfChain(job.event)' /\ job' = job
    BY <1>1, <1>5 DEF OfChain, ChainInv
  <2> QED
    BY <1>1, <2>3, <2>7, <2>8, <2>9 DEF ChainInv
<1> QED
  BY <1>1, <1>4, <1>5 DEF Deliver, Coming

LEMMA InsertBlockGoes ==
  ASSUME TypeInv, ChainInv, InsertBlock
  PROVE  /\ RunNext /\ ChainInv' /\ Position' = job.event.num
         /\ UNCHANGED <<validator, docs, failed>>
         /\ DOMAIN blocks' = DOMAIN blocks \cup {job.event.num}
<1> DEFINE num == job.event.num
<1>1. job.phase = "inserting" /\ UNCHANGED <<validator, docs, failed>>
  BY DEF InsertBlock
<1>2. num \in 1..made /\ job.event.id = num /\ Position = num - 1 /\ made \in Nat
  BY <1>1, RunningBlock
<1>3. num \in DOMAIN blocks => blocks[num] = num
  BY DEF ChainInv
<1>4. /\ RunNext
      /\ DOMAIN blocks' = DOMAIN blocks \cup {num}
      /\ \A n \in DOMAIN blocks' : blocks'[n] = IF n = num THEN num ELSE blocks[n]
  BY <1>2, <1>3 DEF InsertBlock
<1>5. /\ \A n \in DOMAIN blocks' : n \in 1..made /\ blocks'[n] = n
      /\ \A n \in 1..num : n \in DOMAIN blocks'
  BY <1>2, <1>4 DEF ChainInv
<1>6. delivered = num + Len(queue)
  BY <1>1 DEF ChainInv
<1>7. CASE queue = <<>> /\ job' = Idle /\ queue' = <<>> /\ sent' = sent
  <2>1. Position' = num
    BY <1>1, <1>2, <1>6, <1>7 DEF Position, Idle, validator
  <2>2. job'.phase = "idle"
    BY <1>7 DEF Idle
  <2> HIDE DEF num
  <2>3. ChainInv'
    BY <1>1, <1>5, <1>7, <2>1, <2>2 DEF ChainInv, validator
  <2> QED
    BY <1>1, <1>4, <2>1, <2>3 DEF num
<1>8. CASE /\ Len(queue) >= 1 /\ job'.phase = "waiting" /\ job'.event = queue[1]
           /\ Len(queue') = Len(queue) - 1
           /\ \A i \in 1..Len(queue') : i + 1 \in 1..Len(queue) /\ queue'[i] = queue[i + 1]
  <2>0. Len(queue) \in Nat /\ 1 \in 1..Len(queue) /\ num \in Nat
    BY <1>2, <1>8 DEF TypeInv, TypeOK
  <2>1. OfChain(queue[1]) /\ queue[1].num = num + 1
    BY <2>0 DEF ChainInv
  <2>2. Position' = num
    BY <1>8, <2>0, <2>1 DEF Position
  <2>3. \A i \in 1..Len(queue') : OfChain(queue'[i]) /\ queue'[i].num = num + (i + 1)
    BY <1>8, <2>0 DEF ChainInv
  <2>4. ASSUME NEW i \in 1..Len(queue')
        PROVE  queue'[i].num = (num + 1) + i
    <3>1. queue'[i].num = num + (i + 1)
      BY <2>3
    <3> QED
      BY <2>0, <3>1
  <2> HIDE DEF num
  <2>5. ChainInv'
    BY <1>1, <1>5, <1>6, <1>8, <2>0, <2>1, <2>2, <2>3, <2>4 DEF ChainInv, OfChain, validator
  <2> QED
    BY <1>1, <1>4, <2>2, <2>5 DEF num
<1> QED
  BY <1>4, <1>7, <1>8, RunNextGoes

LEMMA RestartKeepsChain ==
  ASSUME TypeInv, ChainInv, Restart
  PROVE  ChainInv' /\ Position' = 0
<1>1. /\ job'.phase = "idle" /\ queue' = <<>> /\ delivered' = 0
      /\ UNCHANGED <<chain, made, docs, blocks>>
  BY DEF Restart, Idle, database
<1>2. Position' = 0
  BY <1>1 DEF Position
<1> QED
  BY <1>1, <1>2 DEF ChainInv

-----------------------------------------------------------------------------
(* A set of numbers up to p that is not empty has a largest one.           *)
LEMMA LargestNumber ==
  ASSUME NEW p \in Nat, NEW S \in SUBSET (1..p), S # {}
  PROVE  \E n \in S : \A m \in S : m <= n
<1> DEFINE T == {p - n : n \in S}
<1>2. \A m \in S : p - m \in T
  OBVIOUS
<1>3. \A i \in T : \E n \in S : i = p - n
  OBVIOUS
<1>1. T \subseteq Nat /\ T # {}
  <2>1. \A m \in S : p - m \in Nat
    OBVIOUS
  <2> QED
    BY <1>2, <1>3, <2>1
<1> HIDE DEF T
<1>4. \E i \in T : \A j \in T : ~ (<<j, i>> \in OpToRel(<, Nat))
  BY <1>1, NatLessThanWellFounded, WFMin, Zenon
<1>5. PICK i \in T : \A j \in T : ~ (<<j, i>> \in OpToRel(<, Nat))
  BY <1>4
<1>6. PICK n \in S : i = p - n
  BY <1>3
<1>7. \A j \in T : ~ (j < i)
  BY <1>1, <1>5 DEF OpToRel
<1>8. \A m \in S : ~ (p - m < p - n)
  BY <1>2, <1>6, <1>7
<1> QED
  BY <1>8

LEMMA LastChangeExists ==
  ASSUME NEW p \in Nat, NEW k, NEW m \in 1..p, k \in chain[m].changed
  PROVE  \E n \in 1..p : LastChange(k, p, n) /\ m <= n
<1> DEFINE S == {n \in 1..p : k \in chain[n].changed}
<1>1. PICK n \in S : \A l \in S : l <= n
  BY LargestNumber
<1>2. n \in 1..p /\ k \in chain[n].changed /\ m <= n
  BY <1>1
<1>3. \A l \in n + 1..p : k \notin chain[l].changed
  BY <1>1, <1>2
<1> QED
  BY <1>2, <1>3 DEF LastChange

-----------------------------------------------------------------------------
(* The other parts.  They speak of the chain up to made, and of the        *)
(* running event; what is left of the state does not concern them.         *)

WritingInv == WritesInv /\ DocsInv /\ ProgressInv /\ ConvertedInv

\* The writes of some keys of an event of the chain.
LEMMA FreshWrites ==
  ASSUME NEW event, OfChain(event), NEW keys \in SUBSET Keys
  PROVE  /\ \A w \in Writes(event, keys) :
              /\ w.num = event.num /\ w.id = event.num /\ w.key \in keys \cap event.changed
              /\ w.step # "insert"
              /\ w.step = "lookup" => w.key \in Pages
              /\ w.key \notin Pages => w.converted
              /\ w.step # "lookup" => w.converted
         /\ \A v, w \in Writes(event, keys) : v.key = w.key => v = w
         /\ \A k \in keys \cap event.changed : \E w \in Writes(event, keys) : w.key = k
<1> DEFINE W(k) == [step |-> IF k \in Pages THEN "lookup" ELSE "close", key |-> k,
                    num |-> event.num, id |-> event.id, converted |-> k \notin Pages]
<1>1. Writes(event, keys) = {W(k) : k \in keys \cap event.changed}
  BY DEF Writes
<1>2. \A k : /\ W(k).key = k /\ W(k).num = event.num /\ W(k).id = event.num
             /\ W(k).step = (IF k \in Pages THEN "lookup" ELSE "close")
  BY DEF OfChain
<1>3. \A k : W(k).converted = (k \notin Pages)
  OBVIOUS
<1> HIDE DEF W
<1>4. \A w \in Writes(event, keys) : \E k \in keys \cap event.changed : w = W(k)
  BY <1>1
<1>5. \A w \in Writes(event, keys) : w = W(w.key) /\ w.key \in keys \cap event.changed
  BY <1>2, <1>4
<1>6. \A k : W(k).step # "insert" /\ (W(k).step = "lookup" <=> k \in Pages)
  BY <1>2
<1>7. \A w \in Writes(event, keys) :
        /\ w.num = event.num /\ w.id = event.num /\ w.key \in keys \cap event.changed
        /\ w.step # "insert" /\ (w.step = "lookup" <=> w.key \in Pages)
  BY <1>2, <1>5, <1>6
<1>8. \A w \in Writes(event, keys) : w.key \notin Pages => w.converted
  BY <1>3, <1>5
<1>9. \A k \in keys \cap event.changed : W(k) \in Writes(event, keys)
  BY <1>1
<1> QED
  BY <1>2, <1>5, <1>7, <1>8, <1>9

(* A running event whose writes have not been sent or begun finds each key *)
(* as the blocks before it left it.                                        *)
Prepared(p) == failed # "now" =>
  \A k \in Keys, n \in 1..p : LastChange(k, p, n) => Stored(k, n) /\ InForce(k, n)

LEMMA StartWrites ==
  ASSUME TypeInv, WritingInv, sent = {}, NEW event, OfChain(event),
         job'.phase = "waiting", job'.event = event,
         sent' = Writes(event, Keys \ Pages),
         UNCHANGED <<chain, made, docs, failed>>, Prepared(event.num - 1)
  PROVE  WritingInv'
<1>1. /\ \A w \in sent' : /\ w.num = event.num /\ w.id = event.num /\ w.key \in event.changed
                           /\ w.key \notin Pages /\ w.step # "insert" /\ w.step # "lookup"
                           /\ w.converted
      /\ \A v, w \in sent' : v.key = w.key => v = w
      /\ \A k \in (Keys \ Pages) \cap event.changed : \E w \in sent' : w.key = k
  <2> DEFINE keys == Keys \ Pages
  <2>1. keys \in SUBSET Keys /\ \A k \in keys : k \notin Pages
    OBVIOUS
  <2> HIDE DEF keys
  <2>2. /\ \A w \in Writes(event, keys) :
              /\ w.num = event.num /\ w.id = event.num /\ w.key \in keys \cap event.changed
              /\ w.step # "insert"
              /\ w.step = "lookup" => w.key \in Pages
              /\ w.key \notin Pages => w.converted
              /\ w.step # "lookup" => w.converted
        /\ \A v, w \in Writes(event, keys) : v.key = w.key => v = w
        /\ \A k \in keys \cap event.changed : \E w \in Writes(event, keys) : w.key = k
    BY <2>1, FreshWrites
  <2>3. sent' = Writes(event, keys)
    BY DEF keys
  <2>4. ASSUME NEW w \in sent'
        PROVE  /\ w.num = event.num /\ w.id = event.num /\ w.key \in event.changed
               /\ w.key \notin Pages /\ w.step # "insert" /\ w.step # "lookup"
               /\ w.converted
    <3>1. w.key \in keys \cap event.changed /\ w.num = event.num /\ w.id = event.num
          /\ w.step # "insert" /\ (w.step = "lookup" => w.key \in Pages)
      BY <2>2, <2>3
    <3>2. w.key \notin Pages
      BY <2>1, <3>1
    <3>3. w.converted
      BY <2>2, <2>3, <3>2, Zenon
    <3> QED
      BY <3>1, <3>2, <3>3
  <2> QED
    BY <2>2, <2>3, <2>4 DEF keys
<1>2. event.num \in 1..made /\ event.changed = chain[event.num].changed
  BY DEF OfChain
<1>3. WritesInv'
  <2>1. ASSUME NEW w \in sent'
        PROVE  /\ w.num \in 1..made' /\ w.id = w.num /\ w.key \in chain'[w.num].changed
               /\ w.step = "lookup" => w.key \in Pages
    <3>1. w.num = event.num /\ w.id = event.num /\ w.key \in event.changed /\ w.step # "lookup"
      BY <1>1
    <3>2. made' = made /\ chain' = chain
      OBVIOUS
    <3> QED
      BY <1>2, <3>1, <3>2
  <2>2. \A w \in sent' : w.num = job'.event.num
    BY <1>1
  <2>3. \A w \in sent' : w.key \notin Pages
    BY <1>1
  <2>4. \A v, w \in sent' : v.key = w.key => v = w
    BY <1>1
  <2>5. ~ (job'.phase = "idle")
    OBVIOUS
  <2> QED
    BY <2>1, <2>2, <2>3, <2>4, <2>5 DEF WritesInv
<1>4. DocsInv'
  BY <1>1 DEF WritingInv, DocsInv
<1>5. ASSUME NEW k \in Keys
      PROVE  ~ Turned(k)'
  <2>1. CASE k \in event.changed /\ k \notin Pages
    <3>1. PICK w \in sent' : w.key = k
      BY <1>1, <2>1
    <3>2. w.step # "insert"
      BY <1>1
    <3> QED
      BY <3>1, <3>2 DEF Turned
  <2>2. CASE k \notin event.changed \/ k \in Pages
    BY <2>2 DEF Turned
  <2> QED
    BY <2>1, <2>2
<1>6. Position' = event.num - 1
  BY DEF Position
<1>7. ProgressInv'
  BY <1>5, <1>6 DEF ProgressInv, Prepared, LastChange, Stored, InForce
<1>8. ConvertedInv'
  BY <1>1 DEF WritingInv, ConvertedInv
<1> QED
  BY <1>3, <1>4, <1>7, <1>8 DEF WritingInv

(* Events that have to wait, and blocks that are added to the chain, do    *)
(* not concern the running event.                                          *)
LEMMA ChainGrows ==
  ASSUME TypeInv, ChainInv, WritingInv, UNCHANGED <<job, sent, docs, failed>>, Position' = Position,
         made' = made \/ made' = made + 1, \A n \in 1..made : chain'[n] = chain[n],
         delivered' = delivered \/ job.phase # "idle"
  PROVE  WritingInv'
<1>1. made \in Nat /\ \A n \in 1..made : n \in 1..made'
  BY DEF TypeInv, TypeOK
<1>2. \A n \in 1..Position : n \in 1..made
  BY DEF ChainInv
<1>3. WritesInv'
  BY <1>1 DEF WritingInv, WritesInv, Running
<1>4. DocsInv'
  BY <1>1 DEF WritingInv, DocsInv
<1>5. \A k, n : LastChange(k, Position, n)' => LastChange(k, Position, n)
  <2>1. SUFFICES ASSUME NEW k, NEW n, LastChange(k, Position, n)'
                 PROVE  LastChange(k, Position, n)
    OBVIOUS
  <2>2. /\ n \in 1..Position /\ k \in chain'[n].changed
        /\ \A m \in n + 1..Position : k \notin chain'[m].changed
    BY <2>1 DEF LastChange
  <2>3. \A m \in n + 1..Position : m \in 1..Position
    BY <2>2 DEF Position, TypeInv, TypeOK, Job, Event
  <2> QED
    BY <1>2, <2>2, <2>3 DEF LastChange
<1>6. \A k : Turned(k)' <=> Turned(k)
  BY DEF Turned, Running
<1>7. ProgressInv'
  BY <1>5, <1>6 DEF WritingInv, ProgressInv, Stored, InForce
<1>8. ConvertedInv'
  BY DEF WritingInv, ConvertedInv, Current
<1> QED
  BY <1>3, <1>4, <1>7, <1>8 DEF WritingInv

(* Writes are lost, by a failure or a restart.                             *)
LEMMA WritesLost ==
  ASSUME TypeInv, WritingInv, sent' \subseteq sent, UNCHANGED <<chain, made, docs>>,
         \/ job' = job /\ delivered' = delivered /\ failed' = "now"
         \/ job'.phase = "stuck" /\ failed' = "now"
         \/ job'.phase = "idle" /\ delivered' = 0 /\ (failed' = "no" => failed = "no")
  PROVE  WritingInv'
<1>1. WritesInv'
  BY DEF WritingInv, WritesInv, Running
<1>2. DocsInv'
  BY DEF WritingInv, DocsInv
<1>3. ProgressInv'
  <2>1. SUFFICES ASSUME failed' # "now"
                 PROVE  ProgressInv'
    BY DEF ProgressInv
  <2>2. Position' = 0 /\ \A k : ~ Turned(k)'
    BY <2>1 DEF Position, Turned, Running
  <2> QED
    BY <2>2 DEF ProgressInv
<1>4. ConvertedInv'
  BY DEF WritingInv, ConvertedInv, Current
<1> QED
  BY <1>1, <1>2, <1>3, <1>4 DEF WritingInv

-----------------------------------------------------------------------------
(* One step of a write. *)

LEMMA WriteGoesOn ==
  ASSUME WritesInv, NEW w \in sent, NEW v, v.key = w.key, v.num = w.num, v.id = w.id,
         v.step # "lookup", sent' = (sent \ {w}) \cup {v}, UNCHANGED <<validator, job>>
  PROVE  WritesInv' /\ \A u \in sent' : u = v \/ (u \in sent /\ u.key # w.key)
<1>1. \A u \in sent' : u = v \/ (u \in sent /\ u.key # w.key)
  BY DEF WritesInv
<1>2. \A u \in sent' : \E x \in sent : u.key = x.key /\ u.num = x.num /\ u.id = x.id
                                      /\ (u.step = "lookup" => x.step = "lookup")
  BY <1>1
<1>3. \A t, u \in sent' : t.key = u.key => t = u
  BY <1>1 DEF WritesInv
<1>4. \A t, u \in sent' : t.key \in Pages => u.key \in Pages
  BY <1>2 DEF WritesInv
<1>5. \A u \in sent' : /\ u.num \in 1..made /\ u.id = u.num /\ u.key \in chain[u.num].changed
                       /\ u.step = "lookup" => u.key \in Pages
  BY <1>2 DEF WritesInv
<1>6. Running => \A u \in sent' : u.num = job.event.num
  BY <1>2 DEF WritesInv
<1>7. job.phase = "waiting" => \A u \in sent' : u.key \notin Pages
  BY <1>2 DEF WritesInv
<1>8. Running' = Running /\ UNCHANGED <<chain, made, delivered>>
  BY DEF Running, validator
<1>9. ~ (job.phase = "idle" /\ delivered > 0)
  BY DEF WritesInv
<1> QED
  BY <1>1, <1>3, <1>4, <1>5, <1>6, <1>7, <1>8, <1>9 DEF WritesInv

LEMMA WriteEnds ==
  ASSUME WritesInv, NEW w \in sent, sent' = sent \ {w}, UNCHANGED <<validator, job>>
  PROVE  WritesInv' /\ \A u \in sent' : u \in sent /\ u.key # w.key
BY DEF WritesInv, Running, validator

(* While a write of a key is under way, what is reached is known of the    *)
(* key only if an event is running, and that event writes it.              *)
LEMMA WriteRuns ==
  ASSUME TypeInv, ChainInv, WritesInv, NEW w \in sent, failed # "now", NEW n \in 1..Position
  PROVE  /\ Running /\ w.num = job.event.num /\ w.key \in job.event.changed
         /\ ~ (job.phase = "waiting" /\ w.key \in Pages)
<1>1. job.phase # "stuck" /\ job.phase \in {"idle", "waiting", "inserting", "stuck"}
  BY DEF ChainInv
<1>2. job.phase # "idle"
  <2>1. SUFFICES ASSUME job.phase = "idle" PROVE FALSE
    OBVIOUS
  <2>2. n \in 1..delivered /\ delivered \in Nat
    BY <2>1 DEF Position, TypeInv, TypeOK
  <2> QED
    BY <2>1, <2>2 DEF WritesInv
<1>3. Running
  BY <1>1, <1>2 DEF Running
<1>4. w.num = job.event.num /\ job.event.changed = chain[job.event.num].changed
  BY <1>2, <1>3, RunningBlock DEF WritesInv
<1> QED
  BY <1>3, <1>4 DEF WritesInv

LEMMA LookUpKeeps ==
  ASSUME TypeInv, WritingInv, NEW w \in sent, LookUpProperty(w)
  PROVE  WritingInv'
<1> DEFINE found == Current(PropertyOf[w.key]) # {}
           v == [w EXCEPT !.step = "close", !.converted = found]
<1>1. /\ w.step = "lookup" /\ sent' = (sent \ {w}) \cup {v}
      /\ UNCHANGED <<validator, queue, job, docs, blocks, failed>>
  BY DEF LookUpProperty, database
<1>2. w \in Write
  BY DEF TypeInv, TypeOK
<1>3. v.key = w.key /\ v.num = w.num /\ v.id = w.id /\ v.step = "close"
  BY <1>2 DEF Write
<1>4. v.converted = found
  BY <1>2, Zenon DEF Write
<1> HIDE DEF v, found
<1>5. WritesInv' /\ \A u \in sent' : u = v \/ (u \in sent /\ u.key # w.key)
  BY <1>1, <1>3, WriteGoesOn DEF WritingInv
<1>6. \A u \in sent : u.key = w.key => u = w
  BY DEF WritingInv, WritesInv
<1>7. DocsInv'
  BY <1>1, <1>3, <1>5 DEF WritingInv, DocsInv, validator
<1>8. v \in sent' /\ \A u \in sent : u.key # w.key => u \in sent'
  BY <1>1
<1>9. ASSUME NEW k
      PROVE  /\ Turned(k)' <=> Turned(k)
             /\ (\E u \in sent : u.key = k /\ u.step = "insert")
                  => \E u \in sent' : u.key = k /\ u.step = "insert"
  <2>1. CASE k = w.key
    <3>1. ~ Turned(k)
      BY <1>1, <2>1 DEF Turned
    <3>2. ~ Turned(k)'
      BY <1>3, <1>8, <2>1 DEF Turned
    <3>3. ~ \E u \in sent : u.key = k /\ u.step = "insert"
      BY <1>1, <1>6, <2>1
    <3> QED
      BY <3>1, <3>2, <3>3
  <2>2. CASE k # w.key
    <3>1. \A u : (u \in sent' /\ u.key = k) <=> (u \in sent /\ u.key = k)
      BY <1>3, <1>5, <1>8, <2>2
    <3>2. Turned(k)' <=> Turned(k)
      BY <1>1, <3>1 DEF Turned, Running
    <3> QED
      BY <3>1, <3>2
  <2> QED
    BY <2>1, <2>2
<1>10. Position' = Position /\ UNCHANGED <<chain, docs, failed, job>>
  BY <1>1 DEF Position, validator
<1>11. ProgressInv'
  BY <1>9, <1>10 DEF WritingInv, ProgressInv, LastChange, Stored, InForce
<1>12. ConvertedInv'
  <2>1. SUFFICES ASSUME failed' = "no" PROVE ConvertedInv'
    BY DEF ConvertedInv
  <2>2. failed = "no"
    BY <1>1, <2>1
  <2>3. found
    BY <1>1, <2>2 DEF WritingInv, ConvertedInv, found
  <2>4. v.converted
    BY <1>4, <2>3
  <2>5. \A u \in sent' : u.step # "lookup" => u.converted
    BY <1>5, <2>2, <2>4 DEF WritingInv, ConvertedInv
  <2>6. \A u \in sent' : u.step = "lookup" => u \in sent
    BY <1>3, <1>5
  <2> QED
    BY <1>1, <2>2, <2>5, <2>6 DEF WritingInv, ConvertedInv, Current
<1> QED
  BY <1>5, <1>7, <1>11, <1>12 DEF WritingInv

(* A write that is dropped, because its document is there already.         *)
LEMMA DropKeeps ==
  ASSUME TypeInv, ChainInv, WritingInv, NEW w \in sent, EndOldDocs(w),
         NEW c \in Current(w.key), c.start = w.num
  PROVE  WritingInv'
<1>1. /\ w.step = "close" /\ sent' = sent \ {w}
      /\ UNCHANGED <<chain, made, delivered, queue, job, docs, blocks, failed>>
  BY DEF EndOldDocs, validator
<1>2. WritesInv' /\ \A u \in sent' : u \in sent /\ u.key # w.key
  BY <1>1, WriteEnds DEF WritingInv, validator
<1>3. \A u \in sent : u.key = w.key => u = w
  BY DEF WritingInv, WritesInv
<1>4. DocsInv'
  BY <1>1, <1>2 DEF WritingInv, DocsInv
<1>5. Position' = Position
  BY <1>1 DEF Position
<1>6. InForce(w.key, w.num)
  BY DEF Current, InForce
<1>7. ASSUME NEW k, k # w.key
      PROVE  /\ Turned(k)' <=> Turned(k)
             /\ (\E u \in sent : u.key = k /\ u.step = "insert")
                  => \E u \in sent' : u.key = k /\ u.step = "insert"
  <2>1. \A u : (u \in sent' /\ u.key = k) <=> (u \in sent /\ u.key = k)
    BY <1>1, <1>7
  <2> QED
    BY <1>1, <2>1 DEF Turned, Running
<1>8. ~ Turned(w.key)
  BY <1>1 DEF Turned
<1>9. ProgressInv'
  <2>1. SUFFICES ASSUME failed' # "now" PROVE ProgressInv'
    BY DEF ProgressInv
  <2>2. ASSUME NEW k \in Keys, NEW n \in 1..Position, LastChange(k, Position, n)
        PROVE  Stored(k, n) /\ (InForce(k, n) \/ Turned(k)')
    <3>1. Stored(k, n) /\ (InForce(k, n) \/ Turned(k))
      BY <1>1, <2>1, <2>2 DEF WritingInv, ProgressInv
    <3> QED
      BY <1>7, <1>8, <3>1
  <2>3. ASSUME NEW k \in Keys, Turned(k)'
        PROVE  InForce(k, job.event.num) \/ (\E u \in sent' : u.key = k /\ u.step = "insert")
    <3>1. CASE k = w.key
      <4>1. Running
        BY <1>1, <2>3 DEF Turned, Running
      <4>2. w.num = job.event.num
        BY <4>1 DEF WritingInv, WritesInv
      <4> QED
        BY <1>6, <3>1, <4>2
    <3>2. CASE k # w.key
      BY <1>1, <1>7, <2>1, <2>3, <3>2 DEF WritingInv, ProgressInv
    <3> QED
      BY <3>1, <3>2
  <2> QED
    BY <1>1, <1>5, <2>2, <2>3 DEF ProgressInv, LastChange, Stored, InForce
<1>10. ConvertedInv'
  BY <1>1, <1>2 DEF WritingInv, ConvertedInv, Current
<1> QED
  BY <1>2, <1>4, <1>9, <1>10 DEF WritingInv

(* A write ends the documents that are there.                              *)
LEMMA EndKeeps ==
  ASSUME TypeInv, ChainInv, WritingInv, NEW w \in sent, EndOldDocs(w),
         \A c \in Current(w.key) : c.start # w.num
  PROVE  WritingInv'
<1> DEFINE v == [w EXCEPT !.step = "insert"]
           Ended(d) == [d EXCEPT !.end = w.num]
<1>1. /\ w.step = "close" /\ sent' = (sent \ {w}) \cup {v}
      /\ docs' = {IF d.key = w.key THEN Ended(d) ELSE d : d \in docs}
      /\ UNCHANGED <<chain, made, delivered, queue, job, blocks, failed>>
  BY DEF EndOldDocs, validator
<1>2. w \in Write /\ w.num \in Nat /\ docs \subseteq Doc
  BY DEF TypeInv, TypeOK, Write
<1>3. v.key = w.key /\ v.num = w.num /\ v.id = w.id /\ v.step = "insert"
  BY <1>2 DEF Write
<1>4. v.converted = w.converted
  BY <1>2, Zenon DEF Write
<1>5. \A d \in docs : /\ Ended(d).key = d.key /\ Ended(d).start = d.start
                      /\ Ended(d).value = d.value /\ Ended(d).end = w.num
  BY <1>2 DEF Doc
<1>6. \A d \in docs : Ended(d).converted = d.converted
  BY <1>2, Zenon DEF Doc
<1> HIDE DEF v, Ended
<1>7. \A d \in docs : (d.key # w.key => d \in docs') /\ (d.key = w.key => Ended(d) \in docs')
  BY <1>1
<1>8. \A e \in docs' : \/ e \in docs /\ e.key # w.key
                       \/ \E d \in docs : d.key = w.key /\ e = Ended(d)
  BY <1>1
<1>9. \A e \in docs' :
        \/ e \in docs /\ e.key # w.key
        \/ /\ e.key = w.key /\ e.end = w.num
           /\ \E d \in docs : d.key = w.key /\ e.start = d.start /\ e.value = d.value
  BY <1>5, <1>8
<1>10. WritesInv' /\ \A u \in sent' : u = v \/ (u \in sent /\ u.key # w.key)
  BY <1>1, <1>3, WriteGoesOn DEF WritingInv, validator
<1>11. v \in sent' /\ \A u \in sent : u.key # w.key => u \in sent'
  BY <1>1
<1>12. w.num \in 1..made /\ w.num < MAX_SAFE_INTEGER /\ w.num # MAX_SAFE_INTEGER
  BY <1>2, MaxAssumption DEF WritingInv, WritesInv, ChainInv
<1>13. DocsInv'
  <2>1. \A d \in docs' : /\ d.start \in 1..made /\ d.value = d.start
                         /\ d.key \in chain[d.start].changed
                         /\ d.end = MAX_SAFE_INTEGER \/ d.end \in 1..made
    <3>1. SUFFICES ASSUME NEW d \in docs'
                   PROVE  /\ d.start \in 1..made /\ d.value = d.start
                          /\ d.key \in chain[d.start].changed
                          /\ d.end = MAX_SAFE_INTEGER \/ d.end \in 1..made
      OBVIOUS
    <3>2. CASE d \in docs
      BY <3>2 DEF WritingInv, DocsInv
    <3>3. CASE /\ d.key = w.key /\ d.end = w.num
               /\ \E e \in docs : e.key = w.key /\ d.start = e.start /\ d.value = e.value
      BY <1>12, <3>3 DEF WritingInv, DocsInv
    <3> QED
      BY <1>9, <3>2, <3>3
  <2>2. ASSUME NEW c \in docs', NEW d \in docs', c.key = d.key
        PROVE  /\ (c.end # MAX_SAFE_INTEGER /\ d.end # MAX_SAFE_INTEGER) => c.end = d.end
               /\ (c.end = MAX_SAFE_INTEGER /\ d.end # MAX_SAFE_INTEGER) => d.end = c.start
               /\ (c.end = MAX_SAFE_INTEGER /\ d.end = MAX_SAFE_INTEGER) => d.start = c.start
    <3>1. CASE c.key = w.key
      BY <1>9, <1>12, <2>2, <3>1
    <3>2. CASE c.key # w.key
      <4>1. c \in docs /\ d \in docs
        BY <1>9, <2>2, <3>2
      <4> QED
        BY <2>2, <4>1 DEF WritingInv, DocsInv
    <3> QED
      BY <3>1, <3>2
  <2>3. \A u \in sent', d \in docs' : (u.step = "insert" /\ d.key = u.key) => d.end = u.num
    BY <1>3, <1>9, <1>10 DEF WritingInv, DocsInv
  <2> QED
    BY <1>1, <2>1, <2>2, <2>3 DEF DocsInv
<1>14. Position' = Position
  BY <1>1 DEF Position
<1>15. \A k, n : Stored(k, n) => Stored(k, n)'
  BY <1>5, <1>7 DEF Stored
<1>16. ASSUME NEW k, k # w.key
       PROVE  /\ Turned(k)' <=> Turned(k)
              /\ \A n : InForce(k, n) => InForce(k, n)'
              /\ (\E u \in sent : u.key = k /\ u.step = "insert")
                   => \E u \in sent' : u.key = k /\ u.step = "insert"
  <2>1. \A u : (u \in sent' /\ u.key = k) <=> (u \in sent /\ u.key = k)
    BY <1>3, <1>10, <1>11, <1>16
  <2>2. Turned(k)' <=> Turned(k)
    BY <1>1, <2>1 DEF Turned, Running
  <2>3. \A n : InForce(k, n) => InForce(k, n)'
    BY <1>7, <1>16 DEF InForce
  <2> QED
    BY <2>1, <2>2, <2>3
<1>17. ProgressInv'
  <2>1. SUFFICES ASSUME failed' # "now" PROVE ProgressInv'
    BY DEF ProgressInv
  <2>2. ASSUME NEW k \in Keys, NEW n \in 1..Position, LastChange(k, Position, n)
        PROVE  Stored(k, n)' /\ (InForce(k, n)' \/ Turned(k)')
    <3>1. Stored(k, n)' /\ (InForce(k, n) \/ Turned(k))
      BY <1>1, <1>15, <2>1, <2>2 DEF WritingInv, ProgressInv
    <3>2. CASE k # w.key
      BY <1>16, <3>1, <3>2
    <3>3. CASE k = w.key
      <4>1. Running /\ k \in job.event.changed /\ ~ (job.phase = "waiting" /\ k \in Pages)
        BY <1>1, <2>1, <3>3, WriteRuns DEF WritingInv
      <4>2. \A u \in sent' : u.key = k => u.step = "insert"
        BY <1>3, <1>10, <3>3
      <4>3. Turned(k)'
        BY <1>1, <4>1, <4>2 DEF Turned, Running
      <4> QED
        BY <3>1, <4>3
    <3> QED
      BY <3>2, <3>3
  <2>3. ASSUME NEW k \in Keys, Turned(k)'
        PROVE  InForce(k, job.event.num)' \/ (\E u \in sent' : u.key = k /\ u.step = "insert")
    <3>1. CASE k = w.key
      BY <1>3, <1>11, <3>1
    <3>2. CASE k # w.key
      <4>1. InForce(k, job.event.num) \/ (\E u \in sent : u.key = k /\ u.step = "insert")
        BY <1>1, <1>16, <2>1, <2>3, <3>2 DEF WritingInv, ProgressInv
      <4>2. InForce(k, job.event.num) => InForce(k, job.event.num)'
        BY <1>1, <1>7, <3>2 DEF InForce
      <4> QED
        BY <1>16, <3>2, <4>1, <4>2
    <3> QED
      BY <3>1, <3>2
  <2>4. \A k, n : LastChange(k, Position, n)' => LastChange(k, Position, n)
    BY <1>1, <1>14 DEF LastChange
  <2> QED
    BY <1>14, <2>2, <2>3, <2>4 DEF ProgressInv
<1>18. ConvertedInv'
  <2>1. SUFFICES ASSUME failed' = "no" PROVE ConvertedInv'
    BY DEF ConvertedInv
  <2>2. failed = "no"
    BY <1>1, <2>1
  <2>3. \A d \in docs' : d.converted
    BY <1>6, <1>8, <2>2 DEF WritingInv, ConvertedInv
  <2>4. v.converted
    BY <1>1, <1>4, <2>2 DEF WritingInv, ConvertedInv
  <2>5. \A u \in sent' : u.step # "lookup" => u.converted
    BY <1>10, <2>2, <2>4 DEF WritingInv, ConvertedInv
  <2>6. ASSUME NEW u \in sent', u.step = "lookup"
        PROVE  Current(PropertyOf[u.key])' # {}
    <3>1. u \in sent /\ u.key \in Pages
      BY <1>3, <1>10, <2>6 DEF WritingInv, WritesInv
    <3>2. w.key \in Pages
      BY <3>1 DEF WritingInv, WritesInv
    <3>3. PropertyOf[u.key] # w.key
      BY <3>1, <3>2, KeysAssumption
    <3>4. PICK d \in docs : d.key = PropertyOf[u.key] /\ d.end = MAX_SAFE_INTEGER
      BY <2>2, <2>6, <3>1 DEF WritingInv, ConvertedInv, Current
    <3>5. d \in docs'
      BY <1>7, <3>3, <3>4
    <3> QED
      BY <3>4, <3>5 DEF Current
  <2> QED
    BY <2>3, <2>5, <2>6 DEF ConvertedInv
<1> QED
  BY <1>10, <1>13, <1>17, <1>18 DEF WritingInv

(* A write inserts its document.                                           *)
LEMMA InsertKeeps ==
  ASSUME TypeInv, ChainInv, WritingInv, NEW w \in sent, InsertDoc(w)
  PROVE  WritingInv'
<1> DEFINE new == [key |-> w.key, value |-> w.id, start |-> w.num,
                   end |-> MAX_SAFE_INTEGER, converted |-> w.converted]
<1>1. /\ w.step = "insert" /\ sent' = sent \ {w} /\ docs' = docs \cup {new}
      /\ UNCHANGED <<chain, made, delivered, queue, job, blocks, failed>>
  BY DEF InsertDoc, validator
<1>2. /\ new.key = w.key /\ new.value = w.id /\ new.start = w.num
      /\ new.end = MAX_SAFE_INTEGER
  OBVIOUS
<1>3. new.converted = w.converted
  OBVIOUS
<1> HIDE DEF new
<1>4. WritesInv' /\ \A u \in sent' : u \in sent /\ u.key # w.key
  BY <1>1, WriteEnds DEF WritingInv, validator
<1>5. /\ w.num \in 1..made /\ w.id = w.num /\ w.key \in chain[w.num].changed
      /\ w.num < MAX_SAFE_INTEGER /\ w.num # MAX_SAFE_INTEGER
  BY MaxAssumption DEF WritingInv, WritesInv, ChainInv, TypeInv, TypeOK
<1>6. \A d \in docs : d.key = w.key => d.end = w.num
  BY <1>1 DEF WritingInv, DocsInv
<1>7. DocsInv'
  <2>1. \A d \in docs' : /\ d.start \in 1..made /\ d.value = d.start
                         /\ d.key \in chain[d.start].changed
                         /\ d.end = MAX_SAFE_INTEGER \/ d.end \in 1..made
    BY <1>1, <1>2, <1>5 DEF WritingInv, DocsInv
  <2>2. ASSUME NEW c \in docs', NEW d \in docs', c.key = d.key
        PROVE  /\ (c.end # MAX_SAFE_INTEGER /\ d.end # MAX_SAFE_INTEGER) => c.end = d.end
               /\ (c.end = MAX_SAFE_INTEGER /\ d.end # MAX_SAFE_INTEGER) => d.end = c.start
               /\ (c.end = MAX_SAFE_INTEGER /\ d.end = MAX_SAFE_INTEGER) => d.start = c.start
    <3>1. CASE c \in docs /\ d \in docs
      BY <2>2, <3>1 DEF WritingInv, DocsInv
    <3>2. CASE c = new \/ d = new
      BY <1>1, <1>2, <1>5, <1>6, <2>2, <3>2
    <3> QED
      BY <1>1, <3>1, <3>2
  <2>3. \A u \in sent', d \in docs' : (u.step = "insert" /\ d.key = u.key) => d.end = u.num
    BY <1>1, <1>2, <1>4 DEF WritingInv, DocsInv
  <2> QED
    BY <1>1, <2>1, <2>2, <2>3 DEF DocsInv
<1>8. Position' = Position
  BY <1>1 DEF Position
<1>9. /\ \A k, n : Stored(k, n) => Stored(k, n)'
      /\ \A k, n : InForce(k, n) => InForce(k, n)'
      /\ InForce(w.key, w.num)'
  BY <1>1, <1>2 DEF Stored, InForce
<1>10. \A k : Turned(k) => Turned(k)'
  BY <1>1 DEF Turned, Running
<1>11. ProgressInv'
  <2>1. SUFFICES ASSUME failed' # "now" PROVE ProgressInv'
    BY DEF ProgressInv
  <2>2. ASSUME NEW k \in Keys, NEW n \in 1..Position, LastChange(k, Position, n)
        PROVE  Stored(k, n)' /\ (InForce(k, n)' \/ Turned(k)')
    BY <1>1, <1>9, <1>10, <2>1, <2>2 DEF WritingInv, ProgressInv
  <2>3. ASSUME NEW k \in Keys, Turned(k)'
        PROVE  InForce(k, job.event.num)' \/ (\E u \in sent' : u.key = k /\ u.step = "insert")
    <3>1. CASE k = w.key
      <4>1. Running
        BY <1>1, <2>3 DEF Turned, Running
      <4>2. w.num = job'.event.num
        BY <1>1, <4>1 DEF WritingInv, WritesInv
      <4> QED
        BY <1>1, <1>2, <3>1, <4>2 DEF InForce
    <3>2. CASE k # w.key
      <4>1. \A u : (u \in sent' /\ u.key = k) <=> (u \in sent /\ u.key = k)
        BY <1>1, <3>2
      <4>2. Turned(k)
        BY <1>1, <2>3, <4>1 DEF Turned, Running
      <4>3. InForce(k, job.event.num) \/ (\E u \in sent : u.key = k /\ u.step = "insert")
        BY <1>1, <2>1, <4>2 DEF WritingInv, ProgressInv
      <4>4. InForce(k, job.event.num) => InForce(k, job.event.num)'
        BY <1>1 DEF InForce
      <4> QED
        BY <4>1, <4>3, <4>4
    <3> QED
      BY <3>1, <3>2
  <2>4. \A k, n : LastChange(k, Position, n)' => LastChange(k, Position, n)
    BY <1>1, <1>8 DEF LastChange
  <2> QED
    BY <1>8, <2>2, <2>3, <2>4 DEF ProgressInv
<1>12. ConvertedInv'
  <2>1. SUFFICES ASSUME failed' = "no" PROVE ConvertedInv'
    BY DEF ConvertedInv
  <2>2. failed = "no"
    BY <1>1, <2>1
  <2>3. w.converted
    BY <1>1, <2>2 DEF WritingInv, ConvertedInv
  <2>4. new.converted
    BY <1>3, <2>3
  <2>5. \A d \in docs' : d.converted
    BY <1>1, <2>2, <2>4 DEF WritingInv, ConvertedInv
  <2> QED
    BY <1>1, <1>4, <2>2, <2>5 DEF WritingInv, ConvertedInv, Current
<1> QED
  BY <1>4, <1>7, <1>11, <1>12 DEF WritingInv

-----------------------------------------------------------------------------
(* The steps of the queue, when the writes before are carried out: a step  *)
(* that goes ahead of them sets `overtaken`, and nothing is claimed then.  *)

LEMMA InForceIsCurrent ==
  ASSUME NEW k, NEW n, InForce(k, n)
  PROVE  Current(k) # {}
BY DEF InForce, Current

LEMMA SendPagesKeeps ==
  ASSUME TypeInv, ChainInv, WritingInv, SendPages, sent = {}
  PROVE  WritingInv' /\ ChainInv'
<1> DEFINE event == job.event
<1>1. /\ job.phase = "waiting" /\ sent' = Writes(event, Pages)
      /\ UNCHANGED <<validator, queue, docs, blocks, failed>>
      /\ UNCHANGED <<chain, made, delivered>>
  BY DEF SendPages, database, validator
<1>2. job'.phase = "inserting" /\ job'.event = event
  BY DEF SendPages, TypeInv, TypeOK, Job
<1>3. /\ event.num \in 1..made /\ event.changed = chain[event.num].changed
      /\ Position = event.num - 1 /\ made \in Nat /\ OfChain(event)
  BY <1>1, RunningBlock DEF ChainInv
<1> HIDE DEF event
<1>4. ChainInv' /\ Position' = Position
  BY <1>1, <1>2, SameChain DEF event
<1>5. Pages \in SUBSET Keys
  BY KeysAssumption
<1>6. /\ \A w \in sent' :
            /\ w.num = event.num /\ w.id = event.num /\ w.key \in Pages \cap event.changed
            /\ w.step # "insert"
            /\ w.step = "lookup" => w.key \in Pages
            /\ w.key \notin Pages => w.converted
            /\ w.step # "lookup" => w.converted
      /\ \A v, w \in sent' : v.key = w.key => v = w
      /\ \A k \in Pages \cap event.changed : \E w \in sent' : w.key = k
  BY <1>1, <1>3, <1>5, FreshWrites
<1>7. WritesInv'
  <2>1. ASSUME NEW w \in sent'
        PROVE  /\ w.num \in 1..made' /\ w.id = w.num /\ w.key \in chain'[w.num].changed
               /\ w.step = "lookup" => w.key \in Pages
               /\ w.num = job'.event.num /\ w.key \in Pages
    <3>1. w.num = event.num /\ w.id = event.num /\ w.key \in Pages \cap event.changed
      BY <1>6
    <3> QED
      BY <1>1, <1>2, <1>3, <3>1
  <2>2. \A v, w \in sent' : v.key = w.key => v = w
    BY <1>6
  <2> QED
    BY <1>2, <2>1, <2>2 DEF WritesInv
<1>8. \A w \in sent' : w.step # "insert"
  BY <1>6
<1>9. DocsInv'
  BY <1>1, <1>8 DEF WritingInv, DocsInv
<1>10. ASSUME NEW k
       PROVE  Turned(k)' <=> Turned(k)
  <2>1. CASE k \in Pages
    <3>1. ~ Turned(k)
      BY <1>1, <2>1 DEF Turned
    <3>2. CASE k \in event.changed
      <4>1. PICK w \in sent' : w.key = k
        BY <1>6, <2>1, <3>2
      <4>2. w.step # "insert"
        BY <1>8
      <4> QED
        BY <3>1, <4>1, <4>2 DEF Turned
    <3>3. CASE k \notin event.changed
      BY <1>2, <3>1, <3>3 DEF Turned
    <3> QED
      BY <3>2, <3>3
  <2>2. CASE k \notin Pages
    <3>1. \A w \in sent' : w.key \in Pages
      BY <1>6
    <3> QED
      BY <1>1, <1>2, <2>2, <3>1 DEF Turned, Running, event
  <2> QED
    BY <2>1, <2>2
<1>11. ProgressInv'
  BY <1>1, <1>2, <1>4, <1>10 DEF WritingInv, ProgressInv, LastChange, Stored, InForce, event
<1>12. ConvertedInv'
  <2>1. SUFFICES ASSUME failed' = "no" PROVE ConvertedInv'
    BY DEF ConvertedInv
  <2>2. failed = "no" /\ failed # "now"
    BY <1>1, <2>1
  <2>3. ASSUME NEW w \in sent', w.step = "lookup"
        PROVE  Current(PropertyOf[w.key]) # {}
    <3> DEFINE k == PropertyOf[w.key]
    <3>1. w.key \in Pages \cap event.changed
      BY <1>6, <2>3
    <3>2. k \in Keys /\ k \notin Pages
      BY <3>1, KeysAssumption
    <3>3. PICK m \in 1..event.num : k \in chain[m].changed
      BY <1>3, <3>1 DEF ChainInv
    <3> HIDE DEF k
    <3>4. CASE k \in event.changed
      <4>1. Turned(k)
        BY <1>1, <3>2, <3>4 DEF Turned, Running, event
      <4>2. InForce(k, job.event.num)
        BY <2>2, <3>2, <4>1 DEF WritingInv, ProgressInv
      <4> QED
        BY <4>2, InForceIsCurrent DEF k
    <3>5. CASE k \notin event.changed
      <4>1. m # event.num /\ Position \in Nat
        BY <1>3, <3>3, <3>5
      <4>2. m \in 1..Position
        BY <1>3, <3>3, <4>1
      <4>3. PICK n \in 1..Position : LastChange(k, Position, n)
        BY <3>3, <4>1, <4>2, LastChangeExists
      <4>4. ~ Turned(k)
        BY <3>5 DEF Turned, event
      <4>5. InForce(k, n)
        BY <2>2, <3>2, <4>3, <4>4 DEF WritingInv, ProgressInv
      <4> QED
        BY <4>5, InForceIsCurrent DEF k
    <3> QED
      BY <3>4, <3>5
  <2>4. \A w \in sent' : w.step # "lookup" => w.converted
    BY <1>6
  <2>5. \A d \in docs' : d.converted
    BY <1>1, <2>2 DEF WritingInv, ConvertedInv
  <2>6. \A w \in sent' : w.step = "lookup" => Current(PropertyOf[w.key])' # {}
    BY <1>1, <2>3 DEF Current
  <2> QED
    BY <2>4, <2>5, <2>6 DEF ConvertedInv
<1> QED
  BY <1>4, <1>7, <1>9, <1>11, <1>12 DEF WritingInv

LEMMA EventStored ==
  ASSUME TypeInv, ChainInv, WritingInv, job.phase = "inserting", sent = {}
  PROVE  Prepared(job.event.num)
<1> DEFINE num == job.event.num
<1>1. /\ num \in 1..made /\ job.event.changed = chain[num].changed
      /\ Position = num - 1 /\ made \in Nat
  BY RunningBlock
<1>2. SUFFICES ASSUME failed # "now", NEW k \in Keys, NEW n \in 1..num, LastChange(k, num, n)
               PROVE  InForce(k, n)
  BY DEF Prepared, Stored, InForce
<1>3. k \in chain[n].changed /\ \A m \in n + 1..num : k \notin chain[m].changed
  BY <1>2 DEF LastChange
<1>4. CASE n = num
  <2>1. Turned(k)
    BY <1>1, <1>3, <1>4 DEF Turned, Running
  <2> QED
    BY <1>2, <1>4, <2>1 DEF WritingInv, ProgressInv
<1>5. CASE n # num
  <2>1. num \in n + 1..num /\ n \in 1..Position /\ \A m \in n + 1..Position : m \in n + 1..num
    BY <1>1, <1>2, <1>5
  <2>2. LastChange(k, Position, n)
    BY <1>3, <2>1 DEF LastChange
  <2>3. ~ Turned(k)
    BY <1>1, <1>3, <2>1 DEF Turned
  <2> QED
    BY <1>2, <2>1, <2>2, <2>3 DEF WritingInv, ProgressInv
<1> QED
  BY <1>4, <1>5

LEMMA InsertBlockKeeps ==
  ASSUME TypeInv, ChainInv, WritingInv, InsertBlock, sent = {}
  PROVE  WritingInv' /\ ChainInv'
<1> DEFINE num == job.event.num
<1>1. /\ RunNext /\ ChainInv' /\ Position' = num
      /\ UNCHANGED <<validator, docs, failed>> /\ UNCHANGED <<chain, made, delivered>>
      /\ job.phase = "inserting"
  BY InsertBlockGoes DEF InsertBlock, validator
<1>2. Prepared(num)
  BY <1>1, EventStored
<1>3. CASE queue = <<>> /\ job' = Idle /\ queue' = <<>> /\ sent' = sent
  <2>1. sent' = {} /\ job'.phase = "idle"
    BY <1>3 DEF Idle
  <2>2. WritesInv'
    BY <2>1 DEF WritesInv, Running
  <2>3. DocsInv'
    BY <1>1, <2>1 DEF WritingInv, DocsInv
  <2>4. ProgressInv'
    <3>1. \A k : ~ Turned(k)'
      BY <2>1 DEF Turned, Running
    <3> HIDE DEF num
    <3> QED
      BY <1>1, <1>2, <3>1 DEF ProgressInv, Prepared, LastChange, Stored, InForce
  <2>5. ConvertedInv'
    BY <1>1, <2>1 DEF WritingInv, ConvertedInv
  <2> QED
    BY <1>1, <2>2, <2>3, <2>4, <2>5 DEF WritingInv
<1>4. CASE /\ Len(queue) >= 1 /\ job'.phase = "waiting" /\ job'.event = queue[1]
           /\ sent' = sent \cup Writes(queue[1], Keys \ Pages)
  <2> DEFINE event == queue[1]
  <2>1. Len(queue) \in Nat /\ 1 \in 1..Len(queue) /\ num \in Nat
    BY <1>1, <1>4, RunningBlock DEF TypeInv, TypeOK
  <2>2. OfChain(event) /\ event.num = num + 1
    BY <1>1, <2>1 DEF ChainInv
  <2>3. event.num - 1 = num
    BY <2>1, <2>2
  <2>4. job'.phase = "waiting" /\ job'.event = event /\ sent' = Writes(event, Keys \ Pages)
    BY <1>4
  <2> HIDE DEF event, num
  <2>5. Prepared(event.num - 1)
    BY <1>2, <2>3
  <2>6. WritingInv'
    BY <1>1, <2>2, <2>4, <2>5, StartWrites
  <2> QED
    BY <1>1, <2>6
<1> QED
  BY <1>1, <1>3, <1>4, RunNextGoes

LEMMA DeliverKeeps ==
  ASSUME TypeInv, ChainInv, WritingInv, Deliver, job.phase = "idle" => sent = {}
  PROVE  WritingInv' /\ ChainInv'
<1>1. /\ delivered < Len(chain) /\ delivered' = delivered + 1 /\ delivered \in Nat
      /\ UNCHANGED <<chain, made, docs, blocks, failed>>
  BY DEF Deliver, TypeInv, TypeOK
<1>2. ChainInv' /\ Position' = Position
  BY DeliverKeepsChain
<1>3. CASE job.phase = "idle" /\ Start(Coming) /\ UNCHANGED queue
  <2>1. delivered + 1 \in 1..made /\ OfChain(Coming) /\ Coming.num = delivered + 1
    BY <1>1 DEF ChainInv, Coming, OfChain
  <2> HIDE DEF Coming
  <2>2. Coming.num - 1 = Position
    BY <1>1, <1>3, <2>1 DEF Position
  <2>3. \A k : ~ Turned(k)
    BY <1>3 DEF Turned, Running
  <2>4. Prepared(Coming.num - 1)
    BY <2>2, <2>3 DEF Prepared, WritingInv, ProgressInv
  <2>5. /\ sent = {} /\ job'.phase = "waiting" /\ job'.event = Coming
        /\ sent' = Writes(Coming, Keys \ Pages)
    BY <1>3 DEF Start
  <2>6. WritingInv'
    BY <1>1, <2>1, <2>4, <2>5, StartWrites
  <2> QED
    BY <1>2, <2>6
<1>4. CASE job.phase # "idle" /\ queue' = Append(queue, Coming) /\ UNCHANGED <<job, sent>>
  BY <1>1, <1>2, <1>4, ChainGrows
<1> QED
  BY <1>1, <1>3, <1>4 DEF Deliver, Coming

LEMMA CarryOutKeeps ==
  ASSUME TypeInv, ChainInv, WritingInv, CarryOut
  PROVE  WritingInv' /\ ChainInv'
<1>1. PICK w \in sent : LookUpProperty(w) \/ EndOldDocs(w) \/ InsertDoc(w)
  BY DEF CarryOut
<1>2. UNCHANGED <<validator, queue, job, blocks, failed>>
  <2>1. LookUpProperty(w) => UNCHANGED <<validator, queue, job, blocks, failed>>
    BY Zenon DEF LookUpProperty, database
  <2>2. EndOldDocs(w) => UNCHANGED <<validator, queue, job, blocks, failed>>
    BY DEF EndOldDocs
  <2>3. InsertDoc(w) => UNCHANGED <<validator, queue, job, blocks, failed>>
    BY DEF InsertDoc
  <2> QED
    BY <1>1, <2>1, <2>2, <2>3
<1>3. ChainInv'
  BY <1>2, SameChain DEF ChainInv
<1>4. CASE EndOldDocs(w)
  <2>1. CASE \E c \in Current(w.key) : c.start = w.num
    BY <1>3, <1>4, <2>1, DropKeeps
  <2>2. CASE \A c \in Current(w.key) : c.start # w.num
    BY <1>3, <1>4, <2>2, EndKeeps
  <2> QED
    BY <1>3, <2>1, <2>2
<1> QED
  BY <1>1, <1>3, <1>4, LookUpKeeps, InsertKeeps

LEMMA FailKeeps ==
  ASSUME TypeInv, ChainInv, WritingInv, Fail
  PROVE  WritingInv' /\ ChainInv'
<1>1. CASE BlockQueryFails
  <2>1. /\ job.phase # "idle" /\ failed' = "now" /\ UNCHANGED <<validator, queue, sent, docs, blocks>>
        /\ UNCHANGED <<chain, made, delivered>>
    BY <1>1 DEF BlockQueryFails, database, validator
  <2>2. job'.phase = "stuck" /\ job'.event = job.event
    BY <1>1 DEF BlockQueryFails, TypeInv, TypeOK, Job
  <2>3. ChainInv'
    BY <2>1, <2>2, SameChain
  <2> QED
    BY <2>1, <2>2, <2>3, WritesLost
<1>2. CASE \E w \in sent : WriteFails(w)
  <2>1. PICK w \in sent : WriteFails(w)
    BY <1>2
  <2>2. /\ sent' \subseteq sent /\ failed' = "now"
        /\ UNCHANGED <<validator, queue, job, docs, blocks>> /\ UNCHANGED <<chain, made, delivered>>
    BY <2>1 DEF WriteFails, database, validator
  <2>3. ChainInv'
    BY <2>2, SameChain DEF ChainInv
  <2> QED
    BY <2>2, <2>3, WritesLost
<1> QED
  BY <1>1, <1>2 DEF Fail

LEMMA RestartKeeps ==
  ASSUME TypeInv, ChainInv, WritingInv, Restart
  PROVE  WritingInv' /\ ChainInv'
<1>1. /\ sent' \subseteq sent /\ job'.phase = "idle" /\ delivered' = 0
      /\ UNCHANGED <<chain, made, docs>> /\ (failed' = "no" => failed = "no")
  BY DEF Restart, Idle, database
<1> QED
  BY <1>1, RestartKeepsChain, WritesLost

LEMMA GrowKeeps ==
  ASSUME TypeInv, ChainInv, WritingInv, made + 1 < MAX_SAFE_INTEGER, Grow
  PROVE  WritingInv' /\ ChainInv'
<1>1. /\ ChainInv' /\ Position' = Position /\ made' = made + 1
      /\ \A n \in 1..made : chain'[n] = chain[n]
      /\ UNCHANGED <<delivered, queue, job, sent, docs, blocks, failed>>
  BY GrowKeepsChain
<1> QED
  BY <1>1, ChainGrows

LEMMA OneChainStep ==
  ASSUME ~overtaken', OneChainInv, [OneChainNext]_vars
  PROVE  OneChainInv'
<1>1. [Next]_vars
  BY DEF OneChainNext, Next
<1>2. TypeInv /\ TypeInv' /\ FollowInv'
  BY <1>1, NextTyped, NextFollows DEF OneChainInv
<1>3. ChainInv /\ WritingInv /\ (GoOn => sent = {})
  BY DEF OneChainInv, WritingInv, GoOn
<1>4. job.phase \notin {"replacing", "removing"}
  BY <1>3 DEF ChainInv
<1>5. WritingInv' /\ ChainInv'
  <2>1. CASE UNCHANGED vars
    <3>1. UNCHANGED <<chain, made, delivered, queue, job, sent, docs, blocks, failed>>
      BY <2>1 DEF vars
    <3>2. ChainInv' /\ Position' = Position
      BY <3>1, <1>2, <1>3, SameChain DEF validator, ChainInv
    <3> QED
      BY <1>2, <1>3, <3>1, <3>2, ChainGrows
  <2>2. CASE Deliver
    BY <1>2, <1>3, <2>2, DeliverKeeps DEF Deliver
  <2>3. CASE SendPages
    BY <1>2, <1>3, <2>3, SendPagesKeeps DEF SendPages
  <2>4. CASE InsertBlock
    BY <1>2, <1>3, <2>4, InsertBlockKeeps DEF InsertBlock
  <2>5. CASE ReplaceBlocks \/ Resolve \/ ForkResolved
    BY <1>4, <2>5 DEF ReplaceBlocks, Resolve, RemoveForkedDocs, ForkResolved
  <2> QED
    BY <1>2, <1>3, <2>1, <2>2, <2>3, <2>4, <2>5, CarryOutKeeps, FailKeeps, RestartKeeps, GrowKeeps
    DEF OneChainNext, Sync
<1> QED
  BY <1>2, <1>5 DEF OneChainInv, WritingInv

LEMMA InitOneChain == Init => OneChainInv
<1> SUFFICES ASSUME Init PROVE OneChainInv
  OBVIOUS
<1>1. TypeInv /\ FollowInv
  BY InitTyped, InitFollows
<1>2. /\ chain = <<>> /\ made = 0 /\ delivered = 0 /\ queue = <<>> /\ job.phase = "idle"
      /\ sent = {} /\ docs = {} /\ DOMAIN blocks = {} /\ failed = "no"
  BY DEF Init, Idle
<1>3. Position = 0 /\ \A k : ~ Turned(k)
  BY <1>2 DEF Position, Turned, Running
<1>4. ChainInv
  BY <1>2, <1>3 DEF ChainInv
<1>5. WritesInv /\ DocsInv /\ ConvertedInv
  BY <1>2 DEF WritesInv, DocsInv, ConvertedInv
<1>6. ProgressInv
  BY <1>3 DEF ProgressInv
<1> QED
  BY <1>1, <1>4, <1>5, <1>6 DEF OneChainInv

LEMMA OneChainInvariant == OneChainSpec => [](overtaken \/ OneChainInv)
<1>1. (overtaken \/ OneChainInv) /\ [OneChainNext]_vars => (overtaken \/ OneChainInv)'
  <2>1. [OneChainNext]_vars => [Next]_vars
    BY DEF OneChainNext, Next
  <2> QED
    BY <2>1, OneChainStep, OvertakenStays
<1> QED
  BY <1>1, InitOneChain, PTL DEF OneChainSpec

-----------------------------------------------------------------------------
(* What a reader finds. *)

LEMMA CurrentBlockIs ==
  ASSUME TypeInv, ChainInv, DOMAIN blocks # {}
  PROVE  CurrentBlock \in 1..made /\ CurrentBlock \in DOMAIN blocks
         /\ \A n \in DOMAIN blocks : n <= CurrentBlock
<1>1. made \in Nat /\ DOMAIN blocks \in SUBSET (1..made)
  BY DEF TypeInv, TypeOK, ChainInv
<1>2. \E n \in DOMAIN blocks : \A m \in DOMAIN blocks : m <= n
  BY <1>1, LargestNumber
<1>3. CurrentBlock \in DOMAIN blocks /\ \A n \in DOMAIN blocks : n <= CurrentBlock
  BY <1>2 DEF CurrentBlock
<1> QED
  BY <1>1, <1>3

LEMMA ValueAtIs ==
  ASSUME TypeInv, ChainInv, NEW k, NEW p \in 0..made
  PROVE  /\ \A n : LastChange(k, p, n) => ValueAt(k, p) = {n}
         /\ (\A m \in 1..p : k \notin chain[m].changed) => ValueAt(k, p) = {}
<1> DEFINE changes == {n \in DOMAIN chain : n <= p /\ k \in chain[n].changed}
<1>1. DOMAIN chain = 1..made /\ made \in Nat /\ \A m \in 1..made : chain[m].id = m
  BY DEF TypeInv, TypeOK, ChainInv
<1>2. \A m : m \in changes <=> m \in 1..p /\ k \in chain[m].changed
  BY <1>1
<1>3. ValueAt(k, p) = {chain[n].id : n \in {m \in changes : \A l \in changes : l <= m}}
  BY DEF ValueAt
<1> HIDE DEF changes
<1>4. ASSUME NEW n, LastChange(k, p, n)
      PROVE  ValueAt(k, p) = {n}
  <2>1. n \in 1..p /\ n \in changes /\ chain[n].id = n
    BY <1>1, <1>2, <1>4 DEF LastChange
  <2>2. ASSUME NEW l \in changes
        PROVE  l <= n
    <3>1. l \in 1..p /\ ~ (l \in n + 1..p)
      BY <1>2, <1>4 DEF LastChange
    <3> QED
      BY <2>1, <3>1
  <2>3. \A m \in changes : (\A l \in changes : l <= m) => m = n
    <3>1. SUFFICES ASSUME NEW m \in changes, \A l \in changes : l <= m
                   PROVE  m = n
      OBVIOUS
    <3>2. m \in 1..p /\ m <= n /\ n <= m
      BY <1>2, <2>1, <2>2, <3>1
    <3> QED
      BY <2>1, <3>2
  <2>4. {m \in changes : \A l \in changes : l <= m} = {n}
    BY <2>1, <2>2, <2>3
  <2> QED
    BY <1>3, <2>1, <2>4
<1>5. (\A m \in 1..p : k \notin chain[m].changed) => ValueAt(k, p) = {}
  BY <1>2, <1>3
<1> QED
  BY <1>4, <1>5

(* The documents of a key that a reader finds.                             *)
LEMMA ViewIs ==
  ASSUME TypeInv, ChainInv, DocsInv, DOMAIN blocks # {}, NEW k
  PROVE  \A v : v \in View(k) <=>
           \E d \in docs : /\ d.key = k /\ d.start = v /\ v \in 1..CurrentBlock
                          /\ k \in chain[v].changed /\ CurrentBlock < d.end
<1>1. CurrentBlock \in 1..made /\ made \in Nat
  BY CurrentBlockIs DEF TypeInv, TypeOK
<1>2. \A d \in docs : d.value = d.start /\ d.start \in 1..made /\ d.key \in chain[d.start].changed
  BY DEF DocsInv
<1>3. View(k) = {d.value : d \in {e \in docs : e.key = k /\ e.start <= CurrentBlock
                                                /\ CurrentBlock < e.end}}
  BY DEF View
<1>4. \A d \in docs : (d.start <= CurrentBlock) <=> (d.start \in 1..CurrentBlock)
  BY <1>1, <1>2
<1> QED
  BY <1>2, <1>3, <1>4

LEMMA OneChainReaders ==
  ASSUME OneChainInv
  PROVE  ReadersCurrent
<1>1. SUFFICES ASSUME DOMAIN blocks # {}, Position >= CurrentBlock, failed # "now", NEW k \in Keys
               PROVE  /\ ValueAt(k, CurrentBlock) \subseteq View(k)
                      /\ \A v \in View(k) : \E w \in ValueAt(k, CurrentBlock) : v <= w
  BY DEF ReadersCurrent, Unharmed
<1> DEFINE c == CurrentBlock
<1>2. /\ TypeInv /\ ChainInv /\ DocsInv /\ ProgressInv /\ WritesInv
      /\ made \in Nat /\ MAX_SAFE_INTEGER \in Nat
  BY MaxAssumption DEF OneChainInv, TypeInv, TypeOK
<1>3. c \in 1..made /\ c \in DOMAIN blocks /\ \A n \in DOMAIN blocks : n <= c
  BY <1>1, <1>2, CurrentBlockIs
<1>4. \A v : v \in View(k) <=> \E d \in docs : /\ d.key = k /\ d.start = v /\ v \in 1..c
                                              /\ k \in chain[v].changed /\ c < d.end
  BY <1>1, <1>2, ViewIs
<1>5. /\ \A n : LastChange(k, c, n) => ValueAt(k, c) = {n}
      /\ (\A m \in 1..c : k \notin chain[m].changed) => ValueAt(k, c) = {}
  BY <1>2, <1>3, ValueAtIs
<1>6. Position = c
  <2>1. Position \in Int
    BY <1>2 DEF Position, TypeInv, TypeOK, Job, Event
  <2>2. Position \in 1..Position
    BY <1>1, <1>3, <2>1
  <2>3. Position <= c
    BY <1>2, <1>3, <2>2 DEF ChainInv
  <2> QED
    BY <1>1, <1>3, <2>1, <2>3
<1>7. c < MAX_SAFE_INTEGER
  BY <1>2, <1>3 DEF ChainInv
<1> HIDE DEF c
<1>8. CASE \A m \in 1..c : k \notin chain[m].changed
  <2>1. View(k) = {}
    BY <1>4, <1>8
  <2> QED
    BY <1>5, <1>8, <2>1 DEF c
<1>9. CASE \E m \in 1..c : k \in chain[m].changed
  <2>1. PICK n \in 1..c : LastChange(k, c, n)
    BY <1>3, <1>9, LastChangeExists
  <2>2. k \in chain[n].changed /\ \A m \in 1..c : k \in chain[m].changed => m <= n
    <3>1. k \in chain[n].changed /\ \A m \in n + 1..c : k \notin chain[m].changed
      BY <2>1 DEF LastChange
    <3>2. \A m \in 1..c : m \in n + 1..c \/ m <= n
      BY <1>3, <2>1
    <3> QED
      BY <3>1, <3>2
  <2>3. Stored(k, n) /\ (InForce(k, n) \/ Turned(k))
    BY <1>1, <1>2, <1>6, <2>1 DEF ProgressInv
  <2>4. \E d \in docs : d.key = k /\ d.start = n /\ c < d.end
    <3>1. CASE InForce(k, n)
      BY <1>7, <3>1 DEF InForce
    <3>2. CASE ~ InForce(k, n)
      <4>1. PICK d \in docs : d.key = k /\ d.start = n
        BY <2>3 DEF Stored
      <4>2. d.end # MAX_SAFE_INTEGER
        BY <3>2, <4>1 DEF InForce
      <4>3. Turned(k) /\ Running /\ job.phase # "idle"
        BY <2>3, <3>2 DEF Turned, Running
      <4>4. job.event.num = c + 1
        <5>1. Position = job.event.num - 1 /\ job.event.num \in 1..made
          BY <1>2, <4>3, RunningBlock
        <5> QED
          BY <1>2, <1>3, <1>6, <5>1
      <4>5. CASE InForce(k, job.event.num)
        <5>1. d.end = job.event.num
          BY <1>2, <4>1, <4>2, <4>5 DEF InForce, DocsInv
        <5> QED
          BY <1>3, <4>1, <4>4, <5>1
      <4>6. CASE \E w \in sent : w.key = k /\ w.step = "insert"
        <5>1. PICK w \in sent : w.key = k /\ w.step = "insert"
          BY <4>6
        <5>2. d.end = w.num /\ w.num = job.event.num
          BY <1>2, <4>1, <4>3, <5>1 DEF DocsInv, WritesInv
        <5> QED
          BY <1>3, <4>1, <4>4, <5>2
      <4> QED
        BY <1>1, <1>2, <4>3, <4>5, <4>6 DEF ProgressInv
    <3> QED
      BY <3>1, <3>2
  <2>5. n \in View(k) /\ \A v \in View(k) : v <= n
    BY <1>4, <2>1, <2>2, <2>4
  <2> QED
    BY <1>5, <2>1, <2>5 DEF c
<1> QED
  BY <1>8, <1>9

LEMMA OneChainRests ==
  ASSUME OneChainInv
  PROVE  SyncedAtRest
<1>1. SUFFICES ASSUME AtRest, failed # "now", NEW k \in Keys
               PROVE  View(k) = ValueAt(k, Len(chain))
  BY DEF SyncedAtRest, Unharmed
<1>2. /\ TypeInv /\ ChainInv /\ DocsInv /\ ProgressInv
      /\ made \in Nat /\ MAX_SAFE_INTEGER \in Nat
  BY MaxAssumption DEF OneChainInv, TypeInv, TypeOK
<1>3. Len(chain) = made /\ delivered = made /\ job.phase = "idle" /\ Position = made
  BY <1>1, <1>2 DEF AtRest, Idle, ChainInv, Position
<1>4. DOMAIN blocks = 1..made
  BY <1>2, <1>3 DEF ChainInv
<1>5. /\ \A n : LastChange(k, made, n) => ValueAt(k, made) = {n}
      /\ (\A m \in 1..made : k \notin chain[m].changed) => ValueAt(k, made) = {}
  BY <1>2, ValueAtIs
<1>6. CASE made = 0
  <2>1. View(k) = {}
    BY <1>4, <1>6 DEF View
  <2> QED
    BY <1>3, <1>5, <1>6, <2>1
<1>7. CASE made # 0
  <2>2. made \in DOMAIN blocks
    BY <1>2, <1>4, <1>7
  <2>1. CurrentBlock = made
    BY <1>2, <1>4, <2>2, CurrentBlockIs
  <2>3. \A v : v \in View(k) <=> \E d \in docs : /\ d.key = k /\ d.start = v /\ v \in 1..made
                                               /\ k \in chain[v].changed /\ made < d.end
    BY <1>2, <2>1, <2>2, ViewIs
  <2>4. CASE \A m \in 1..made : k \notin chain[m].changed
    <3>1. View(k) = {}
      BY <2>3, <2>4
    <3> QED
      BY <1>3, <1>5, <2>4, <3>1
  <2>5. CASE \E m \in 1..made : k \in chain[m].changed
    <3>1. PICK n \in 1..made : LastChange(k, made, n)
      BY <1>2, <2>5, LastChangeExists
    <3>2. ~ Turned(k)
      BY <1>3 DEF Turned, Running
    <3>3. PICK d \in docs : d.key = k /\ d.start = n /\ d.end = MAX_SAFE_INTEGER
      BY <1>1, <1>2, <1>3, <3>1, <3>2 DEF ProgressInv, InForce
    <3>4. \A e \in docs : made < e.end => e.end = MAX_SAFE_INTEGER
      BY <1>2 DEF DocsInv
    <3>5. \A v \in View(k) : v = n
      BY <1>2, <2>3, <3>3, <3>4 DEF DocsInv
    <3>6. k \in chain[n].changed /\ made < MAX_SAFE_INTEGER
      BY <1>2, <1>7, <3>1 DEF LastChange, ChainInv
    <3>7. n \in View(k)
      BY <2>3, <3>1, <3>3, <3>6
    <3>8. View(k) = {n}
      BY <3>5, <3>7
    <3> QED
      BY <1>3, <1>5, <3>1, <3>8
  <2> QED
    BY <2>4, <2>5
<1> QED
  BY <1>6, <1>7

(* Without forks the queue going on ahead of its writes, or a failed       *)
(* query, is the only way for a page to be written while its property      *)
(* cannot be found: for any keys, any chain and restarts at any time.      *)
THEOREM OnlyOvertakenPages == OneChainSpec => [](overtaken \/ PagesConverted)
<1>1. OneChainInv => PagesConverted
  BY DEF OneChainInv, ConvertedInv, PagesConverted
<1> QED
  BY <1>1, OneChainInvariant, PTL

(* Without forks, and unless the queue has gone on ahead of its writes,    *)
(* which nothing in the code prevents, a reader finds exactly the ledger's *)
(* entries when every block has been dealt with and no query has failed    *)
(* since the process was started: whatever failed before, and wherever the *)
(* process stopped.                                                        *)
THEOREM EntriesAtRest == OneChainSpec => []SyncedAtRest
<1>1. overtaken \/ OneChainInv => SyncedAtRest
  BY OneChainRests DEF SyncedAtRest, Unharmed
<1> QED
  BY <1>1, OneChainInvariant, PTL

(* Without forks, and unless the queue has gone on ahead of its writes, a  *)
(* reader finds the version of the current block at any moment, and none   *)
(* of a later one, while the writes of the next block are carried out one  *)
(* by one; versions of earlier blocks he may find beside it.               *)
THEOREM ReadersStayCurrent == OneChainSpec => []ReadersCurrent
<1>1. overtaken \/ OneChainInv => ReadersCurrent
  BY OneChainReaders DEF ReadersCurrent, Unharmed
<1> QED
  BY <1>1, OneChainInvariant, PTL
=============================================================================
