------------------------------ MODULE LedgerSync ------------------------------
(***************************************************************************)
(* The ledger sync (ledger_sync): it subscribes to the validator's block   *)
(* and state-delta events, and writes every entry of the ledger, as a      *)
(* document valid for a range of blocks, to the database the server reads. *)
(* The values of an entry are told apart by the block that wrote them.     *)
(***************************************************************************)
EXTENDS Integers, Sequences, FiniteSets

CONSTANTS
  Keys,               \* natural keys of ledger entries
  Pages,              \* the keys that are property pages
  PropertyOf,         \* page -> the key of its property
  Exchanges,          \* the keys in the exchanges table
  MAX_SAFE_INTEGER    \* the endBlockNum of a document that is in force

ASSUME KeysAssumption ==
  /\ Pages \subseteq Keys /\ Exchanges \subseteq Keys \ Pages
  /\ PropertyOf \in [Pages -> Keys \ (Pages \cup Exchanges)]
ASSUME MaxAssumption == MAX_SAFE_INTEGER \in Nat

VARIABLES
  chain,      \* the validator's chain: the blocks, with the keys each changed
  made,       \* how many blocks were ever made; a block's id
  delivered,  \* how many blocks of the chain the subscription has sent
  queue,      \* deltaQueue._queue: block events waiting
  job,        \* the event the queue is running, and how far it is
  sent,       \* the document writes the database has not carried out yet
  docs,       \* the documents of the state tables
  blocks,     \* the blocks table: blockNum -> blockId
  failed,     \* a query failed "now", since the process was started, "before",
              \* or never: "no"
  overtaken   \* the queue went on while document writes were under way

validator == <<chain, made, delivered>>
database == <<docs, blocks>>
vars == <<chain, made, delivered, queue, job, sent, docs, blocks, failed, overtaken>>

Phases == {"idle", "waiting", "inserting", "replacing", "removing", "stuck"}
Event == [num: Nat, id: Nat, changed: SUBSET Keys]
Job == [phase: Phases, event: Event, left: SUBSET Keys]
Write == [step: {"lookup", "close", "insert"}, key: Keys, num: Nat, id: Nat,
          converted: BOOLEAN]
Doc == [key: Keys, value: Nat, start: Nat, end: Nat, converted: BOOLEAN]

NoEvent == [num |-> 0, id |-> 0, changed |-> {}]
Idle == [phase |-> "idle", event |-> NoEvent, left |-> {}]

(* Every variable holds what the handlers expect of it, and the queue is   *)
(* never idle while events wait in it.                                     *)
TypeOK ==
  /\ chain \in Seq([id: Nat, changed: SUBSET Keys])
  /\ made \in Nat /\ delivered \in 0..Len(chain)
  /\ queue \in Seq(Event) /\ job \in Job
  /\ job.phase = "idle" => job = Idle /\ queue = <<>>
  /\ sent \subseteq Write /\ docs \subseteq Doc
  /\ DOMAIN blocks \subseteq Nat /\ \A n \in DOMAIN blocks : blocks[n] \in 1..made
  /\ failed \in {"no", "before", "now"} /\ overtaken \in BOOLEAN

Init ==
  /\ chain = <<>> /\ made = 0 /\ delivered = 0
  /\ queue = <<>> /\ job = Idle /\ sent = {}
  /\ docs = {} /\ blocks = [n \in {} |-> 0]
  /\ failed = "no" /\ overtaken = FALSE

-----------------------------------------------------------------------------
(* The validator: it extends its chain, or leaves its last blocks for      *)
(* another fork.  A page is written in or after the block of its property. *)

ChangedIn(prefix) == UNION {prefix[n].changed : n \in DOMAIN prefix}

Extend(prefix, changed) ==
  /\ \A k \in Pages \cap changed : PropertyOf[k] \in changed \cup ChangedIn(prefix)
  /\ made' = made + 1
  /\ chain' = Append(prefix, [id |-> made', changed |-> changed])

Commit(changed) ==
  /\ Extend(chain, changed)
  /\ UNCHANGED <<delivered, queue, job, sent, docs, blocks, failed, overtaken>>

SwitchFork(num, changed) ==
  /\ num \in 1..Len(chain)
  /\ Extend(SubSeq(chain, 1, num - 1), changed)
  /\ delivered' = IF delivered < num THEN delivered ELSE num - 1
  /\ UNCHANGED <<queue, job, sent, docs, blocks, failed, overtaken>>

-----------------------------------------------------------------------------
(* The queue of block events (subscriber/deltas.js). *)

\* The addState calls for some of the keys an event changed.
Writes(event, keys) ==
  {[step |-> IF k \in Pages THEN "lookup" ELSE "close", key |-> k,
    num |-> event.num, id |-> event.id, converted |-> k \notin Pages] :
     k \in keys \cap event.changed}

\* current(): everything but pages is sent, then the wait begins.
Start(event) ==
  /\ job' = [phase |-> "waiting", event |-> event, left |-> {}]
  /\ sent' = sent \cup Writes(event, Keys \ Pages)

RunNoNext == \* mutant: the queue is not continued
  job' = Idle /\ UNCHANGED <<queue, sent>>

\* _runNext, once the running event is done.
RunNext ==
  \/ queue = <<>> /\ job' = Idle /\ UNCHANGED <<queue, sent>>
  \/ queue # <<>> /\ Start(Head(queue)) /\ queue' = Tail(queue)

(* stateAdder returns nothing, so that the promises of the writes are not  *)
(* waited for, but for a timeout before the pages: what follows them is    *)
(* begun with the writes carried out or not.                               *)
GoOn == overtaken' = IF sent = {} THEN overtaken ELSE TRUE

(* handleEvent: the next block of the chain arrives, and deltas.handle     *)
(* queues it, or runs it at once.                                          *)
Deliver ==
  /\ delivered < Len(chain)
  /\ delivered' = delivered + 1
  /\ LET event == [num |-> delivered', id |-> chain[delivered'].id,
                   changed |-> chain[delivered'].changed]
     IN  \/ /\ job.phase = "idle"
            /\ Start(event) /\ GoOn
            /\ UNCHANGED queue
         \/ /\ job.phase # "idle"
            /\ queue' = Append(queue, event)
            /\ UNCHANGED <<job, sent, overtaken>>
  /\ UNCHANGED <<chain, made, docs, blocks, failed>>

(* The wait is over, and the block insert follows the pages at once.       *)
SendPages ==
  /\ job.phase = "waiting" /\ GoOn
  /\ sent' = sent \cup Writes(job.event, Pages)
  /\ job' = [job EXCEPT !.phase = "inserting"]
  /\ UNCHANGED <<validator, queue, database, failed>>

-----------------------------------------------------------------------------
(* One document write (db/state.js).  A query is not atomic across         *)
(* documents, and queries in flight are carried out in any order.          *)

Current(key) == {d \in docs : d.key = key /\ d.end = MAX_SAFE_INTEGER}

\* addPropertyPage reads the property to convert the page's values.
LookUpProperty(w) ==
  /\ w.step = "lookup"
  /\ sent' = (sent \ {w}) \cup
       {[w EXCEPT !.step = "close", !.converted = Current(PropertyOf[w.key]) # {}]}
  /\ UNCHANGED <<validator, queue, job, database, failed, overtaken>>

KeepEnds(w) == \* mutant: the old documents are not ended
  /\ w.step = "close"
  /\ sent' = (sent \ {w}) \cup {[w EXCEPT !.step = "insert"]}
  /\ UNCHANGED <<validator, queue, job, docs, blocks, failed, overtaken>>

EndOldDocsTooEarly(w) == \* mutant: off by one
  /\ w.step = "close"
  /\ sent' = (sent \ {w}) \cup {[w EXCEPT !.step = "insert"]}
  /\ docs' = {IF d.key = w.key THEN [d EXCEPT !.end = w.num - 1] ELSE d : d \in docs}
  /\ UNCHANGED <<validator, queue, job, blocks, failed, overtaken>>

(* addBlockState drops the write if the document in force is from the same *)
(* block; else it ends every document of the key, whatever its end was.    *)
EndOldDocs(w) ==
  /\ w.step = "close"
  /\ IF \E d \in Current(w.key) : d.start = w.num
     THEN sent' = sent \ {w} /\ UNCHANGED docs
     ELSE /\ sent' = (sent \ {w}) \cup {[w EXCEPT !.step = "insert"]}
          /\ docs' = {IF d.key = w.key THEN [d EXCEPT !.end = w.num] ELSE d : d \in docs}
  /\ UNCHANGED <<validator, queue, job, blocks, failed, overtaken>>

InsertDoc(w) ==
  /\ w.step = "insert"
  /\ sent' = sent \ {w}
  /\ docs' = docs \cup {[key |-> w.key, value |-> w.id, start |-> w.num,
                         end |-> MAX_SAFE_INTEGER, converted |-> w.converted]}
  /\ UNCHANGED <<validator, queue, job, blocks, failed, overtaken>>

-----------------------------------------------------------------------------
(* The blocks table (db/blocks.js). *)

InsertBlock ==
  /\ job.phase = "inserting" /\ GoOn
  /\ LET num == job.event.num
     IN  \/ /\ num \notin DOMAIN blocks
            /\ blocks' = [n \in DOMAIN blocks \cup {num} |->
                            IF n = num THEN job.event.id ELSE blocks[n]]
            /\ RunNext
         \/ /\ num \in DOMAIN blocks /\ blocks[num] = job.event.id
            /\ RunNext
            /\ UNCHANGED blocks
         \/ /\ num \in DOMAIN blocks /\ blocks[num] # job.event.id
            /\ job' = [job EXCEPT !.phase = "replacing"]
            /\ UNCHANGED <<queue, sent, blocks>>
  /\ UNCHANGED <<validator, docs, failed>>

ReplaceOneBlock == \* mutant: the abandoned blocks after it stay
  /\ job.phase = "replacing"
  /\ blocks' = [blocks EXCEPT ![job.event.num] = job.event.id]
  /\ job' = [job EXCEPT !.phase = "removing", !.left = Keys \ Exchanges]
  /\ UNCHANGED <<validator, queue, sent, docs, failed, overtaken>>

(* resolveFork first replaces the blocks from the new one on ...           *)
ReplaceBlocks ==
  /\ job.phase = "replacing"
  /\ blocks' = [n \in {m \in DOMAIN blocks : m < job.event.num} \cup {job.event.num} |->
                  IF n = job.event.num THEN job.event.id ELSE blocks[n]]
  /\ job' = [job EXCEPT !.phase = "removing", !.left = Keys \ Exchanges]
  /\ UNCHANGED <<validator, queue, sent, docs, failed, overtaken>>

Reopened(d) == [d EXCEPT !.end = IF @ >= job.event.num THEN MAX_SAFE_INTEGER ELSE @]

KeepForkedDocs(key) == \* mutant: nothing is removed
  /\ job.phase = "removing" /\ key \in job.left
  /\ docs' = {IF d.key = key THEN Reopened(d) ELSE d : d \in docs}
  /\ job' = [job EXCEPT !.left = @ \ {key}]
  /\ UNCHANGED <<validator, queue, sent, blocks, failed, overtaken>>

(* ... then removes the documents that start there or later and reopens    *)
(* those that end there or later, in every table but exchanges.            *)
RemoveForkedDocs(key) ==
  /\ job.phase = "removing" /\ key \in job.left
  /\ docs' = {IF d.key = key THEN Reopened(d) ELSE d :
                d \in {e \in docs : ~(e.key = key /\ e.start >= job.event.num)}}
  /\ job' = [job EXCEPT !.left = @ \ {key}]
  /\ UNCHANGED <<validator, queue, sent, blocks, failed, overtaken>>

ForkResolved ==
  /\ job.phase = "removing" /\ job.left = {}
  /\ RunNext
  /\ UNCHANGED <<validator, database, failed, overtaken>>

-----------------------------------------------------------------------------
(* Failures. *)

(* A document write fails: nobody waits for its promise.                   *)
WriteFails(w) ==
  /\ sent' = sent \ {w}
  /\ failed' = "now"
  /\ UNCHANGED <<validator, queue, job, database, overtaken>>

(* A block query fails: _runNext has no catch, and _running stays set.     *)
BlockQueryFails ==
  /\ job.phase \in {"inserting", "replacing", "removing"}
  /\ job' = [job EXCEPT !.phase = "stuck"]
  /\ failed' = "now"
  /\ UNCHANGED <<validator, queue, sent, database, overtaken>>

(* The process is restarted, and subscribes from NULL_BLOCK_ID: every      *)
(* block of the chain is sent again.  Writes in flight may still be        *)
(* carried out.                                                            *)
Restart ==
  /\ \E kept \in SUBSET sent : sent' = kept
  /\ queue' = <<>> /\ job' = Idle /\ delivered' = 0
  /\ failed' = IF failed = "no" THEN "no" ELSE "before"
  /\ UNCHANGED <<chain, made, database, overtaken>>

CarryOut == \E w \in sent : LookUpProperty(w) \/ EndOldDocs(w) \/ InsertDoc(w)

Resolve == \E key \in Keys : RemoveForkedDocs(key)

Sync == Deliver \/ SendPages \/ CarryOut \/ InsertBlock \/ ReplaceBlocks \/ Resolve \/ ForkResolved

Fail == BlockQueryFails \/ \E w \in sent : WriteFails(w)

Grow == \E changed \in SUBSET Keys : Commit(changed)

Switch == \E changed \in SUBSET Keys, num \in 1..Len(chain) : SwitchFork(num, changed)

Next == Sync \/ Fail \/ Restart \/ Grow \/ Switch

(* The validator keeps sending, the database keeps answering, and the      *)
(* event loop runs what is due.                                            *)
Fairness ==
  /\ WF_vars(Deliver) /\ WF_vars(SendPages) /\ WF_vars(CarryOut)
  /\ WF_vars(InsertBlock) /\ WF_vars(ReplaceBlocks) /\ WF_vars(Resolve)
  /\ WF_vars(ForkResolved)

Spec == Init /\ [][Next]_vars /\ Fairness

-----------------------------------------------------------------------------
(* What a reader finds, and what it should find. *)

\* queryWithCurrentBlock of the server: the highest block there is.
CurrentBlock == CHOOSE n \in DOMAIN blocks : \A m \in DOMAIN blocks : m <= n

\* hasCurrentBlock of the server.
View(key) ==
  {d.value : d \in {e \in docs : e.key = key /\ DOMAIN blocks # {}
                                 /\ e.start <= CurrentBlock /\ CurrentBlock < e.end}}

\* The block whose value the key has in the ledger after block num.
ValueAt(key, num) ==
  LET changes == {n \in DOMAIN chain : n <= num /\ key \in chain[n].changed}
  IN  {chain[n].id : n \in {m \in changes : \A l \in changes : l <= m}}

AtRest ==
  delivered = Len(chain) /\ queue = <<>> /\ job = Idle /\ sent = {}

\* No query has failed since the start, and no write was overtaken.
Unharmed == failed # "now" /\ ~overtaken

(* When every block has been dealt with, no query has failed since the     *)
(* start and the queue never went on ahead of its writes, a reader finds   *)
(* exactly the ledger's entries, whatever failed and wherever the process  *)
(* stopped before.                                                         *)
SyncedAtRest ==
  AtRest /\ Unharmed => \A key \in Keys : View(key) = ValueAt(key, Len(chain))

\* The last block dealt with since the start.
Position == IF job.phase = "idle" THEN delivered ELSE job.event.num - 1

(* While later blocks are written, a reader never misses the version of an *)
(* entry in the current block, and finds none of a later block: what else  *)
(* he finds beside it are versions of earlier blocks, which the writes of  *)
(* a later one bring back (EndOldDocs moves their ends too).  After a      *)
(* restart this holds once the replay has come past the current block, and *)
(* it is not said once the queue has gone on ahead of its writes.          *)
ReadersCurrent ==
  DOMAIN blocks # {} /\ Position >= CurrentBlock /\ Unharmed =>
    \A key \in Keys :
      /\ ValueAt(key, CurrentBlock) \subseteq View(key)
      /\ \A v \in View(key) : \E w \in ValueAt(key, CurrentBlock) : v <= w

(* A page's values are converted by the property they belong to: unless    *)
(* queries fail, it is never written while its property cannot be found.   *)
PagesConverted == failed = "no" => \A d \in docs : d.converted

(* Once a fork is resolved no document of the abandoned blocks is left in  *)
(* the tables it is resolved in, unless the queue went on ahead of them.   *)
AbandonedGone ==
  AtRest /\ Unharmed =>
    \A d \in docs : d.key \notin Exchanges =>
      d.start \in DOMAIN chain /\ chain[d.start].id = d.value

(* The blocks table names the chain, block by block, whatever forks there  *)
(* were and whether or not the documents were written in time.             *)
BlocksFollow ==
  AtRest /\ failed # "now" => blocks = [n \in DOMAIN chain |-> chain[n].id]

(* However the chain switched, the queue runs empty once it stops.         *)
CaughtUp == <>[]AtRest
=============================================================================
