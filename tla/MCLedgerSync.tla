----------------------------- MODULE MCLedgerSync -----------------------------
(***************************************************************************)
(* Bounded instances of LedgerSync.                                        *)
(***************************************************************************)
EXTENDS LedgerSync

CONSTANTS
  Changes,      \* the sets of keys a block may change
  MaxBlocks,    \* bound on the blocks ever made
  Forking,      \* the validator switches forks
  Restarting,   \* the process is restarted
  Failing,      \* database queries fail
  Overtaking,   \* the queue goes on before the writes are carried out
  property, page, exchange

PageOfProperty == [k \in {page} |-> property]
AnyChanges == SUBSET Keys
SomeChange == SUBSET Keys \ {{}}
NoPages == [k \in {} |-> property]

MCNext ==
  /\ \/ Sync
     \/ Failing /\ Fail
     \/ Restarting /\ Restart
     \/ made < MaxBlocks /\ \E changed \in Changes : Commit(changed)
     \/ /\ Forking /\ made < MaxBlocks
        /\ \E changed \in Changes, num \in 1..Len(chain) : SwitchFork(num, changed)
  /\ overtaken' => Overtaking

MCSpec == Init /\ [][MCNext]_vars /\ Fairness
=============================================================================
