---------------------------- MODULE AccountProofs ----------------------------
(***************************************************************************)
(* Accounts, for any number of requests, keys and names: its submissions   *)
(* keep the promise of Submission, it is type correct, and nobody has an   *)
(* account without a participant on the chain.                             *)
(*                                                                         *)
(* The last needs an invariant that reaches back: a user is inserted well  *)
(* after its key was looked up, so every insert that is still to come must *)
(* be for a registered key; and it was looked up in the database, so what  *)
(* the database knows must be on the chain.                                *)
(*                                                                         *)
(* Until one of the slips the two tables agree.  At most one request at a  *)
(* time creates the user of a key (AloneInv), so that what it undoes is    *)
(* its own; and each name has one claimant at most (NamesInv): the users   *)
(* that hold it, the inserts to come or lost and whoever still has to free *)
(* it are counted against its entry and those who are about to write it.   *)
(***************************************************************************)
EXTENDS Accounts, BatchProofs, FiniteSetTheorems

RegisteredFirst ==
  /\ known \subseteq registered
  /\ \A r \in inserts : requests[r].key \in registered
  /\ UsersRegistered

AccountsInv == TypeOK /\ RegisteredFirst

-----------------------------------------------------------------------------
(* What the requests do to batches are steps of BatchSubmit.               *)
LEMMA AccountBatches ==
  ASSUME Next
  PROVE  [BatchStep]_batches
<1> USE DEF Requests
<1>1. CASE Chain
  BY <1>1 DEF Chain, CommitParticipant, InvalidateParticipant, BatchStep
<1>2. CASE SyncParticipants
  BY <1>2 DEF SyncParticipants
<1>3. ASSUME NEW r \in Requests, NEW k \in Keys, NEW n \in Names, Register(r, k, n)
      PROVE  BatchStep
  BY <1>3, ContentAssumption DEF Register, BatchStep
<1>4. ASSUME NEW r \in Requests, NEW k \in Keys, NEW n \in Names, SignUp(r, k, n)
      PROVE  BatchStep
  BY <1>4, ContentAssumption DEF SignUp, BatchStep
<1>5. ASSUME NEW r \in Requests, NEW k \in Keys, NEW n \in Names,
             CreateUser(r, k, n) \/ Rename(r, k, n)
      PROVE  UNCHANGED batches
  BY <1>5 DEF CreateUser, Rename
<1>6. ASSUME NEW r \in Requests, Carry(r)
      PROVE  BatchStep
  BY <1>6 DEF Carry, Carried, BatchStep
<1>7. ASSUME NEW r \in Requests, Serve(r) \/ InsertUser(r)
      PROVE  UNCHANGED batches
  BY <1>7 DEF Serve, Signed, CheckParticipant, InsertName, UndoUser, ChangeUser, FreeName,
              TakeName, ResetUser, InsertUser
<1> QED
  BY <1>1, <1>2, <1>3, <1>4, <1>5, <1>6, <1>7 DEF Next, Ask

(* Every submission of a request keeps its promise: PromiseKept.           *)
THEOREM AccountsPromise == Spec => PromiseKept
<1>1. Init => InitBatches
  BY DEF Init
<1>2. [Next]_vars => [BatchStep]_batches
  BY AccountBatches DEF vars
<1>3. Spec => SubmitSpec
  BY <1>1, <1>2, PTL DEF Spec, SubmitSpec
<1> QED
  BY <1>3, SubmitPromise

-----------------------------------------------------------------------------
(* The invariant, but for the batches. *)

\* TypeOK without the batches.
RequestsOK ==
  /\ known \subseteq registered /\ registered \subseteq Keys
  /\ DOMAIN users \subseteq Keys /\ \A k \in DOMAIN users : users[k] \in Names
  /\ usernames \subseteq Names
  /\ DOMAIN requests \subseteq Requests
  /\ \A r \in DOMAIN requests : requests[r] \in Request
  /\ inserts \subseteq DOMAIN requests /\ slips \subseteq Slips

RequestsInv == RequestsOK /\ RegisteredFirst

(* A request that goes on remains what it is.                              *)
LEMMA GotoKeeps ==
  ASSUME RequestsOK, NEW r \in DOMAIN requests, NEW step \in Steps, Goto(r, step)
  PROVE  /\ DOMAIN requests' = DOMAIN requests
         /\ \A q \in DOMAIN requests : requests'[q] \in Request /\ requests'[q].key = requests[q].key
<1>1. requests[r] \in Request
  BY DEF RequestsOK
<1>2. [requests[r] EXCEPT !.step = step] \in Request
  BY <1>1 DEF Request
<1>3. [requests[r] EXCEPT !.step = step].key = requests[r].key
  BY <1>1 DEF Request
<1>4. requests' = [requests EXCEPT ![r] = [requests[r] EXCEPT !.step = step]]
  BY DEF Goto
<1> QED
  BY <1>1, <1>2, <1>3, <1>4 DEF RequestsOK

(* A request that starts is a new one, and the others are what they were.  *)
LEMMA StartKeeps ==
  ASSUME RequestsInv, NEW r \in Requests, NEW kind \in Kinds, NEW k \in Keys, NEW n \in Names,
         NEW step \in Steps, Start(r, kind, k, n, step),
         UNCHANGED <<registered, known, tablesOfUsers, inserts, slips>>
  PROVE  RequestsInv'
<1> DEFINE new == [kind |-> kind, key |-> k, name |-> n, step |-> step, old |-> n]
<1>1. new \in Request
  BY DEF Request
<1>2. /\ r \notin DOMAIN requests
      /\ requests' = [q \in DOMAIN requests \cup {r} |-> IF q = r THEN new ELSE requests[q]]
  BY DEF Start
<1> HIDE DEF new
<1>3. RequestsOK'
  BY <1>1, <1>2 DEF RequestsInv, RequestsOK, tablesOfUsers
<1>4. \A i \in inserts : requests'[i].key = requests[i].key
  BY <1>2 DEF RequestsInv, RequestsOK
<1>5. RegisteredFirst'
  BY <1>4 DEF RequestsInv, RegisteredFirst, UsersRegistered, tablesOfUsers
<1> QED
  BY <1>3, <1>5 DEF RequestsInv

LEMMA StutterKeepsRequests ==
  ASSUME RequestsInv,
         UNCHANGED <<registered, known, tablesOfUsers, requests, inserts, slips>>
  PROVE  RequestsInv'
BY DEF RequestsInv, RequestsOK, RegisteredFirst, UsersRegistered, tablesOfUsers

(* What changes no key and no participant, and adds no insert.             *)
LEMMA FollowKeeps ==
  ASSUME RequestsInv, UNCHANGED <<registered, known>>, slips' \subseteq Slips,
         DOMAIN requests' = DOMAIN requests,
         \A q \in DOMAIN requests :
           requests'[q] \in Request /\ requests'[q].key = requests[q].key,
         inserts' \subseteq inserts, usernames' \subseteq Names,
         DOMAIN users' \subseteq DOMAIN users \cup {requests[r].key : r \in inserts},
         \A k \in DOMAIN users' : users'[k] \in Names
  PROVE  RequestsInv'
<1>1. \A r \in inserts : requests[r].key \in Keys /\ requests[r].key \in registered
  BY DEF RequestsInv, RequestsOK, RegisteredFirst, Request
<1>2. RequestsOK'
  BY <1>1 DEF RequestsInv, RequestsOK
<1>3. RegisteredFirst'
  BY <1>1 DEF RequestsInv, RequestsOK, RegisteredFirst, UsersRegistered
<1> QED
  BY <1>2, <1>3 DEF RequestsInv

LEMMA AskKeeps ==
  ASSUME RequestsInv, NEW r \in Requests, Ask(r)
  PROVE  RequestsInv'
<1>1. PICK k \in Keys, n \in Names :
        Register(r, k, n) \/ SignUp(r, k, n) \/ CreateUser(r, k, n) \/ Rename(r, k, n)
  BY DEF Ask
<1>2. CASE Register(r, k, n)
  BY <1>2, StartKeeps DEF Register, Kinds, Steps
<1>3. CASE SignUp(r, k, n)
  BY <1>3, StartKeeps DEF SignUp, Kinds, Steps
<1>4. CASE CreateUser(r, k, n)
  BY <1>4, StartKeeps DEF CreateUser, Kinds, Steps
<1>5. CASE Rename(r, k, n)
  BY <1>5, StartKeeps DEF Rename, Kinds, Steps
<1> QED
  BY <1>1, <1>2, <1>3, <1>4, <1>5

LEMMA ChainKeeps ==
  ASSUME RequestsInv, BatchesOK, NEW r \in Requests,
         CommitParticipant(r) \/ InvalidateParticipant(r)
  PROVE  RequestsInv'
<1>1. CASE CommitParticipant(r)
  <2>1. batches[r].txns \in Keys
    BY <1>1, ContentAssumption DEF CommitParticipant, Commit, BatchesOK, Submitted
  <2>2. registered' = registered \cup {batches[r].txns}
    BY <1>1 DEF CommitParticipant
  <2> QED
    BY <1>1, <2>1, <2>2
    DEF CommitParticipant, RequestsInv, RequestsOK, RegisteredFirst, UsersRegistered,
        tablesOfUsers
<1>2. CASE InvalidateParticipant(r)
  BY <1>2, StutterKeepsRequests DEF InvalidateParticipant
<1> QED
  BY <1>1, <1>2

LEMMA SyncKeeps ==
  ASSUME RequestsInv, SyncParticipants
  PROVE  RequestsInv'
BY DEF SyncParticipants, RequestsInv, RequestsOK, RegisteredFirst, UsersRegistered, tablesOfUsers

-----------------------------------------------------------------------------
(* Creating a user. *)

LEMMA SignedKeeps ==
  ASSUME RequestsInv, NEW r \in Requests, Signed(r)
  PROVE  RequestsInv'
<1>1. PICK step \in Steps : r \in DOMAIN requests /\ Goto(r, step)
  BY DEF Signed, Is, Steps
<1> QED
  BY <1>1, GotoKeeps, FollowKeeps DEF Signed, RequestsInv, RequestsOK, tablesOfUsers

(* The key that was found in the database is on the chain.                 *)
LEMMA CheckKeeps ==
  ASSUME RequestsInv, NEW r \in Requests, CheckParticipant(r)
  PROVE  RequestsInv'
<1>1. r \in DOMAIN requests /\ slips' \subseteq Slips
  BY DEF CheckParticipant, Is, RequestsInv, RequestsOK, Slips
<1>2. CASE requests[r].key \in known
  <2>1. Goto(r, "naming") /\ inserts' = inserts \cup {r}
    BY <1>2 DEF CheckParticipant
  <2>2. /\ DOMAIN requests' = DOMAIN requests
        /\ \A q \in DOMAIN requests :
             requests'[q] \in Request /\ requests'[q].key = requests[q].key
    BY <1>1, <2>1, GotoKeeps DEF RequestsInv, Steps
  <2>3. UNCHANGED <<registered, known, tablesOfUsers>>
    BY DEF CheckParticipant
  <2>4. RequestsOK'
    BY <1>1, <2>1, <2>2, <2>3 DEF RequestsInv, RequestsOK, tablesOfUsers
  <2>5. RegisteredFirst'
    BY <1>1, <1>2, <2>1, <2>2, <2>3
    DEF RequestsInv, RequestsOK, RegisteredFirst, UsersRegistered, tablesOfUsers
  <2> QED
    BY <2>4, <2>5 DEF RequestsInv
<1>3. CASE requests[r].key \notin known
  <2>1. Goto(r, "failed") /\ inserts' = inserts
    BY <1>3 DEF CheckParticipant
  <2>2. /\ DOMAIN requests' = DOMAIN requests
        /\ \A q \in DOMAIN requests :
             requests'[q] \in Request /\ requests'[q].key = requests[q].key
    BY <1>1, <2>1, GotoKeeps DEF RequestsInv, Steps
  <2> QED
    BY <1>1, <2>1, <2>2, FollowKeeps
    DEF CheckParticipant, RequestsInv, RequestsOK, tablesOfUsers
<1> QED
  BY <1>2, <1>3

LEMMA InsertUserKeeps ==
  ASSUME RequestsInv, NEW r \in Requests, InsertUser(r)
  PROVE  RequestsInv'
<1>1. r \in inserts /\ r \in DOMAIN requests /\ requests[r].name \in Names
  BY DEF InsertUser, RequestsInv, RequestsOK, Request
<1>2. \A k \in DOMAIN users' : users'[k] \in Names
  BY <1>1 DEF InsertUser, RequestsInv, RequestsOK
<1>3. DOMAIN users' \subseteq DOMAIN users \cup {requests[q].key : q \in inserts}
  BY <1>1 DEF InsertUser
<1> QED
  BY <1>2, <1>3, FollowKeeps DEF InsertUser, RequestsInv, RequestsOK

LEMMA InsertNameKeeps ==
  ASSUME RequestsInv, NEW r \in Requests, InsertName(r)
  PROVE  RequestsInv'
<1>1. PICK step \in Steps : r \in DOMAIN requests /\ Goto(r, step)
  BY DEF InsertName, Is, Steps
<1>2. requests[r].name \in Names
  BY <1>1 DEF RequestsInv, RequestsOK, Request
<1> QED
  BY <1>1, <1>2, GotoKeeps, FollowKeeps DEF InsertName, RequestsInv, RequestsOK

LEMMA UndoUserKeeps ==
  ASSUME RequestsInv, NEW r \in Requests, UndoUser(r)
  PROVE  RequestsInv'
<1>1. r \in DOMAIN requests /\ Goto(r, "failed") /\ "failed" \in Steps
  BY DEF UndoUser, Is, Steps
<1>2. slips' \subseteq Slips
  BY DEF UndoUser, RequestsInv, RequestsOK, Slips
<1> QED
  BY <1>1, <1>2, GotoKeeps, FollowKeeps DEF UndoUser, RequestsInv, RequestsOK

-----------------------------------------------------------------------------
(* Changing a user's name. *)

LEMMA ChangeUserKeeps ==
  ASSUME RequestsInv, NEW r \in Requests, ChangeUser(r)
  PROVE  RequestsInv'
<1>1. r \in DOMAIN requests /\ requests[r] \in Request
  BY DEF ChangeUser, Is, RequestsInv, RequestsOK
<1>2. UNCHANGED <<registered, known, usernames, inserts>>
  BY DEF ChangeUser
<1> DEFINE k == requests[r].key
<1>3. CASE k \in DOMAIN users /\ Change(r, k)
  <2>1. requests' = [requests EXCEPT ![r] = [requests[r] EXCEPT !.step = "freeing", !.old = users[k]]]
    BY <1>3 DEF Change
  <2>2. [requests[r] EXCEPT !.step = "freeing", !.old = users[k]] \in Request
    BY <1>1, <1>3 DEF Request, Steps, RequestsInv, RequestsOK
  <2>3. [requests[r] EXCEPT !.step = "freeing", !.old = users[k]].key = requests[r].key
    BY <1>1 DEF Request
  <2>4. /\ DOMAIN requests' = DOMAIN requests
        /\ \A q \in DOMAIN requests :
             requests'[q] \in Request /\ requests'[q].key = requests[q].key
    BY <1>1, <2>1, <2>2, <2>3 DEF RequestsInv, RequestsOK
  <2>5. users' = [users EXCEPT ![k] = requests[r].name] /\ slips' \subseteq Slips
    BY <1>3 DEF Change, RequestsInv, RequestsOK, Slips
  <2>6. DOMAIN users' = DOMAIN users /\ \A l \in DOMAIN users' : users'[l] \in Names
    BY <1>1, <2>5 DEF RequestsInv, RequestsOK, Request
  <2> QED
    BY <1>2, <2>4, <2>5, <2>6, FollowKeeps DEF RequestsInv, RequestsOK
<1>4. ASSUME NEW step \in Steps, Goto(r, step), UNCHANGED <<users, slips>>
      PROVE  RequestsInv'
  BY <1>1, <1>2, <1>4, GotoKeeps, FollowKeeps DEF RequestsInv, RequestsOK
<1>5. \/ Goto(r, "failed") /\ UNCHANGED <<users, slips>>
      \/ k \in DOMAIN users /\ Change(r, k)
      \/ Goto(r, "done") /\ UNCHANGED <<users, slips>>
  BY DEF ChangeUser
<1> QED
  BY <1>3, <1>4, <1>5 DEF Steps

LEMMA NamesKeep ==
  ASSUME RequestsInv, NEW r \in Requests, FreeName(r) \/ TakeName(r)
  PROVE  RequestsInv'
<1>1. PICK step \in Steps : r \in DOMAIN requests /\ Goto(r, step)
  BY DEF FreeName, TakeName, Is, Steps
<1>2. requests[r].name \in Names
  BY <1>1 DEF RequestsInv, RequestsOK, Request
<1>3. usernames' \subseteq Names
  BY <1>2 DEF FreeName, TakeName, RequestsInv, RequestsOK
<1> QED
  BY <1>1, <1>3, GotoKeeps, FollowKeeps DEF FreeName, TakeName, RequestsInv, RequestsOK

LEMMA ResetUserKeeps ==
  ASSUME RequestsInv, NEW r \in Requests, ResetUser(r)
  PROVE  RequestsInv'
<1>1. r \in DOMAIN requests /\ Goto(r, "failed") /\ "failed" \in Steps
  BY DEF ResetUser, Is, Steps
<1>2. requests[r].old \in Names /\ slips' \subseteq Slips
  BY <1>1 DEF ResetUser, RequestsInv, RequestsOK, Request, Slips
<1>3. DOMAIN users' = DOMAIN users /\ \A l \in DOMAIN users' : users'[l] \in Names
  BY <1>2 DEF ResetUser, RequestsInv, RequestsOK
<1> QED
  BY <1>1, <1>2, <1>3, GotoKeeps, FollowKeeps DEF ResetUser, RequestsInv, RequestsOK

-----------------------------------------------------------------------------
LEMMA NextKeeps ==
  ASSUME RequestsInv, BatchesOK, [Next]_vars
  PROVE  RequestsInv'
<1>1. CASE UNCHANGED vars
  BY <1>1, StutterKeepsRequests DEF vars, tablesOfUsers
<1>2. CASE Chain
  BY <1>2, ChainKeeps DEF Chain
<1>3. CASE SyncParticipants
  BY <1>3, SyncKeeps
<1>4. ASSUME NEW r \in Requests, Ask(r) PROVE RequestsInv'
  BY <1>4, AskKeeps
<1>5. ASSUME NEW r \in Requests, Carry(r) PROVE RequestsInv'
  BY <1>5, StutterKeepsRequests DEF Carry
<1>6. ASSUME NEW r \in Requests, Serve(r) PROVE RequestsInv'
  <2>1. CASE Signed(r) \/ CheckParticipant(r) \/ InsertName(r) \/ UndoUser(r)
    BY <2>1, SignedKeeps, CheckKeeps, InsertNameKeeps, UndoUserKeeps
  <2>2. CASE ChangeUser(r) \/ FreeName(r) \/ TakeName(r) \/ ResetUser(r)
    BY <2>2, ChangeUserKeeps, NamesKeep, ResetUserKeeps
  <2> QED
    BY <1>6, <2>1, <2>2 DEF Serve
<1>7. ASSUME NEW r \in Requests, InsertUser(r) PROVE RequestsInv'
  BY <1>7, InsertUserKeeps
<1> QED
  BY <1>1, <1>2, <1>3, <1>4, <1>5, <1>6, <1>7 DEF Next

LEMMA InitHolds == Init => RequestsInv
BY DEF Init, RequestsInv, RequestsOK, RegisteredFirst, UsersRegistered

(* The tables hold keys and names, requests are well formed, and every     *)
(* user is, or every insert to come will be, of a registered key.          *)
THEOREM AccountsInvariant == Spec => []AccountsInv
<1>1. Init => RequestsInv
  BY InitHolds
<1>2. RequestsInv /\ BatchesOK /\ [Next]_vars => RequestsInv'
  BY NextKeeps
<1>3. [Next]_vars => [BatchStep]_batches
  BY AccountBatches DEF vars
<1>4. Init => InitBatches
  BY DEF Init
<1>5. Spec => SubmitSpec
  BY <1>3, <1>4, PTL DEF Spec, SubmitSpec
<1>6. SubmitInv => BatchesOK
  BY DEF SubmitInv
<1>7. RequestsInv /\ BatchesOK => AccountsInv
  BY DEF RequestsInv, RequestsOK, AccountsInv, TypeOK
<1> QED
  BY <1>1, <1>2, <1>5, <1>6, <1>7, SubmitInvariant, PTL DEF Spec

(* Type correctness of the accounts.                                       *)
THEOREM AccountsTyped == Spec => []TypeOK
<1>1. AccountsInv => TypeOK
  BY DEF AccountsInv
<1> QED
  BY <1>1, AccountsInvariant, PTL

(* Nobody has an account without a participant on the chain: the     *)
(* insert of db/users.js comes only after participants.fetch found one.    *)
THEOREM AccountsRegistered == Spec => []UsersRegistered
<1>1. AccountsInv => UsersRegistered
  BY DEF AccountsInv, RegisteredFirst
<1> QED
  BY <1>1, AccountsInvariant, PTL

-----------------------------------------------------------------------------
(* Until one of the slips.  A key's user is being created by one request   *)
(* at most.                                                                *)

StepKinds == \A r \in DOMAIN requests :
  /\ requests[r].step = "signing" => requests[r].kind \in {"register", "signUp"}
  /\ requests[r].step \in {"changing", "freeing", "taking", "resetting"} =>
       requests[r].kind = "rename"

\* Requests that are creating a user.
Creators == {r \in DOMAIN requests : r \in inserts \/ Is(r, "naming") \/ Is(r, "undoing")}

\* As long as the insert is to come there is no user; then it is this one,
\* or none if the insert was lost.
Alone ==
  /\ \A q, r \in Creators : requests[q].key = requests[r].key => q = r
  /\ \A r \in inserts : requests[r].key \notin DOMAIN users
  /\ \A r \in Creators \ inserts :
       requests[r].key \in DOMAIN users => users[requests[r].key] = requests[r].name

AloneInv == slips = {} => Alone

(* A step of a request changes nothing else of it.                         *)
LEMMA GotoIs ==
  ASSUME RequestsOK, NEW r \in DOMAIN requests, NEW step, Goto(r, step)
  PROVE  /\ DOMAIN requests' = DOMAIN requests
         /\ \A q \in DOMAIN requests : q # r => requests'[q] = requests[q]
         /\ requests'[r].step = step /\ requests'[r].kind = requests[r].kind
         /\ requests'[r].key = requests[r].key /\ requests'[r].name = requests[r].name
         /\ requests'[r].old = requests[r].old
<1>1. requests[r] \in Request
  BY DEF RequestsOK
<1>2. requests' = [requests EXCEPT ![r] = [requests[r] EXCEPT !.step = step]]
  BY DEF Goto
<1> QED
  BY <1>1, <1>2 DEF Request

LEMMA StartIs ==
  ASSUME NEW r, NEW kind, NEW k, NEW n, NEW step, Start(r, kind, k, n, step)
  PROVE  /\ r \notin DOMAIN requests /\ DOMAIN requests' = DOMAIN requests \cup {r}
         /\ \A q \in DOMAIN requests : requests'[q] = requests[q]
         /\ requests'[r].kind = kind /\ requests'[r].step = step
BY DEF Start

LEMMA ChangeIs ==
  ASSUME RequestsOK, NEW r \in DOMAIN requests, NEW k \in DOMAIN users, Change(r, k)
  PROVE  /\ DOMAIN requests' = DOMAIN requests
         /\ \A q \in DOMAIN requests : q # r => requests'[q] = requests[q]
         /\ requests'[r].step = "freeing" /\ requests'[r].kind = requests[r].kind
         /\ requests'[r].key = requests[r].key /\ requests'[r].name = requests[r].name
         /\ requests'[r].old = users[k]
         /\ DOMAIN users' = DOMAIN users /\ users'[k] = requests[r].name
         /\ \A l \in DOMAIN users : l # k => users'[l] = users[l]
<1>1. requests[r] \in Request
  BY DEF RequestsOK
<1>2. requests' = [requests EXCEPT ![r] = [requests[r] EXCEPT !.step = "freeing", !.old = users[k]]]
  BY Zenon DEF Change
<1>3. users' = [users EXCEPT ![k] = requests[r].name]
  BY Zenon DEF Change
<1> QED
  BY <1>1, <1>2, <1>3 DEF Request

\* The steps between which a request takes no part in the creation of users.
Aside == {"signing", "checking", "changing", "freeing", "taking", "resetting", "failed"}

(* A request that is set aside, before and after, or that starts.          *)
LEMMA AsideKeeps ==
  ASSUME RequestsOK, RequestsOK', AloneInv, slips' = {} => slips = {}, UNCHANGED <<users, inserts>>,
         NEW r, DOMAIN requests' = DOMAIN requests \cup {r},
         \A q \in DOMAIN requests : q # r => requests'[q] = requests[q],
         r \in DOMAIN requests => /\ requests'[r].key = requests[r].key
                                 /\ requests'[r].name = requests[r].name
                                 /\ \/ requests[r].step \in Aside
                                    \/ requests'[r] = requests[r],
         \/ requests'[r].step \in Aside
         \/ requests'[r].step = "done" /\ requests'[r].kind \in {"register", "rename"}
         \/ r \in DOMAIN requests /\ requests'[r] = requests[r]
  PROVE  AloneInv'
<1>1. inserts \subseteq DOMAIN requests
  BY DEF RequestsOK
<1>2. \A q \in DOMAIN requests : /\ requests'[q].key = requests[q].key
                               /\ requests'[q].name = requests[q].name
  OBVIOUS
<1>3. \A q \in Creators' : q \in Creators
  BY <1>1 DEF Creators, Is, Aside
<1>5. Creators \subseteq DOMAIN requests
  BY DEF Creators
<1>6. SUFFICES ASSUME slips' = {} PROVE Alone'
  BY DEF AloneInv
<1>7. Alone
  BY <1>6 DEF AloneInv
<1> QED
  BY <1>1, <1>2, <1>3, <1>5, <1>7 DEF Alone

(* The key has no user, and nobody creates one.                            *)
LEMMA CheckAlone ==
  ASSUME RequestsOK, RequestsOK', AloneInv, NEW r \in Requests, CheckParticipant(r)
  PROVE  AloneInv'
<1>1. /\ r \in DOMAIN requests /\ requests[r].step = "checking" /\ UNCHANGED users
      /\ slips' = {} => /\ slips = {} /\ requests[r].key \notin DOMAIN users
                        /\ ~ Creating(requests[r].key)
  <2>1. /\ Is(r, "checking") /\ UNCHANGED tablesOfUsers
        /\ \E slip : slips' = IF requests[r].key \in DOMAIN users \/ Creating(requests[r].key)
                             THEN slips \cup {slip} ELSE slips
    BY Zenon DEF CheckParticipant
  <2>2. slips' = {} => slips = {} /\ ~ (requests[r].key \in DOMAIN users \/ Creating(requests[r].key))
    BY <2>1
  <2> QED
    BY <2>1, <2>2 DEF Is, tablesOfUsers
<1>2. CASE Goto(r, "failed") /\ UNCHANGED inserts
  BY <1>1, <1>2, GotoIs, AsideKeeps DEF Aside
<1>3. CASE Goto(r, "naming") /\ inserts' = inserts \cup {r}
  <2>1. /\ DOMAIN requests' = DOMAIN requests
        /\ \A q \in DOMAIN requests : q # r => requests'[q] = requests[q]
        /\ requests'[r].step = "naming" /\ requests'[r].key = requests[r].key
    BY <1>1, <1>3, GotoIs
  <2>2. SUFFICES ASSUME slips' = {} PROVE Alone'
    BY DEF AloneInv
  <2>3. Alone /\ requests[r].key \notin DOMAIN users /\ ~ Creating(requests[r].key)
    BY <1>1, <2>2 DEF AloneInv
  <2>4. Creators' = Creators \cup {r}
    BY <1>1, <1>3, <2>1 DEF Creators, Is
  <2>5. \A q \in Creators : requests[q].key # requests[r].key /\ q # r
    BY <1>1, <2>3 DEF Creating, Creators
  <2>6. inserts \subseteq Creators /\ Creators \subseteq DOMAIN requests
    BY DEF RequestsOK, Creators
  <2>7. /\ \A q \in Creators : requests'[q] = requests[q]
        /\ \A q \in inserts' : q = r \/ q \in inserts
        /\ \A q \in Creators' \ inserts' : q \in Creators \ inserts
    BY <1>3, <2>1, <2>4, <2>5, <2>6
  <2>8. \A q, t \in Creators' : requests'[q].key = requests'[t].key => q = t
    BY <2>1, <2>3, <2>4, <2>5, <2>7 DEF Alone
  <2>9. \A q \in inserts' : requests'[q].key \notin DOMAIN users'
    BY <1>1, <2>1, <2>3, <2>6, <2>7 DEF Alone
  <2>10. \A q \in Creators' \ inserts' :
           requests'[q].key \in DOMAIN users' => users'[requests'[q].key] = requests'[q].name
    BY <1>1, <2>3, <2>7 DEF Alone
  <2> QED
    BY <2>8, <2>9, <2>10 DEF Alone
<1> QED
  BY <1>2, <1>3, Zenon DEF CheckParticipant

(* The insert, if it is carried out, makes the key's first user.           *)
LEMMA InsertUserAlone ==
  ASSUME RequestsOK, AloneInv, NEW r \in Requests, InsertUser(r)
  PROVE  AloneInv'
<1> DEFINE k == requests[r].key
<1>1. /\ r \in inserts /\ inserts' = inserts \ {r} /\ UNCHANGED <<requests, slips>>
      /\ DOMAIN users' \subseteq DOMAIN users \cup {k}
      /\ \A u \in DOMAIN users : u \in DOMAIN users' /\ users'[u] = users[u]
      /\ k \in DOMAIN users' => k \in DOMAIN users \/ users'[k] = requests[r].name
  BY DEF InsertUser
<1>2. SUFFICES ASSUME slips = {}, Alone PROVE Alone'
  BY <1>1 DEF AloneInv
<1>3. r \in Creators /\ inserts \subseteq Creators
  BY <1>1 DEF RequestsOK, Creators
<1>4. Creators' \subseteq Creators
  BY <1>1 DEF Creators, Is
<1>5. k \notin DOMAIN users /\ \A q \in Creators : requests[q].key = k => q = r
  BY <1>1, <1>2, <1>3 DEF Alone
<1> HIDE DEF k
<1>6. \A q, t \in Creators' : requests'[q].key = requests'[t].key => q = t
  BY <1>1, <1>2, <1>4 DEF Alone
<1>7. \A q \in inserts' : requests'[q].key \notin DOMAIN users'
  BY <1>1, <1>2, <1>3, <1>5 DEF Alone
<1>8. \A q \in Creators' \ inserts' :
        requests'[q].key \in DOMAIN users' => users'[requests'[q].key] = requests'[q].name
  <2>1. SUFFICES ASSUME NEW q \in Creators' \ inserts', requests[q].key \in DOMAIN users'
                 PROVE  users'[requests[q].key] = requests[q].name
    BY <1>1
  <2>2. CASE q = r
    BY <1>1, <1>5, <2>1, <2>2 DEF k
  <2>3. CASE q # r
    <3>1. q \in Creators \ inserts /\ requests[q].key # k
      BY <1>1, <1>4, <1>5, <2>1, <2>3
    <3> QED
      BY <1>1, <1>2, <2>1, <3>1 DEF Alone
  <2> QED
    BY <2>2, <2>3
<1> QED
  BY <1>6, <1>7, <1>8 DEF Alone

LEMMA InsertNameAlone ==
  ASSUME RequestsOK, AloneInv, NEW r \in Requests, InsertName(r)
  PROVE  AloneInv'
<1>1. PICK step \in {"undoing", "done"} : Goto(r, step)
  BY DEF InsertName
<1>2. /\ r \in DOMAIN requests /\ requests[r].step = "naming" /\ UNCHANGED <<users, inserts, slips>>
  BY DEF InsertName, Is
<1>3. SUFFICES ASSUME slips = {}, Alone PROVE Alone'
  BY <1>2 DEF AloneInv
<1>4. /\ DOMAIN requests' = DOMAIN requests
      /\ \A q \in DOMAIN requests : q # r => requests'[q] = requests[q]
      /\ requests'[r].step = step
      /\ requests'[r].key = requests[r].key /\ requests'[r].name = requests[r].name
  BY <1>1, <1>2, GotoIs
<1>5. \A q \in DOMAIN requests : requests'[q].key = requests[q].key /\ requests'[q].name = requests[q].name
  BY <1>4
<1>6. Creators' \subseteq Creators
  BY <1>2, <1>4 DEF Creators, Is
<1>7. Creators \subseteq DOMAIN requests /\ inserts \subseteq DOMAIN requests
  BY DEF Creators, RequestsOK
<1>8. \A q, t \in Creators' : requests'[q].key = requests'[t].key => q = t
  BY <1>3, <1>5, <1>6, <1>7 DEF Alone
<1>9. /\ \A q \in inserts' : requests'[q].key \notin DOMAIN users'
      /\ \A q \in Creators' \ inserts' :
           requests'[q].key \in DOMAIN users' => users'[requests'[q].key] = requests'[q].name
  BY <1>2, <1>3, <1>5, <1>6, <1>7 DEF Alone
<1> QED
  BY <1>8, <1>9 DEF Alone

(* The user that is deleted is nobody else's.                              *)
LEMMA UndoAlone ==
  ASSUME RequestsOK, AloneInv, NEW r \in Requests, UndoUser(r)
  PROVE  AloneInv'
<1> DEFINE k == requests[r].key
<1>1. /\ r \in DOMAIN requests /\ requests[r].step = "undoing" /\ UNCHANGED inserts
      /\ DOMAIN users' = DOMAIN users \ {k}
      /\ \A u \in DOMAIN users' : users'[u] = users[u]
      /\ slips' = {} => slips = {} /\ r \notin inserts
      /\ Goto(r, "failed")
  <2>1. /\ Is(r, "undoing") /\ UNCHANGED inserts /\ Goto(r, "failed")
        /\ users' = [u \in DOMAIN users \ {k} |-> users[u]]
        /\ \E slip : slips' = IF r \in inserts THEN slips \cup {slip} ELSE slips
    BY Zenon DEF UndoUser
  <2>2. slips' = {} => slips = {} /\ r \notin inserts
    BY <2>1
  <2>3. r \in DOMAIN requests /\ requests[r].step = "undoing"
    BY <2>1 DEF Is
  <2> QED
    BY <2>1, <2>2, <2>3
<1>2. SUFFICES ASSUME slips' = {} PROVE Alone'
  BY DEF AloneInv
<1>3. Alone /\ r \notin inserts
  BY <1>1, <1>2 DEF AloneInv
<1>4. /\ DOMAIN requests' = DOMAIN requests
      /\ \A q \in DOMAIN requests : q # r => requests'[q] = requests[q]
      /\ requests'[r].step = "failed"
  BY <1>1, GotoIs
<1>5. Creators' = Creators \ {r} /\ r \in Creators
  BY <1>1, <1>3, <1>4 DEF Creators, Is
<1>6. \A q \in Creators : requests[q].key = k => q = r
  BY <1>3, <1>5 DEF Alone
<1>7. Creators \subseteq DOMAIN requests /\ inserts \subseteq Creators
  BY DEF Creators, RequestsOK
<1> HIDE DEF k
<1>8. /\ \A q \in Creators' : requests'[q] = requests[q] /\ requests[q].key # k
      /\ inserts' \subseteq Creators'
  BY <1>1, <1>3, <1>4, <1>5, <1>6, <1>7
<1>9. \A q, t \in Creators' : requests'[q].key = requests'[t].key => q = t
  BY <1>3, <1>5, <1>8 DEF Alone
<1>10. \A q \in inserts' : requests'[q].key \notin DOMAIN users'
  BY <1>1, <1>3, <1>8 DEF Alone
<1>11. \A q \in Creators' \ inserts' :
         requests'[q].key \in DOMAIN users' => users'[requests'[q].key] = requests'[q].name
  BY <1>1, <1>3, <1>5, <1>8 DEF Alone
<1> QED
  BY <1>9, <1>10, <1>11 DEF Alone

LEMMA ChangeAlone ==
  ASSUME RequestsOK, RequestsOK', StepKinds, AloneInv, NEW r \in Requests, ChangeUser(r)
  PROVE  AloneInv'
<1> DEFINE k == requests[r].key
<1>1. /\ r \in DOMAIN requests /\ requests[r].step = "changing" /\ requests[r].kind = "rename"
      /\ UNCHANGED inserts
  BY DEF ChangeUser, Is, StepKinds
<1>2. CASE (Goto(r, "failed") \/ Goto(r, "done")) /\ UNCHANGED <<users, slips>>
  <2>1. PICK step \in {"failed", "done"} : Goto(r, step)
    BY <1>2
  <2>2. /\ DOMAIN requests' = DOMAIN requests
        /\ \A q \in DOMAIN requests : q # r => requests'[q] = requests[q]
        /\ requests'[r].step = step /\ requests'[r].kind = requests[r].kind
        /\ requests'[r].key = requests[r].key /\ requests'[r].name = requests[r].name
    BY <1>1, <2>1, GotoIs
  <2> QED
    BY <1>1, <1>2, <2>2, AsideKeeps DEF Aside
<1>3. CASE k \in DOMAIN users /\ Change(r, k)
  <2>1. /\ DOMAIN requests' = DOMAIN requests
        /\ \A q \in DOMAIN requests : q # r => requests'[q] = requests[q]
        /\ requests'[r].step = "freeing"
        /\ DOMAIN users' = DOMAIN users
        /\ \A l \in DOMAIN users : l # k => users'[l] = users[l]
    BY <1>1, <1>3, ChangeIs
  <2>2. slips' = {} => slips = {} /\ ~ Creating(k)
    <3>1. \E slip : slips' = IF Creating(k) THEN slips \cup {slip} ELSE slips
      BY <1>3, Zenon DEF Change
    <3> QED
      BY <3>1
  <2>3. SUFFICES ASSUME slips' = {} PROVE Alone'
    BY DEF AloneInv
  <2>4. Alone /\ ~ Creating(k)
    BY <2>2, <2>3 DEF AloneInv
  <2>5. \A q \in Creators : requests[q].key # k /\ q # r
    BY <2>4 DEF Creating, Creators
  <2>6. inserts \subseteq Creators /\ Creators \subseteq DOMAIN requests
    BY DEF RequestsOK, Creators
  <2>7. Creators' = Creators
    BY <1>1, <2>1, <2>5, <2>6 DEF Creators, Is
  <2>8. \A q \in Creators : requests'[q] = requests[q]
    BY <2>1, <2>5, <2>6
  <2> HIDE DEF k
  <2>9. \A q, t \in Creators' : requests'[q].key = requests'[t].key => q = t
    BY <2>4, <2>7, <2>8 DEF Alone
  <2>10. \A q \in inserts' : requests'[q].key \notin DOMAIN users'
    BY <1>1, <2>1, <2>4, <2>6, <2>8 DEF Alone
  <2>11. \A q \in Creators' \ inserts' :
           requests'[q].key \in DOMAIN users' => users'[requests'[q].key] = requests'[q].name
    BY <1>1, <2>1, <2>4, <2>5, <2>7, <2>8 DEF Alone
  <2> QED
    BY <2>9, <2>10, <2>11 DEF Alone
<1> QED
  BY <1>2, <1>3 DEF ChangeUser

(* How one request goes on, or starts; the others are what they were.      *)
OneRequest(r) ==
  /\ r \in DOMAIN requests' /\ DOMAIN requests' = DOMAIN requests \cup {r}
  /\ \A q \in DOMAIN requests : q # r => requests'[q] = requests[q]
  /\ r \in DOMAIN requests => /\ requests'[r].kind = requests[r].kind
                              /\ requests'[r].key = requests[r].key
                              /\ requests'[r].name = requests[r].name

LEMMA AskIs ==
  ASSUME RequestsOK, NEW r \in Requests, Ask(r)
  PROVE  /\ OneRequest(r) /\ r \notin DOMAIN requests
         /\ UNCHANGED <<users, usernames, inserts, slips>>
         /\ \/ requests'[r].step = "signing" /\ requests'[r].kind \in {"register", "signUp"}
            \/ requests'[r].step = "checking"
            \/ requests'[r].step = "changing" /\ requests'[r].kind = "rename"
<1>1. PICK k \in Keys, n \in Names :
        Register(r, k, n) \/ SignUp(r, k, n) \/ CreateUser(r, k, n) \/ Rename(r, k, n)
  BY DEF Ask
<1>2. UNCHANGED <<users, usernames, inserts, slips>>
  BY <1>1 DEF Register, SignUp, CreateUser, Rename, tablesOfUsers
<1>3. \/ Start(r, "register", k, n, "signing") \/ Start(r, "signUp", k, n, "signing")
      \/ Start(r, "create", k, n, "checking") \/ Start(r, "rename", k, n, "changing")
  BY <1>1 DEF Register, SignUp, CreateUser, Rename
<1>4. ASSUME NEW kind, NEW step, Start(r, kind, k, n, step)
      PROVE  /\ OneRequest(r) /\ r \notin DOMAIN requests
             /\ requests'[r].kind = kind /\ requests'[r].step = step
  BY <1>4, StartIs DEF OneRequest
<1> QED
  BY <1>2, <1>3, <1>4

LEMMA SignedIs ==
  ASSUME RequestsOK, StepKinds, NEW r \in Requests, Signed(r)
  PROVE  /\ OneRequest(r) /\ r \in DOMAIN requests /\ requests[r].step = "signing"
         /\ UNCHANGED <<users, usernames, inserts, slips>>
         /\ \/ requests'[r].step = "checking"
            \/ requests'[r].step = "done" /\ requests'[r].kind = "register"
<1>1. /\ r \in DOMAIN requests /\ requests[r].step = "signing"
      /\ UNCHANGED <<users, usernames, inserts, slips>>
      /\ Goto(r, IF requests[r].kind = "signUp" THEN "checking" ELSE "done")
  BY DEF Signed, Is, tablesOfUsers
<1>2. CASE Goto(r, "checking")
  BY <1>1, <1>2, GotoIs DEF OneRequest
<1>3. CASE Goto(r, "done") /\ requests[r].kind = "register"
  BY <1>1, <1>3, GotoIs DEF OneRequest
<1> QED
  BY <1>1, <1>2, <1>3 DEF StepKinds

LEMMA FreeIs ==
  ASSUME RequestsOK, NEW r \in Requests, FreeName(r)
  PROVE  /\ OneRequest(r) /\ r \in DOMAIN requests /\ requests[r].step = "freeing"
         /\ UNCHANGED <<users, inserts, slips>> /\ requests'[r].step = "taking"
         /\ usernames' = usernames \ {requests[r].old}
<1>1. /\ r \in DOMAIN requests /\ requests[r].step = "freeing" /\ Goto(r, "taking")
      /\ UNCHANGED <<users, inserts, slips>> /\ usernames' = usernames \ {requests[r].old}
  BY DEF FreeName, Is
<1> QED
  BY <1>1, GotoIs DEF OneRequest

LEMMA TakeIs ==
  ASSUME RequestsOK, StepKinds, NEW r \in Requests, TakeName(r)
  PROVE  /\ OneRequest(r) /\ r \in DOMAIN requests /\ requests[r].step = "taking"
         /\ UNCHANGED <<users, inserts, slips>> /\ requests'[r].kind = "rename"
         /\ \/ /\ requests[r].name \in usernames /\ requests'[r].step = "resetting"
               /\ usernames' = usernames
            \/ /\ requests[r].name \notin usernames /\ requests'[r].step = "done"
               /\ usernames' = usernames \cup {requests[r].name}
<1>1. /\ r \in DOMAIN requests /\ requests[r].step = "taking" /\ UNCHANGED <<users, inserts, slips>>
      /\ \/ /\ requests[r].name \in usernames /\ Goto(r, "resetting")
            /\ usernames' = usernames
         \/ /\ requests[r].name \notin usernames /\ Goto(r, "done")
            /\ usernames' = usernames \cup {requests[r].name}
  BY DEF TakeName, Is
<1>2. requests[r].kind = "rename"
  BY <1>1 DEF StepKinds
<1>3. CASE requests[r].name \in usernames
  BY <1>1, <1>2, <1>3, GotoIs DEF OneRequest
<1>4. CASE requests[r].name \notin usernames
  BY <1>1, <1>2, <1>4, GotoIs DEF OneRequest
<1> QED
  BY <1>3, <1>4

LEMMA ResetSlips ==
  ASSUME NEW r \in Requests, ResetUser(r)
  PROVE  slips' # {}
<1>1. \E slip : slips' = slips \cup {slip}
  BY Zenon DEF ResetUser
<1> QED
  BY <1>1

LEMMA NothingAsked ==
  ASSUME Chain \/ SyncParticipants \/ (\E r \in Requests : Carry(r)) \/ UNCHANGED vars
  PROVE  UNCHANGED <<users, usernames, requests, inserts, slips>>
<1>1. ASSUME NEW r \in Requests, CommitParticipant(r) \/ InvalidateParticipant(r)
      PROVE  UNCHANGED <<users, usernames, requests, inserts, slips>>
  BY <1>1 DEF CommitParticipant, InvalidateParticipant, tablesOfUsers
<1> QED
  BY <1>1 DEF Chain, SyncParticipants, Carry, vars, tablesOfUsers

LEMMA NextAlone ==
  ASSUME RequestsOK, RequestsOK', StepKinds, AloneInv, [Next]_vars
  PROVE  AloneInv'
<1>1. CASE Chain \/ SyncParticipants \/ (\E r \in Requests : Carry(r)) \/ UNCHANGED vars
  <2>1. UNCHANGED <<users, usernames, requests, inserts, slips>>
    BY <1>1, NothingAsked
  <2> QED
    BY <2>1 DEF AloneInv, Alone, Creators, Is
<1>2. ASSUME NEW r \in Requests, Ask(r) PROVE AloneInv'
  BY <1>2, AskIs, AsideKeeps DEF OneRequest, Aside
<1>3. ASSUME NEW r \in Requests, Serve(r) PROVE AloneInv'
  <2>1. CASE Signed(r)
    BY <2>1, SignedIs, AsideKeeps DEF OneRequest, Aside
  <2>2. CASE FreeName(r)
    <3>1. /\ OneRequest(r) /\ r \in DOMAIN requests /\ requests[r].step = "freeing"
          /\ UNCHANGED <<users, inserts, slips>> /\ requests'[r].step = "taking"
      BY <2>2, FreeIs
    <3>2. requests[r].step \in Aside /\ requests'[r].step \in Aside
      BY <3>1 DEF Aside
    <3> QED
      BY <3>1, <3>2, AsideKeeps DEF OneRequest
  <2>3. CASE TakeName(r)
    BY <2>3, TakeIs, AsideKeeps DEF OneRequest, Aside
  <2>4. CASE ResetUser(r)
    BY <2>4, ResetSlips DEF AloneInv
  <2> QED
    BY <1>3, <2>1, <2>2, <2>3, <2>4, CheckAlone, InsertNameAlone, UndoAlone, ChangeAlone DEF Serve
<1> QED
  BY <1>1, <1>2, <1>3, InsertUserAlone DEF Next

LEMMA KindKeeps ==
  ASSUME StepKinds, NEW r, OneRequest(r),
         \/ requests'[r].step \in {"checking", "naming", "undoing", "done", "failed"}
         \/ requests'[r].step = "signing" /\ requests'[r].kind \in {"register", "signUp"}
         \/ /\ requests'[r].step \in {"changing", "freeing", "taking", "resetting"}
            /\ requests'[r].kind = "rename"
  PROVE  StepKinds'
BY DEF StepKinds, OneRequest

LEMMA NextKinds ==
  ASSUME RequestsOK, StepKinds, [Next]_vars
  PROVE  StepKinds'
<1>1. CASE Chain \/ SyncParticipants \/ (\E r \in Requests : Carry(r)) \/ UNCHANGED vars
  BY <1>1, NothingAsked DEF StepKinds
<1>2. ASSUME NEW r \in Requests, Ask(r) PROVE StepKinds'
  BY <1>2, AskIs, KindKeeps
<1>3. ASSUME NEW r \in Requests, Serve(r) PROVE StepKinds'
  <2>1. CASE Signed(r)
    BY <2>1, SignedIs, KindKeeps
  <2>2. CASE FreeName(r)
    <3>1. requests'[r].kind = "rename"
      BY <2>2, FreeIs DEF OneRequest, StepKinds
    <3> QED
      BY <2>2, <3>1, FreeIs, KindKeeps
  <2>3. CASE TakeName(r)
    BY <2>3, TakeIs, KindKeeps
  <2>4. CASE \E step \in {"naming", "undoing", "done", "failed"} : r \in DOMAIN requests /\ Goto(r, step)
    <3>1. PICK step \in {"naming", "undoing", "done", "failed"} : r \in DOMAIN requests /\ Goto(r, step)
      BY <2>4
    <3>2. OneRequest(r) /\ requests'[r].step = step
      BY <3>1, GotoIs DEF OneRequest
    <3> QED
      BY <3>1, <3>2, KindKeeps
  <2>5. CASE CheckParticipant(r) \/ InsertName(r) \/ UndoUser(r) \/ ResetUser(r)
    <3>1. r \in DOMAIN requests /\ (Goto(r, "naming") \/ Goto(r, "undoing") \/ Goto(r, "done") \/ Goto(r, "failed"))
      BY <2>5, Zenon DEF CheckParticipant, InsertName, UndoUser, ResetUser, Is
    <3> QED
      BY <2>4, <3>1
  <2>6. CASE ChangeUser(r)
    <3>1. r \in DOMAIN requests /\ requests[r].step = "changing"
      BY <2>6 DEF ChangeUser, Is
    <3>2. CASE Goto(r, "failed") \/ Goto(r, "done")
      BY <2>4, <3>1, <3>2
    <3>3. CASE requests[r].key \in DOMAIN users /\ Change(r, requests[r].key)
      <4>1. requests[r].kind = "rename"
        BY <3>1 DEF StepKinds
      <4>2. OneRequest(r) /\ requests'[r].step = "freeing" /\ requests'[r].kind = requests[r].kind
        BY <3>1, <3>3, ChangeIs DEF OneRequest
      <4> QED
        BY <4>1, <4>2, KindKeeps
    <3> QED
      BY <2>6, <3>2, <3>3 DEF ChangeUser
  <2> QED
    BY <1>3, <2>1, <2>2, <2>3, <2>5, <2>6 DEF Serve
<1>4. ASSUME NEW r \in Requests, InsertUser(r) PROVE StepKinds'
  BY <1>4 DEF InsertUser, StepKinds
<1> QED
  BY <1>1, <1>2, <1>3, <1>4 DEF Next

-----------------------------------------------------------------------------
(* Until one of the slips, and for every name: the users who have it, will *)
(* be inserted with it, would have been or are giving it up are no more    *)
(* than the entry of the usernames table and the requests that are to make *)
(* one.                                                                    *)

UsersOf(b) == {k \in DOMAIN users : users[k] = b}
InsertsOf(b) == {r \in inserts : requests[r].name = b}
FreeingOf(b) == {r \in DOMAIN requests : requests[r].step = "freeing" /\ requests[r].old = b}

RenamingTo(b) == {r \in DOMAIN requests :
  requests[r].name = b /\ requests[r].step \in {"freeing", "taking", "resetting"}}
NamingAs(b) == {r \in DOMAIN requests :
  requests[r].name = b /\ requests[r].step \in {"naming", "undoing"}}
Entries(b) == IF b \in usernames THEN 1 ELSE 0

\* Those of them whose insert was lost.
LostOf(b) == {r \in NamingAs(b) : r \notin inserts /\ requests[r].key \notin DOMAIN users}

Balanced(b) ==
  Cardinality(UsersOf(b)) + Cardinality(InsertsOf(b)) + Cardinality(LostOf(b))
      + Cardinality(FreeingOf(b))
    <= Cardinality(RenamingTo(b)) + Cardinality(NamingAs(b)) + Entries(b)

NamesInv == slips = {} => \A b \in Names : Balanced(b)

Finite == IsFiniteSet(DOMAIN users) /\ IsFiniteSet(DOMAIN requests)

LEMMA CountsFinite ==
  ASSUME RequestsOK, Finite, NEW b
  PROVE  /\ IsFiniteSet(UsersOf(b)) /\ Cardinality(UsersOf(b)) \in Nat
         /\ IsFiniteSet(InsertsOf(b)) /\ Cardinality(InsertsOf(b)) \in Nat
         /\ IsFiniteSet(FreeingOf(b)) /\ Cardinality(FreeingOf(b)) \in Nat
         /\ IsFiniteSet(RenamingTo(b)) /\ Cardinality(RenamingTo(b)) \in Nat
         /\ IsFiniteSet(NamingAs(b)) /\ Cardinality(NamingAs(b)) \in Nat
         /\ IsFiniteSet(LostOf(b)) /\ Cardinality(LostOf(b)) \in Nat
         /\ Entries(b) \in {0, 1}
<1>1. UsersOf(b) \subseteq DOMAIN users
  BY DEF UsersOf
<1>2. /\ InsertsOf(b) \subseteq DOMAIN requests /\ FreeingOf(b) \subseteq DOMAIN requests
      /\ RenamingTo(b) \subseteq DOMAIN requests /\ NamingAs(b) \subseteq DOMAIN requests
      /\ LostOf(b) \subseteq DOMAIN requests
  BY DEF InsertsOf, FreeingOf, RenamingTo, NamingAs, LostOf, RequestsOK
<1>3. /\ IsFiniteSet(UsersOf(b)) /\ IsFiniteSet(InsertsOf(b)) /\ IsFiniteSet(FreeingOf(b))
      /\ IsFiniteSet(RenamingTo(b)) /\ IsFiniteSet(NamingAs(b)) /\ IsFiniteSet(LostOf(b))
  BY <1>1, <1>2, FS_Subset DEF Finite
<1> QED
  BY <1>3, FS_CardinalityType DEF Entries

LEMMA OneMore ==
  ASSUME NEW S, IsFiniteSet(S), NEW x, x \notin S, NEW T, T = S \cup {x}
  PROVE  Cardinality(T) = Cardinality(S) + 1
BY FS_AddElement

LEMMA OneLess ==
  ASSUME NEW S, IsFiniteSet(S), NEW x \in S, NEW T, T = S \ {x}
  PROVE  Cardinality(T) = Cardinality(S) - 1
BY FS_RemoveElement

LEMMA FiniteKeeps ==
  ASSUME RequestsOK, Finite, [Next]_vars
  PROVE  Finite'
<1>1. ASSUME NEW k, NEW r, DOMAIN users' \subseteq DOMAIN users \cup {k},
             DOMAIN requests' \subseteq DOMAIN requests \cup {r}
      PROVE  Finite'
  <2>1. IsFiniteSet(DOMAIN users \cup {k}) /\ IsFiniteSet(DOMAIN requests \cup {r})
    BY FS_AddElement DEF Finite
  <2> QED
    BY <1>1, <2>1, FS_Subset DEF Finite
<1>2. CASE Chain \/ SyncParticipants \/ (\E r \in Requests : Carry(r)) \/ UNCHANGED vars
  BY <1>2, NothingAsked DEF Finite
<1>3. ASSUME NEW r \in Requests, Ask(r) PROVE Finite'
  BY <1>1, <1>3, AskIs DEF OneRequest
<1>4. ASSUME NEW r \in Requests, Serve(r) PROVE Finite'
  <2>1. DOMAIN requests' = DOMAIN requests
    BY <1>4, Zenon DEF Serve, Signed, CheckParticipant, InsertName, UndoUser, ChangeUser, Change,
                       FreeName, TakeName, ResetUser, Goto
  <2>2. DOMAIN users' \subseteq DOMAIN users
    <3>1. CASE Signed(r) \/ CheckParticipant(r) \/ InsertName(r) \/ FreeName(r) \/ TakeName(r)
      BY <3>1, Zenon DEF Signed, CheckParticipant, InsertName, FreeName, TakeName, tablesOfUsers
    <3>2. CASE UndoUser(r)
      <4>1. DOMAIN users' = DOMAIN users \ {requests[r].key}
        BY <3>2, Zenon DEF UndoUser
      <4> QED
        BY <4>1
    <3>3. CASE ResetUser(r)
      <4>1. DOMAIN users' = DOMAIN users
        BY <3>3, Zenon DEF ResetUser
      <4> QED
        BY <4>1
    <3>4. CASE ChangeUser(r)
      <4>1. DOMAIN users' = DOMAIN users
        BY <3>4, Zenon DEF ChangeUser, Change
      <4> QED
        BY <4>1
    <3> QED
      BY <1>4, <3>1, <3>2, <3>3, <3>4 DEF Serve
  <2> QED
    BY <2>1, <2>2, <1>1
<1>5. ASSUME NEW r \in Requests, InsertUser(r) PROVE Finite'
  BY <1>1, <1>5 DEF InsertUser
<1> QED
  BY <1>2, <1>3, <1>4, <1>5 DEF Next

(* A request is counted for the step it is at.                             *)
LEMMA CountedAt ==
  ASSUME NEW r, OneRequest(r), NEW b
  PROVE  /\ FreeingOf(b)' = (FreeingOf(b) \ {r}) \cup
              (IF requests'[r].step = "freeing" /\ requests'[r].old = b THEN {r} ELSE {})
         /\ RenamingTo(b)' = (RenamingTo(b) \ {r}) \cup
              (IF requests'[r].name = b /\ requests'[r].step \in {"freeing", "taking", "resetting"}
               THEN {r} ELSE {})
         /\ NamingAs(b)' = (NamingAs(b) \ {r}) \cup
              (IF requests'[r].name = b /\ requests'[r].step \in {"naming", "undoing"}
               THEN {r} ELSE {})
BY DEF OneRequest, FreeingOf, RenamingTo, NamingAs

LEMMA InsertsStay ==
  ASSUME RequestsOK, NEW r, OneRequest(r), UNCHANGED inserts, NEW b
  PROVE  InsertsOf(b)' = InsertsOf(b)
BY DEF OneRequest, InsertsOf, RequestsOK

(* No insert is lost by a step of another kind.                            *)
LEMMA LostStay ==
  ASSUME RequestsOK, NEW r, OneRequest(r), UNCHANGED inserts, DOMAIN users' = DOMAIN users,
         requests'[r].step \notin {"naming", "undoing"},
         r \in DOMAIN requests => requests[r].step \notin {"naming", "undoing"}, NEW b
  PROVE  LostOf(b)' = LostOf(b)
BY DEF OneRequest, LostOf, NamingAs

\* The steps a request is not counted at.
Uncounted == {"signing", "checking", "changing", "done", "failed"}

LEMMA UncountedKeeps ==
  ASSUME RequestsOK, NEW r, OneRequest(r), requests'[r].step \in Uncounted,
         r \in DOMAIN requests => requests[r].step \in Uncounted,
         UNCHANGED <<users, usernames, inserts>>, NEW b, Balanced(b)
  PROVE  Balanced(b)'
<1>1. r \notin FreeingOf(b) /\ r \notin RenamingTo(b) /\ r \notin NamingAs(b)
  BY DEF FreeingOf, RenamingTo, NamingAs, Uncounted
<1>2. FreeingOf(b)' = FreeingOf(b) /\ RenamingTo(b)' = RenamingTo(b) /\ NamingAs(b)' = NamingAs(b)
  BY <1>1, CountedAt DEF Uncounted
<1>3. InsertsOf(b)' = InsertsOf(b) /\ UsersOf(b)' = UsersOf(b) /\ Entries(b)' = Entries(b)
  BY InsertsStay DEF UsersOf, Entries
<1>4. LostOf(b)' = LostOf(b)
  BY LostStay DEF Uncounted
<1> QED
  BY <1>2, <1>3, <1>4 DEF Balanced

(* A user and its name are to be inserted.                                 *)
LEMMA CheckBalanced ==
  ASSUME RequestsOK, Finite, NEW r \in Requests, CheckParticipant(r), slips' = {}, NEW b, Balanced(b)
  PROVE  Balanced(b)'
<1>1. /\ r \in DOMAIN requests /\ requests[r].step = "checking" /\ UNCHANGED <<users, usernames>>
      /\ ~ Creating(requests[r].key)
  <2>1. /\ Is(r, "checking") /\ UNCHANGED <<users, usernames>>
        /\ \E slip : slips' = IF requests[r].key \in DOMAIN users \/ Creating(requests[r].key)
                             THEN slips \cup {slip} ELSE slips
    BY Zenon DEF CheckParticipant, tablesOfUsers
  <2> QED
    BY <2>1 DEF Is
<1>2. CASE Goto(r, "failed") /\ UNCHANGED inserts
  <2>1. OneRequest(r) /\ requests'[r].step = "failed"
    BY <1>1, <1>2, GotoIs DEF OneRequest
  <2> QED
    BY <1>1, <1>2, <2>1, UncountedKeeps DEF Uncounted
<1>3. CASE Goto(r, "naming") /\ inserts' = inserts \cup {r}
  <2>1. /\ OneRequest(r) /\ requests'[r].step = "naming" /\ requests'[r].name = requests[r].name
    BY <1>1, <1>3, GotoIs DEF OneRequest
  <2>2. r \notin inserts /\ inserts \subseteq DOMAIN requests
    BY <1>1 DEF Creating, RequestsOK
  <2>3. r \notin FreeingOf(b) /\ r \notin RenamingTo(b) /\ r \notin NamingAs(b) /\ r \notin InsertsOf(b)
    BY <1>1, <2>2 DEF FreeingOf, RenamingTo, NamingAs, InsertsOf
  <2>4. FreeingOf(b)' = FreeingOf(b) /\ RenamingTo(b)' = RenamingTo(b)
    BY <2>1, <2>3, CountedAt
  <2>5. UsersOf(b)' = UsersOf(b) /\ Entries(b)' = Entries(b) /\ LostOf(b)' = LostOf(b)
    BY <1>1, <1>3, <2>1, <2>2, <2>3 DEF UsersOf, Entries, LostOf, NamingAs, OneRequest
  <2>6. CASE requests[r].name = b
    <3>1. NamingAs(b)' = NamingAs(b) \cup {r}
      BY <2>1, <2>3, <2>6, CountedAt
    <3>2. InsertsOf(b)' = InsertsOf(b) \cup {r}
      BY <1>3, <2>1, <2>2, <2>6 DEF InsertsOf, OneRequest
    <3>3. /\ Cardinality(NamingAs(b)') = Cardinality(NamingAs(b)) + 1
          /\ Cardinality(InsertsOf(b)') = Cardinality(InsertsOf(b)) + 1
      BY <2>3, <3>1, <3>2, CountsFinite, OneMore
    <3> QED
      BY <2>4, <2>5, <3>3, CountsFinite DEF Balanced
  <2>7. CASE requests[r].name # b
    <3>1. NamingAs(b)' = NamingAs(b)
      BY <2>1, <2>3, <2>7, CountedAt
    <3>2. InsertsOf(b)' = InsertsOf(b)
      BY <1>3, <2>1, <2>2, <2>7 DEF InsertsOf, OneRequest
    <3> QED
      BY <2>4, <2>5, <3>1, <3>2 DEF Balanced
  <2> QED
    BY <2>6, <2>7
<1> QED
  BY <1>2, <1>3, Zenon DEF CheckParticipant

(* The key has no user, so there is one more; or it is lost.               *)
LEMMA InsertUserBalanced ==
  ASSUME RequestsOK, Finite, Alone, NEW r \in Requests, InsertUser(r), NEW b, Balanced(b)
  PROVE  Balanced(b)'
<1> DEFINE k == requests[r].key
           n == requests[r].name
<1>1. /\ r \in inserts /\ inserts' = inserts \ {r} /\ UNCHANGED <<requests, usernames>>
      /\ r \in Creators /\ k \notin DOMAIN users
      /\ \A q \in Creators : requests[q].key = k => q = r
  BY DEF InsertUser, Alone, Creators, RequestsOK
<1>2. \/ /\ DOMAIN users' = DOMAIN users \cup {k} /\ users'[k] = n
         /\ \A u \in DOMAIN users : users'[u] = users[u]
      \/ users' = users
  BY <1>1 DEF InsertUser
<1>3. /\ FreeingOf(b)' = FreeingOf(b) /\ RenamingTo(b)' = RenamingTo(b)
      /\ NamingAs(b)' = NamingAs(b) /\ Entries(b)' = Entries(b)
  BY <1>1 DEF FreeingOf, RenamingTo, NamingAs, Entries
<1>4. InsertsOf(b)' = InsertsOf(b) \ {r} /\ (r \in InsertsOf(b) <=> n = b)
  BY <1>1 DEF InsertsOf
<1>5. /\ n = b => Cardinality(InsertsOf(b)') = Cardinality(InsertsOf(b)) - 1
      /\ n # b => InsertsOf(b)' = InsertsOf(b)
  BY <1>4, CountsFinite, OneLess
<1>6. NamingAs(b) \subseteq Creators /\ r \notin LostOf(b) /\ (r \in NamingAs(b) => n = b)
  BY <1>1 DEF NamingAs, LostOf, Creators, Is
<1> HIDE DEF k, n
<1>7. CASE users' = users
  <2>1. LostOf(b)' = LostOf(b) \/ (n = b /\ LostOf(b)' = LostOf(b) \cup {r})
    BY <1>1, <1>3, <1>6, <1>7 DEF LostOf, k
  <2>2. \/ LostOf(b)' = LostOf(b)
        \/ n = b /\ Cardinality(LostOf(b)') = Cardinality(LostOf(b)) + 1
    BY <1>6, <2>1, CountsFinite, OneMore
  <2>3. UsersOf(b)' = UsersOf(b)
    BY <1>7 DEF UsersOf
  <2> QED
    BY <1>3, <1>5, <2>2, <2>3, CountsFinite DEF Balanced
<1>8. CASE /\ DOMAIN users' = DOMAIN users \cup {k} /\ users'[k] = n
           /\ \A u \in DOMAIN users : users'[u] = users[u]
  <2>1. LostOf(b)' = LostOf(b)
    <3>1. \A q \in NamingAs(b) : q # r => requests[q].key # k
      BY <1>1, <1>6
    <3>2. r \notin LostOf(b)'
      BY <1>1, <1>8 DEF LostOf, k
    <3> QED
      BY <1>1, <1>3, <1>6, <1>8, <3>1, <3>2 DEF LostOf
  <2>2. /\ k \notin UsersOf(b)
        /\ UsersOf(b)' = IF n = b THEN UsersOf(b) \cup {k} ELSE UsersOf(b)
    BY <1>1, <1>8 DEF UsersOf
  <2>3. n = b => Cardinality(UsersOf(b)') = Cardinality(UsersOf(b)) + 1
    BY <2>2, CountsFinite, OneMore
  <2> QED
    BY <1>3, <1>5, <2>1, <2>2, <2>3, CountsFinite DEF Balanced
<1> QED
  BY <1>2, <1>7, <1>8

(* The request makes the entry, or goes on to undo its user.               *)
LEMMA InsertNameBalanced ==
  ASSUME RequestsOK, Finite, NEW r \in Requests, InsertName(r), NEW b, Balanced(b)
  PROVE  Balanced(b)'
<1> DEFINE n == requests[r].name
<1>1. /\ r \in DOMAIN requests /\ requests[r].step = "naming" /\ UNCHANGED <<users, inserts>>
      /\ usernames' = usernames \cup {n}
      /\ Goto(r, IF n \in usernames THEN "undoing" ELSE "done")
  BY DEF InsertName, Is
<1>2. /\ OneRequest(r) /\ requests'[r].name = n
      /\ requests'[r].step = IF n \in usernames THEN "undoing" ELSE "done"
  BY <1>1, GotoIs DEF OneRequest
<1>3. r \notin FreeingOf(b) /\ r \notin RenamingTo(b) /\ (r \in NamingAs(b) <=> n = b)
  BY <1>1 DEF FreeingOf, RenamingTo, NamingAs
<1> HIDE DEF n
<1>4. /\ FreeingOf(b)' = FreeingOf(b) /\ RenamingTo(b)' = RenamingTo(b)
      /\ InsertsOf(b)' = InsertsOf(b) /\ UsersOf(b)' = UsersOf(b)
  BY <1>1, <1>2, <1>3, CountedAt, InsertsStay DEF UsersOf
<1>5. NamingAs(b)' \subseteq NamingAs(b)
  BY <1>2, <1>3, CountedAt
<1>6. LostOf(b)' \subseteq LostOf(b)
  <2>1. \A q \in NamingAs(b) : requests'[q].key = requests[q].key
    BY <1>1, <1>2 DEF OneRequest, NamingAs
  <2> QED
    BY <1>1, <1>5, <2>1 DEF LostOf
<1>7. Cardinality(LostOf(b)') \in Nat /\ Cardinality(LostOf(b)') <= Cardinality(LostOf(b))
  BY <1>6, CountsFinite, FS_Subset, FS_CardinalityType
<1>8. CASE n = b /\ n \notin usernames
  <2>1. NamingAs(b)' = NamingAs(b) \ {r}
    BY <1>2, <1>8, CountedAt
  <2>2. Cardinality(NamingAs(b)') = Cardinality(NamingAs(b)) - 1
    BY <1>3, <1>8, <2>1, CountsFinite, OneLess
  <2>3. Entries(b) = 0 /\ Entries(b)' = 1
    BY <1>1, <1>8 DEF Entries
  <2> QED
    BY <1>4, <1>7, <2>2, <2>3, CountsFinite DEF Balanced
<1>9. CASE ~ (n = b /\ n \notin usernames)
  <2>1. NamingAs(b)' = NamingAs(b)
    BY <1>2, <1>3, <1>9, CountedAt
  <2>2. Entries(b)' = Entries(b)
    BY <1>1, <1>9 DEF Entries
  <2> QED
    BY <1>4, <1>7, <2>1, <2>2, CountsFinite DEF Balanced
<1> QED
  BY <1>8, <1>9

(* The user is the request's own, or there is none.                        *)
LEMMA UndoBalanced ==
  ASSUME RequestsOK, Finite, Alone, NEW r \in Requests, UndoUser(r), slips' = {}, NEW b, Balanced(b)
  PROVE  Balanced(b)'
<1> DEFINE k == requests[r].key
           n == requests[r].name
<1>1. /\ r \in DOMAIN requests /\ requests[r].step = "undoing" /\ UNCHANGED <<usernames, inserts>>
      /\ DOMAIN users' = DOMAIN users \ {k}
      /\ \A u \in DOMAIN users' : users'[u] = users[u]
      /\ r \notin inserts /\ Goto(r, "failed")
  <2>1. /\ Is(r, "undoing") /\ UNCHANGED <<usernames, inserts>> /\ Goto(r, "failed")
        /\ users' = [u \in DOMAIN users \ {k} |-> users[u]]
        /\ \E slip : slips' = IF r \in inserts THEN slips \cup {slip} ELSE slips
    BY Zenon DEF UndoUser
  <2> QED
    BY <2>1 DEF Is
<1>2. OneRequest(r) /\ requests'[r].step = "failed"
  BY <1>1, GotoIs DEF OneRequest
<1>3. /\ r \in Creators /\ NamingAs(b) \subseteq Creators
      /\ k \in DOMAIN users => users[k] = n
      /\ \A q \in Creators : requests[q].key = k => q = r
  BY <1>1 DEF Alone, Creators, NamingAs, Is
<1>4. r \notin FreeingOf(b) /\ r \notin RenamingTo(b) /\ (r \in NamingAs(b) <=> n = b)
  BY <1>1 DEF FreeingOf, RenamingTo, NamingAs
<1> HIDE DEF n, k
<1>5. /\ FreeingOf(b)' = FreeingOf(b) /\ RenamingTo(b)' = RenamingTo(b)
      /\ InsertsOf(b)' = InsertsOf(b) /\ Entries(b)' = Entries(b)
      /\ NamingAs(b)' = NamingAs(b) \ {r}
  BY <1>1, <1>2, <1>4, CountedAt, InsertsStay DEF Entries
<1>6. UsersOf(b)' = UsersOf(b) \ {k} /\ (k \in UsersOf(b) <=> k \in DOMAIN users /\ n = b)
  BY <1>1, <1>3 DEF UsersOf
<1>7. LostOf(b)' = LostOf(b) \ {r} /\ (r \in LostOf(b) <=> k \notin DOMAIN users /\ n = b)
  <2>1. \A q \in NamingAs(b) : q # r => requests'[q] = requests[q] /\ requests[q].key # k
    BY <1>2, <1>3 DEF OneRequest, NamingAs
  <2>2. r \in LostOf(b) <=> k \notin DOMAIN users /\ n = b
    BY <1>1, <1>4 DEF LostOf, k
  <2> QED
    BY <1>1, <1>5, <2>1, <2>2 DEF LostOf
<1>8. CASE n = b
  <2>1. Cardinality(NamingAs(b)') = Cardinality(NamingAs(b)) - 1
    BY <1>4, <1>5, <1>8, CountsFinite, OneLess
  <2>2. \/ /\ Cardinality(UsersOf(b)') = Cardinality(UsersOf(b)) - 1
           /\ LostOf(b)' = LostOf(b)
        \/ /\ Cardinality(LostOf(b)') = Cardinality(LostOf(b)) - 1
           /\ UsersOf(b)' = UsersOf(b)
    BY <1>6, <1>7, <1>8, CountsFinite, OneLess
  <2> QED
    BY <1>5, <2>1, <2>2, CountsFinite DEF Balanced
<1>9. CASE n # b
  <2>1. UsersOf(b)' = UsersOf(b) /\ NamingAs(b)' = NamingAs(b) /\ LostOf(b)' = LostOf(b)
    BY <1>4, <1>5, <1>6, <1>7, <1>9
  <2> QED
    BY <1>5, <2>1 DEF Balanced
<1> QED
  BY <1>8, <1>9

(* The user has the new name; the old one is to be freed, the new one to   *)
(* be taken.                                                               *)
LEMMA ChangeBalanced ==
  ASSUME RequestsOK, Finite, NEW r \in DOMAIN requests, requests[r].step = "changing",
         NEW k \in DOMAIN users, Change(r, k), UNCHANGED <<usernames, inserts>>, NEW b, Balanced(b)
  PROVE  Balanced(b)'
<1> DEFINE n == requests[r].name
           old == users[k]
<1>1. /\ OneRequest(r) /\ requests'[r].step = "freeing" /\ requests'[r].name = n
      /\ requests'[r].old = old
      /\ DOMAIN users' = DOMAIN users /\ users'[k] = n
      /\ \A l \in DOMAIN users : l # k => users'[l] = users[l]
  BY ChangeIs DEF OneRequest
<1>2. r \notin FreeingOf(b) /\ r \notin RenamingTo(b) /\ r \notin NamingAs(b)
  BY DEF FreeingOf, RenamingTo, NamingAs
<1>3. k \in UsersOf(b) <=> old = b
  BY DEF UsersOf
<1>4. UsersOf(b)' = IF n = b THEN UsersOf(b) \cup {k} ELSE UsersOf(b) \ {k}
  BY <1>1 DEF UsersOf
<1> HIDE DEF n, old
<1>5. /\ FreeingOf(b)' = IF old = b THEN FreeingOf(b) \cup {r} ELSE FreeingOf(b)
      /\ RenamingTo(b)' = IF n = b THEN RenamingTo(b) \cup {r} ELSE RenamingTo(b)
      /\ NamingAs(b)' = NamingAs(b) /\ InsertsOf(b)' = InsertsOf(b) /\ Entries(b)' = Entries(b)
  BY <1>1, <1>2, CountedAt, InsertsStay DEF Entries
<1>6. LostOf(b)' = LostOf(b)
  BY <1>1, LostStay
<1>7. /\ old = b => Cardinality(FreeingOf(b)') = Cardinality(FreeingOf(b)) + 1
      /\ n = b => Cardinality(RenamingTo(b)') = Cardinality(RenamingTo(b)) + 1
  BY <1>2, <1>5, CountsFinite, OneMore
<1>8. /\ (n = b /\ old # b) => Cardinality(UsersOf(b)') = Cardinality(UsersOf(b)) + 1
      /\ (n # b /\ old = b) => Cardinality(UsersOf(b)') = Cardinality(UsersOf(b)) - 1
  BY <1>3, <1>4, CountsFinite, OneMore, OneLess
<1>9. (n = b <=> old = b) => UsersOf(b)' = UsersOf(b)
  BY <1>3, <1>4
<1> QED
  BY <1>5, <1>6, <1>7, <1>8, <1>9, CountsFinite DEF Balanced

LEMMA FreeBalanced ==
  ASSUME RequestsOK, Finite, NEW r \in Requests, FreeName(r), NEW b, Balanced(b)
  PROVE  Balanced(b)'
<1> DEFINE old == requests[r].old
<1>1. /\ OneRequest(r) /\ r \in DOMAIN requests /\ requests[r].step = "freeing"
      /\ UNCHANGED <<users, inserts, slips>> /\ requests'[r].step = "taking"
      /\ usernames' = usernames \ {old} /\ requests'[r].name = requests[r].name
  BY FreeIs DEF OneRequest
<1>2. /\ r \in FreeingOf(b) <=> old = b
      /\ r \in RenamingTo(b) <=> requests[r].name = b
      /\ r \notin NamingAs(b)
  BY <1>1 DEF FreeingOf, RenamingTo, NamingAs
<1> HIDE DEF old
<1>3. /\ FreeingOf(b)' = FreeingOf(b) \ {r} /\ RenamingTo(b)' = RenamingTo(b)
      /\ NamingAs(b)' = NamingAs(b) /\ InsertsOf(b)' = InsertsOf(b) /\ UsersOf(b)' = UsersOf(b)
      /\ LostOf(b)' = LostOf(b)
  BY <1>1, <1>2, CountedAt, InsertsStay, LostStay DEF UsersOf
<1>4. CASE old = b
  <2>1. Cardinality(FreeingOf(b)') = Cardinality(FreeingOf(b)) - 1
    BY <1>2, <1>3, <1>4, CountsFinite, OneLess
  <2>2. Entries(b)' = 0 /\ Entries(b) <= 1
    BY <1>1, <1>4 DEF Entries
  <2> QED
    BY <1>3, <2>1, <2>2, CountsFinite DEF Balanced
<1>5. CASE old # b
  <2>1. FreeingOf(b)' = FreeingOf(b) /\ Entries(b)' = Entries(b)
    BY <1>1, <1>2, <1>3, <1>5 DEF Entries
  <2> QED
    BY <1>3, <2>1 DEF Balanced
<1> QED
  BY <1>4, <1>5

LEMMA TakeBalanced ==
  ASSUME RequestsOK, StepKinds, Finite, NEW r \in Requests, TakeName(r), NEW b, Balanced(b)
  PROVE  Balanced(b)'
<1> DEFINE n == requests[r].name
<1>1. /\ OneRequest(r) /\ r \in DOMAIN requests /\ requests[r].step = "taking"
      /\ UNCHANGED <<users, inserts, slips>> /\ requests'[r].name = n
      /\ \/ n \in usernames /\ requests'[r].step = "resetting" /\ usernames' = usernames
         \/ n \notin usernames /\ requests'[r].step = "done" /\ usernames' = usernames \cup {n}
  BY TakeIs DEF OneRequest
<1>2. /\ r \in RenamingTo(b) <=> n = b
      /\ r \notin FreeingOf(b) /\ r \notin NamingAs(b)
  BY <1>1 DEF FreeingOf, RenamingTo, NamingAs
<1> HIDE DEF n
<1>3. /\ FreeingOf(b)' = FreeingOf(b) /\ NamingAs(b)' = NamingAs(b)
      /\ InsertsOf(b)' = InsertsOf(b) /\ UsersOf(b)' = UsersOf(b) /\ LostOf(b)' = LostOf(b)
  BY <1>1, <1>2, CountedAt, InsertsStay, LostStay DEF UsersOf
<1>4. CASE n = b /\ n \notin usernames
  <2>1. RenamingTo(b)' = RenamingTo(b) \ {r}
    BY <1>1, <1>4, CountedAt
  <2>2. Cardinality(RenamingTo(b)') = Cardinality(RenamingTo(b)) - 1
    BY <1>2, <1>4, <2>1, CountsFinite, OneLess
  <2>3. Entries(b) = 0 /\ Entries(b)' = 1
    BY <1>1, <1>4 DEF Entries
  <2> QED
    BY <1>3, <2>2, <2>3, CountsFinite DEF Balanced
<1>5. CASE ~ (n = b /\ n \notin usernames)
  <2>1. RenamingTo(b)' = RenamingTo(b)
    BY <1>1, <1>2, <1>5, CountedAt
  <2>2. Entries(b)' = Entries(b)
    BY <1>1, <1>5 DEF Entries
  <2> QED
    BY <1>3, <2>1, <2>2 DEF Balanced
<1> QED
  BY <1>4, <1>5

(* Whatever has happened that breaks the tables apart, is remembered.      *)
LEMMA SlipsStay ==
  ASSUME [Next]_vars, slips' = {}
  PROVE  slips = {}
<1>1. \/ slips' = slips
      \/ \E c \in BOOLEAN : \E slip : slips' = IF c THEN slips \cup {slip} ELSE slips
      \/ \E slip : slips' = slips \cup {slip}
  <2>1. CASE Chain \/ SyncParticipants \/ (\E r \in Requests : Carry(r)) \/ UNCHANGED vars
    BY <2>1, NothingAsked
  <2>2. ASSUME NEW r \in Requests, Ask(r) PROVE slips' = slips
    BY <2>2 DEF Ask, Register, SignUp, CreateUser, Rename
  <2>3. ASSUME NEW r \in Requests, InsertUser(r) PROVE slips' = slips
    BY <2>3 DEF InsertUser
  <2>4. ASSUME NEW r \in Requests, Serve(r)
        PROVE  slips' = slips \/ \E slip : slips' = slips \cup {slip}
    BY <2>4, Zenon DEF Serve, Signed, CheckParticipant, InsertName, UndoUser, ChangeUser, Change,
                       FreeName, TakeName, ResetUser
  <2> QED
    BY <2>1, <2>2, <2>3, <2>4 DEF Next
<1> QED
  BY <1>1

LEMMA NextBalanced ==
  ASSUME RequestsOK, StepKinds, Finite, AloneInv, NamesInv, [Next]_vars
  PROVE  NamesInv'
<1> SUFFICES ASSUME slips' = {}, NEW b \in Names PROVE Balanced(b)'
  BY DEF NamesInv
<1>1. slips = {} /\ Balanced(b) /\ Alone
  BY SlipsStay DEF NamesInv, AloneInv
<1>2. CASE Chain \/ SyncParticipants \/ (\E r \in Requests : Carry(r)) \/ UNCHANGED vars
  <2>1. UNCHANGED <<users, usernames, requests, inserts>>
    BY <1>2, NothingAsked
  <2> QED
    BY <1>1, <2>1
    DEF Balanced, UsersOf, InsertsOf, LostOf, FreeingOf, RenamingTo, NamingAs, Entries
<1>3. ASSUME NEW r \in Requests, Ask(r) PROVE Balanced(b)'
  BY <1>1, <1>3, AskIs, UncountedKeeps DEF Uncounted
<1>4. ASSUME NEW r \in Requests, Serve(r) PROVE Balanced(b)'
  <2>1. CASE Signed(r)
    BY <1>1, <2>1, SignedIs, UncountedKeeps DEF Uncounted
  <2>2. CASE ChangeUser(r)
    <3>1. r \in DOMAIN requests /\ requests[r].step = "changing" /\ UNCHANGED <<usernames, inserts>>
      BY <2>2 DEF ChangeUser, Is
    <3>2. CASE (Goto(r, "failed") \/ Goto(r, "done")) /\ UNCHANGED users
      <4>1. OneRequest(r) /\ requests'[r].step \in {"failed", "done"}
        BY <3>1, <3>2, GotoIs DEF OneRequest
      <4> QED
        BY <1>1, <3>1, <3>2, <4>1, UncountedKeeps DEF Uncounted
    <3>3. CASE requests[r].key \in DOMAIN users /\ Change(r, requests[r].key)
      BY <1>1, <3>1, <3>3, ChangeBalanced
    <3> QED
      BY <2>2, <3>2, <3>3 DEF ChangeUser
  <2>3. CASE ResetUser(r)
    BY <2>3, ResetSlips
  <2> QED
    BY <1>1, <1>4, <2>1, <2>2, <2>3, CheckBalanced, InsertNameBalanced, UndoBalanced, FreeBalanced,
       TakeBalanced
    DEF Serve
<1>5. ASSUME NEW r \in Requests, InsertUser(r) PROVE Balanced(b)'
  BY <1>1, <1>5, InsertUserBalanced
<1> QED
  BY <1>2, <1>3, <1>4, <1>5 DEF Next

-----------------------------------------------------------------------------
StepsInv == RequestsOK /\ StepKinds /\ Finite /\ AloneInv /\ NamesInv

LEMMA StepsHold == Spec => []StepsInv
<1>1. Init => StepsInv
  <2> SUFFICES ASSUME Init PROVE StepsInv
    OBVIOUS
  <2>1. /\ users = [k \in {} |-> 0] /\ requests = [r \in {} |-> 0]
        /\ usernames = {} /\ inserts = {} /\ slips = {}
    BY DEF Init
  <2>2. DOMAIN users = {} /\ DOMAIN requests = {}
    BY <2>1
  <2>3. RequestsOK /\ StepKinds
    BY <2>2, InitHolds DEF RequestsInv, StepKinds
  <2>4. Finite
    BY <2>2, FS_EmptySet DEF Finite
  <2>5. AloneInv
    BY <2>1, <2>2 DEF AloneInv, Alone, Creators
  <2>6. ASSUME NEW b PROVE Balanced(b)
    <3>1. /\ UsersOf(b) = {} /\ InsertsOf(b) = {} /\ FreeingOf(b) = {}
          /\ RenamingTo(b) = {} /\ NamingAs(b) = {} /\ LostOf(b) = {} /\ Entries(b) = 0
      BY <2>1, <2>2 DEF UsersOf, InsertsOf, LostOf, FreeingOf, RenamingTo, NamingAs, Entries
    <3> QED
      BY <3>1, FS_EmptySet DEF Balanced
  <2> QED
    BY <2>3, <2>4, <2>5, <2>6 DEF StepsInv, NamesInv
<1>2. RequestsOK' /\ StepsInv /\ [Next]_vars => StepsInv'
  BY NextKinds, FiniteKeeps, NextAlone, NextBalanced DEF StepsInv
<1>3. AccountsInv => RequestsOK
  BY DEF AccountsInv, TypeOK, RequestsOK
<1> QED
  BY <1>1, <1>2, <1>3, AccountsInvariant, PTL DEF Spec

(* Whenever no request is in progress every user's name is reserved, and   *)
(* his alone: for any number of requests, however they overlapped and      *)
(* whichever inserts were lost, until one of the four slips.               *)
THEOREM TablesStayInStep == Spec => []TablesInStep
<1>1. StepsInv => TablesInStep
  <2> SUFFICES ASSUME StepsInv, Quiet, slips = {}
               PROVE  UniqueNames /\ \A k \in DOMAIN users : users[k] \in usernames
    BY DEF TablesInStep
  <2>1. RequestsOK /\ Finite /\ \A b \in Names : Balanced(b)
    BY DEF StepsInv, NamesInv
  <2>2. \A r \in DOMAIN requests : requests[r].step \in {"done", "failed"}
    BY DEF Quiet, Ended, Is
  <2>3. ASSUME NEW b \in Names
        PROVE  Cardinality(UsersOf(b)) <= Entries(b)
    <3>1. /\ InsertsOf(b) = {} /\ FreeingOf(b) = {} /\ RenamingTo(b) = {} /\ NamingAs(b) = {}
          /\ Cardinality(LostOf(b)) \in Nat
      BY <2>1, <2>2, CountsFinite DEF Quiet, InsertsOf, FreeingOf, RenamingTo, NamingAs
    <3>2. /\ Cardinality(InsertsOf(b)) = 0 /\ Cardinality(FreeingOf(b)) = 0
          /\ Cardinality(RenamingTo(b)) = 0 /\ Cardinality(NamingAs(b)) = 0
      BY <3>1, FS_EmptySet
    <3>3. Cardinality(UsersOf(b)) \in Nat /\ Entries(b) \in {0, 1}
      BY <2>1, CountsFinite
    <3> QED
      BY <2>1, <3>1, <3>2, <3>3 DEF Balanced
  <2>4. ASSUME NEW k \in DOMAIN users
        PROVE  users[k] \in Names /\ k \in UsersOf(users[k]) /\ Cardinality(UsersOf(users[k])) >= 1
    <3>1. users[k] \in Names /\ k \in UsersOf(users[k])
      BY <2>1 DEF RequestsOK, UsersOf
    <3>2. IsFiniteSet(UsersOf(users[k])) /\ Cardinality(UsersOf(users[k])) \in Nat
      BY <2>1, CountsFinite
    <3>3. Cardinality(UsersOf(users[k])) # 0
      BY <3>1, <3>2, FS_EmptySet
    <3> QED
      BY <3>1, <3>2, <3>3
  <2>5. ASSUME NEW k \in DOMAIN users
        PROVE  users[k] \in usernames
    <3>1. Cardinality(UsersOf(users[k])) \in Nat /\ Cardinality(UsersOf(users[k])) >= 1
      BY <2>1, <2>4, CountsFinite
    <3>2. Cardinality(UsersOf(users[k])) <= Entries(users[k])
      BY <2>3, <2>4
    <3> QED
      BY <3>1, <3>2 DEF Entries
  <2>6. ASSUME NEW k \in DOMAIN users, NEW l \in DOMAIN users, k # l, users[k] = users[l]
        PROVE  FALSE
    <3> DEFINE b == users[k]
               rest == UsersOf(b) \ {k}
    <3>1. k \in UsersOf(b) /\ l \in rest /\ b \in Names
      BY <2>4, <2>6
    <3> HIDE DEF b
    <3>2. /\ IsFiniteSet(UsersOf(b)) /\ Cardinality(UsersOf(b)) \in Nat
          /\ Cardinality(UsersOf(b)) <= 1
      BY <2>1, <2>3, <3>1, CountsFinite DEF Entries
    <3>3. IsFiniteSet(rest) /\ Cardinality(rest) = Cardinality(UsersOf(b)) - 1
      BY <3>1, <3>2, FS_RemoveElement
    <3>4. rest = {}
      <4>1. Cardinality(rest) \in Nat
        BY <3>3, FS_CardinalityType
      <4>2. Cardinality(rest) = 0
        BY <3>2, <3>3, <4>1
      <4> QED
        BY <3>3, <4>2, FS_EmptySet
    <3> QED
      BY <3>1, <3>4
  <2> QED
    BY <2>5, <2>6 DEF UniqueNames
<1> QED
  BY <1>1, StepsHold, PTL
=============================================================================
