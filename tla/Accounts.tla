------------------------------ MODULE Accounts ------------------------------
(***************************************************************************)
(* Signing up, and the user accounts of the server.  A sign-up             *)
(* (server/transaction/participants.js) registers a participant on the     *)
(* chain and then posts a user to the server's own route /users.  Users    *)
(* are kept in two tables of the database (server/db/users.js): users, by  *)
(* public key, and usernames.  No query changes both, and a request keeps  *)
(* them in step by undoing its first step when its second fails.           *)
(***************************************************************************)
EXTENDS BatchSubmit

CONSTANTS
  Keys,       \* public keys
  Names,      \* user names
  Asks        \* request number -> what it may ask for

\* A batch belongs to the request that submits it, and registers one key.
\* Requests are numbered as they come in.
ASSUME ContentAssumption == Content = Keys
ASSUME RequestsAssumption == BatchIds \subseteq Nat

Requests == BatchIds
Kinds == {"register", "signUp", "create", "rename"}

ASSUME AsksAssumption ==
  \A r \in Requests : Asks[r] \subseteq [kind: Kinds, key: Keys, name: Names]

VARIABLES
  registered,   \* keys with a participant on the chain
  known,        \* those whose participant the database has
  users,        \* the users table: key -> user name
  usernames,    \* the usernames table
  requests,     \* request id -> what it asks for, and how far it is
  inserts,      \* requests whose insert into users is still to be carried out
  slips         \* what has happened that breaks the tables apart

tablesOfUsers == <<users, usernames>>
vars == <<batches, registered, known, users, usernames, requests, inserts, slips>>

Steps == {"signing", "checking", "naming", "undoing", "changing", "freeing",
          "taking", "resetting", "done", "failed"}
Request == [kind: Kinds, key: Keys, name: Names, step: Steps, old: Names]
Slips == {"created twice", "undone too early", "changed too early", "rename failed"}

TypeOK ==
  /\ BatchesOK
  /\ known \subseteq registered /\ registered \subseteq Keys
  /\ DOMAIN users \subseteq Keys /\ \A k \in DOMAIN users : users[k] \in Names
  /\ usernames \subseteq Names
  /\ DOMAIN requests \subseteq Requests
  /\ \A r \in DOMAIN requests : requests[r] \in Request
  /\ inserts \subseteq DOMAIN requests /\ slips \subseteq Slips

Init ==
  /\ InitBatches
  /\ registered = {} /\ known = {}
  /\ users = [k \in {} |-> 0] /\ usernames = {}
  /\ requests = [r \in {} |-> 0] /\ inserts = {} /\ slips = {}

-----------------------------------------------------------------------------
(* Requests. *)

Start(r, kind, k, n, step) ==
  /\ r \notin DOMAIN requests /\ \A q \in Requests : q < r => q \in DOMAIN requests
  /\ [kind |-> kind, key |-> k, name |-> n] \in Asks[r]
  /\ requests' = [q \in DOMAIN requests \cup {r} |->
       IF q = r THEN [kind |-> kind, key |-> k, name |-> n, step |-> step, old |-> n]
       ELSE requests[q]]

Is(r, step) == r \in DOMAIN requests /\ requests[r].step = step

Goto(r, step) == requests' = [requests EXCEPT ![r].step = step]

(* A client registers by a transaction of its own, and does not wait; or   *)
(* it lets the server do that and create the user; or it only asks for the *)
(* user.  The holder of a user's token changes its name.                   *)
Register(r, k, n) ==
  /\ Start(r, "register", k, n, "signing")
  /\ Submit(r, k, FALSE)
  /\ UNCHANGED <<registered, known, tablesOfUsers, inserts, slips>>

SignUp(r, k, n) ==
  /\ Start(r, "signUp", k, n, "signing")
  /\ Submit(r, k, TRUE)
  /\ UNCHANGED <<registered, known, tablesOfUsers, inserts, slips>>

CreateUser(r, k, n) ==
  /\ Start(r, "create", k, n, "checking")
  /\ UNCHANGED <<batches, registered, known, tablesOfUsers, inserts, slips>>

Rename(r, k, n) ==
  /\ k \in DOMAIN users
  /\ Start(r, "rename", k, n, "changing")
  /\ UNCHANGED <<batches, registered, known, tablesOfUsers, inserts, slips>>

-----------------------------------------------------------------------------
(* The chain and its copy. *)

CommitParticipant(r) ==
  /\ Commit(r)
  /\ batches[r].txns \notin registered
  /\ registered' = registered \cup {batches[r].txns}
  /\ UNCHANGED <<known, tablesOfUsers, requests, inserts, slips>>

InvalidateParticipant(r) ==
  /\ Invalidate(r)
  /\ batches[r].txns \in registered
  /\ UNCHANGED <<registered, known, tablesOfUsers, requests, inserts, slips>>

SyncParticipants ==
  /\ known' = registered
  /\ UNCHANGED <<batches, registered, tablesOfUsers, requests, inserts, slips>>

Carry(r) ==
  /\ Carried(r)
  /\ UNCHANGED <<registered, known, tablesOfUsers, requests, inserts, slips>>

-----------------------------------------------------------------------------
(* Creating a user. *)

SignedOrFail(r) == \* mutant: a failed submission ends the sign-up at once
  /\ Is(r, "signing") /\ Answered(r)
  /\ requests[r].kind = "signUp" /\ batches[r].answer = "ok" /\ Goto(r, "checking")
  /\ UNCHANGED <<batches, registered, known, tablesOfUsers, inserts, slips>>

(* submitTxns swallows errors: the sign-up goes on whatever the answer.    *)
Signed(r) ==
  /\ Is(r, "signing") /\ Answered(r)
  /\ Goto(r, IF requests[r].kind = "signUp" THEN "checking" ELSE "done")
  /\ UNCHANGED <<batches, registered, known, tablesOfUsers, inserts, slips>>

CheckNothing(r) == \* mutant: the key need not be a participant's
  /\ Is(r, "checking")
  /\ Goto(r, "naming") /\ inserts' = inserts \cup {r}
  /\ UNCHANGED <<batches, registered, known, tablesOfUsers, slips>>

\* A user for key k is being created: some query of it is to come.
Creating(k) == \E r \in DOMAIN requests :
  requests[r].key = k /\ (r \in inserts \/ Is(r, "naming") \/ Is(r, "undoing"))

(* participants.fetch finds the key's participant or fails.  Then both     *)
(* inserts are sent: the promise of the first is not returned.             *)
CheckParticipant(r) ==
  /\ Is(r, "checking")
  /\ IF requests[r].key \in known
     THEN Goto(r, "naming") /\ inserts' = inserts \cup {r}
     ELSE Goto(r, "failed") /\ UNCHANGED inserts
  /\ slips' = IF requests[r].key \in DOMAIN users \/ Creating(requests[r].key)
              THEN slips \cup {"created twice"} ELSE slips
  /\ UNCHANGED <<batches, registered, known, tablesOfUsers>>

InsertByRequest(r) == \* mutant: the user is stored under the request's number
  /\ r \in inserts
  /\ inserts' = inserts \ {r}
  /\ users' = [u \in DOMAIN users \cup {r} |->
                 IF u \in DOMAIN users THEN users[u] ELSE requests[r].name]
  /\ UNCHANGED <<batches, registered, known, usernames, requests, slips>>

(* If the key has a user already the insert fails, and it may fail in the  *)
(* database for a reason of its own: nobody hears of it.                   *)
InsertUser(r) ==
  /\ r \in inserts
  /\ inserts' = inserts \ {r}
  /\ \/ users' = [u \in DOMAIN users \cup {requests[r].key} |->
                    IF u \in DOMAIN users THEN users[u] ELSE requests[r].name]
     \/ UNCHANGED users
  /\ UNCHANGED <<batches, registered, known, usernames, requests, slips>>

InsertName(r) ==
  /\ Is(r, "naming")
  /\ usernames' = usernames \cup {requests[r].name}
  /\ Goto(r, IF requests[r].name \in usernames THEN "undoing" ELSE "done")
  /\ UNCHANGED <<batches, registered, known, users, inserts, slips>>

UndoNothing(r) == \* mutant: the user stays when its name is refused
  /\ Is(r, "undoing")
  /\ Goto(r, "failed")
  /\ UNCHANGED <<batches, registered, known, tablesOfUsers, inserts, slips>>

(* The name is taken: whatever user the key has is deleted.                *)
UndoUser(r) ==
  /\ Is(r, "undoing")
  /\ users' = [u \in DOMAIN users \ {requests[r].key} |-> users[u]]
  /\ slips' = IF r \in inserts THEN slips \cup {"undone too early"} ELSE slips
  /\ Goto(r, "failed")
  /\ UNCHANGED <<batches, registered, known, usernames, inserts>>

-----------------------------------------------------------------------------
(* Changing a user's name. *)

\* The user is changed, and what it was is kept for the steps that follow.
Change(r, k) ==
  /\ slips' = IF Creating(k) THEN slips \cup {"changed too early"} ELSE slips
  /\ users' = [users EXCEPT ![k] = requests[r].name]
  /\ requests' = [requests EXCEPT ![r].step = "freeing", ![r].old = users[k]]

\* A request that leaves the name as it is ends here, unless it changes the
\* password as well.
ChangeUser(r) ==
  /\ Is(r, "changing")
  /\ LET k == requests[r].key
     IN  \/ k \notin DOMAIN users /\ Goto(r, "failed") /\ UNCHANGED <<users, slips>>
         \/ k \in DOMAIN users /\ Change(r, k)
         \/ k \in DOMAIN users /\ users[k] = requests[r].name
              /\ Goto(r, "done") /\ UNCHANGED <<users, slips>>
  /\ UNCHANGED <<batches, registered, known, usernames, inserts>>

(* One query, of two writes: the old name is deleted, the new one inserted.*)
FreeName(r) ==
  /\ Is(r, "freeing")
  /\ usernames' = usernames \ {requests[r].old}
  /\ Goto(r, "taking")
  /\ UNCHANGED <<batches, registered, known, users, inserts, slips>>

TakeName(r) ==
  /\ Is(r, "taking")
  /\ usernames' = usernames \cup {requests[r].name}
  /\ Goto(r, IF requests[r].name \in usernames THEN "resetting" ELSE "done")
  /\ UNCHANGED <<batches, registered, known, users, inserts, slips>>

(* The user gets its old name back; the name's entry is gone.              *)
ResetUser(r) ==
  /\ Is(r, "resetting")
  /\ users' = [k \in DOMAIN users |->
                 IF k = requests[r].key THEN requests[r].old ELSE users[k]]
  /\ slips' = slips \cup {"rename failed"}
  /\ Goto(r, "failed")
  /\ UNCHANGED <<batches, registered, known, usernames, inserts>>

-----------------------------------------------------------------------------
Ask(r) ==
  \E k \in Keys, n \in Names :
    Register(r, k, n) \/ SignUp(r, k, n) \/ CreateUser(r, k, n) \/ Rename(r, k, n)

Serve(r) ==
  \/ Signed(r) \/ CheckParticipant(r) \/ InsertName(r) \/ UndoUser(r)
  \/ ChangeUser(r) \/ FreeName(r) \/ TakeName(r) \/ ResetUser(r)

Chain == \E r \in Requests : CommitParticipant(r) \/ InvalidateParticipant(r)

Next ==
  \/ Chain \/ SyncParticipants
  \/ \E r \in Requests : Ask(r) \/ Carry(r) \/ Serve(r) \/ InsertUser(r)

(* Messages arrive, waits end and queries are carried out.  Nothing is     *)
(* assumed of the validator's decisions.                                   *)
Fairness ==
  \A r \in Requests : WF_vars(Carry(r)) /\ WF_vars(Serve(r)) /\ WF_vars(InsertUser(r))

Spec == Init /\ [][Next]_vars /\ Fairness

-----------------------------------------------------------------------------
Ended(r) == Is(r, "done") \/ Is(r, "failed")

Quiet == (\A r \in DOMAIN requests : Ended(r)) /\ inserts = {}

UniqueNames == \A k, l \in DOMAIN users : k # l => users[k] # users[l]

(* Whenever no request is in progress no two users share a name, as the    *)
(* usernames table is there to ensure: even in histories without a user    *)
(* that is deleted before it is inserted.                                  *)
UsernamesUnique == Quiet /\ "undone too early" \notin slips => UniqueNames

(* There are exactly four ways to break the tables apart: to create a user *)
(* for a key that has one or is getting one, to undo an insert before it   *)
(* is carried out, to log in and rename a user before its creation is      *)
(* over, and to ask for a name that is taken.  Until one of them happens,  *)
(* however requests overlap and whichever inserts are lost, every user's   *)
(* name is reserved, and his alone.                                        *)
TablesInStep ==
  Quiet /\ slips = {} =>
    UniqueNames /\ \A k \in DOMAIN users : users[k] \in usernames

(* Nobody has an account without a participant on the chain, however late  *)
(* the participant's batch is committed and the database follows.          *)
UsersRegistered == DOMAIN users \subseteq registered

(* Every request is answered, even if the validator never decides.         *)
RequestsEnd == \A r \in Requests : r \in DOMAIN requests ~> Ended(r)
=============================================================================
