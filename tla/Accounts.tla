------------------------------ MODULE Accounts ------------------------------
(***************************************************************************)
(* Registration and login (internal/service/auth.go, internal/store/       *)
(* user.go).  Every statement commits by itself: nothing holds the look at *)
(* an account and the write of it together but the unique key of the       *)
(* table.  What becomes of requests when servers stop is in module Server. *)
(***************************************************************************)
EXTENDS Naturals, Sequences

CONSTANTS
    Procs,
    RawEmails, Emails,      \* as clients write them, and normalised
    NormalizeEmail,         \* NormalizeEmail[raw]: in Emails, or NULL for an error
    Collate,                \* Collate[email]: equal where utf8mb4_0900_ai_ci is
    Passwords, GoodPasswords,   \* the good ones have 8 to 72 bytes
    BcryptKey,              \* BcryptKey[password]: the 72 bytes that bcrypt reads
    MaxUsers,               \* the limit of AUTO_INCREMENT
    NULL

Replies == {"created", "session", "invalid", "conflict", "unauthorized", "internal"}
Steps == {"idle", "insert", "readBack", "lookup", "verify", "answered"}

\* known is auxiliary: the account of the address, if it had been
\* acknowledged before the request came.
Requests == [email : Emails, password : Passwords, known : SUBSET (1..MaxUsers)]

ASSUME AccountAssumption ==
    /\ NormalizeEmail \in [RawEmails -> Emails \cup {NULL}]
    /\ GoodPasswords \subseteq Passwords
    /\ MaxUsers \in Nat
    /\ NULL \notin Emails \cup Replies \cup Requests

VARIABLES
    users,      \* users[id]: the address and the hash of account id
    pc,         \* pc[p]: the next step of the request of p
    req,        \* req[p]: the request as validated, or NULL
    found,      \* found[p]: the id that p works with, 0 for none
    reply,      \* reply[p]: the answer
    acked,      \* auxiliary: the accounts that clients know to exist
    made        \* auxiliary: made[p] is the account that the request of p has
                \* itself put into the table, 0 for none

accountVars == <<users, pc, req, found, reply, acked, made>>

AccountTypeOK ==
    /\ users \in Seq([email : Emails, hash : {BcryptKey[w] : w \in Passwords}])
    /\ Len(users) <= MaxUsers
    /\ pc \in [Procs -> Steps]
    /\ req \in [Procs -> Requests \cup {NULL}]
    /\ found \in [Procs -> 0..Len(users)]
    /\ reply \in [Procs -> Replies \cup {NULL}]
    /\ acked \subseteq DOMAIN users
    /\ made \in [Procs -> 0..MaxUsers]

AccountInit ==
    /\ users = <<>>
    /\ pc = [p \in Procs |-> "idle"]
    /\ req = [p \in Procs |-> NULL]
    /\ found = [p \in Procs |-> 0]
    /\ reply = [p \in Procs |-> NULL]
    /\ acked = {}
    /\ made = [p \in Procs |-> 0]

-----------------------------------------------------------------------------
Go(p, step) == pc' = [pc EXCEPT ![p] = step]

Answer(p, answer) ==
    /\ Go(p, "answered")
    /\ reply' = [reply EXCEPT ![p] = answer]

\* The accounts of an address, as WHERE email = ? finds them.
AccountsOf(email) ==
    {id \in DOMAIN users : Collate[users[id].email] = Collate[email]}

Take(p, step, email, password) ==
    /\ pc[p] = "idle"
    /\ Go(p, step)
    /\ req' = [req EXCEPT ![p] = [email |-> email, password |-> password,
                                 known |-> acked \cap AccountsOf(email)]]
    /\ UNCHANGED <<users, found, reply, acked, made>>

Refuse(p, answer) ==
    /\ pc[p] = "idle"
    /\ Answer(p, answer)
    /\ UNCHANGED <<users, req, found, acked, made>>

(* Register. *)

\* Up to the INSERT; the name is checked as well, and is of no consequence.
AcceptRegister(p, raw, password) ==
    /\ NormalizeEmail[raw] # NULL
    /\ password \in GoodPasswords
    /\ Take(p, "insert", NormalizeEmail[raw], password)

RefuseRegister(p) ==
    /\ \E raw \in RawEmails, password \in Passwords :
         NormalizeEmail[raw] = NULL \/ password \notin GoodPasswords
    /\ Refuse(p, "invalid")

NewUser(p) == [email |-> req[p].email, hash |-> BcryptKey[req[p].password]]

CanInsert(p) ==
    /\ pc[p] = "insert"
    /\ Len(users) < MaxUsers

\* Mutant: the table has no unique key.
InsertAnyUser(p) ==
    /\ CanInsert(p)
    /\ users' = Append(users, NewUser(p))
    /\ found' = [found EXCEPT ![p] = Len(users')]
    /\ made' = [made EXCEPT ![p] = Len(users')]
    /\ Go(p, "readBack")
    /\ UNCHANGED <<req, reply, acked>>

\* Mutant: ON DUPLICATE KEY UPDATE id = LAST_INSERT_ID(id).
InsertOrFindUser(p) ==
    /\ CanInsert(p)
    /\ users' = IF AccountsOf(req[p].email) = {} THEN Append(users, NewUser(p)) ELSE users
    /\ found' = [found EXCEPT ![p] =
                   CHOOSE id \in DOMAIN users' : Collate[users'[id].email] = Collate[req[p].email]]
    /\ made' = [made EXCEPT ![p] = IF users' = users THEN 0 ELSE Len(users')]
    /\ Go(p, "readBack")
    /\ UNCHANGED <<req, reply, acked>>

InsertUser(p) ==
    /\ CanInsert(p)
    /\ AccountsOf(req[p].email) = {}
    /\ users' = Append(users, NewUser(p))
    /\ found' = [found EXCEPT ![p] = Len(users')]
    /\ made' = [made EXCEPT ![p] = Len(users')]
    /\ Go(p, "readBack")
    /\ UNCHANGED <<req, reply, acked>>

\* The row is there, but the answer to the INSERT is lost: a 500.
InsertUserUnacknowledged(p) ==
    /\ CanInsert(p)
    /\ AccountsOf(req[p].email) = {}
    /\ users' = Append(users, NewUser(p))
    /\ made' = [made EXCEPT ![p] = Len(users')]
    /\ Answer(p, "internal")
    /\ UNCHANGED <<req, found, acked>>

\* Error 1062.
InsertConflict(p) ==
    /\ pc[p] = "insert"
    /\ AccountsOf(req[p].email) # {}
    /\ Answer(p, "conflict")
    /\ UNCHANGED <<users, req, found, acked, made>>

\* UserByID.
ReadBackUser(p) ==
    /\ pc[p] = "readBack"
    /\ acked' = acked \cup {found[p]}
    /\ Answer(p, "created")
    /\ UNCHANGED <<users, req, found, made>>

(* Login. *)

AcceptLogin(p, raw, password) ==
    /\ NormalizeEmail[raw] # NULL
    /\ Take(p, "lookup", NormalizeEmail[raw], password)

RefuseLogin(p) ==
    /\ \E raw \in RawEmails : NormalizeEmail[raw] = NULL
    /\ Refuse(p, "unauthorized")

\* CredentialsByEmail.
LookUpUser(p) ==
    /\ pc[p] = "lookup"
    /\ \E id \in AccountsOf(req[p].email) : found' = [found EXCEPT ![p] = id]
    /\ Go(p, "verify")
    /\ UNCHANGED <<users, req, reply, acked, made>>

LookUpNobody(p) ==
    /\ pc[p] = "lookup"
    /\ AccountsOf(req[p].email) = {}
    /\ Answer(p, "unauthorized")
    /\ UNCHANGED <<users, req, found, acked, made>>

\* Verify on the hash that was read, and Issue.
Verify(p) ==
    /\ pc[p] = "verify"
    /\ Answer(p, IF users[found[p]].hash = BcryptKey[req[p].password]
                 THEN "session" ELSE "unauthorized")
    /\ UNCHANGED <<users, req, found, acked, made>>

(* Either. *)

\* A statement fails and had no effect.
DbError(p) ==
    /\ pc[p] \in {"insert", "readBack", "lookup"}
    /\ Answer(p, "internal")
    /\ UNCHANGED <<users, req, found, acked, made>>

Forget(P) ==
    /\ pc' = [p \in Procs |-> IF p \in P THEN "idle" ELSE pc[p]]
    /\ req' = [p \in Procs |-> IF p \in P THEN NULL ELSE req[p]]
    /\ found' = [p \in Procs |-> IF p \in P THEN 0 ELSE found[p]]
    /\ reply' = [p \in Procs |-> IF p \in P THEN NULL ELSE reply[p]]
    /\ made' = [p \in Procs |-> IF p \in P THEN 0 ELSE made[p]]
    /\ UNCHANGED <<users, acked>>

\* The answer has been sent.
Finish(p) == pc[p] = "answered" /\ Forget({p})

\* A new request.
Arrive(p) ==
    \/ RefuseRegister(p)
    \/ RefuseLogin(p)
    \/ \E raw \in RawEmails, password \in Passwords :
         AcceptRegister(p, raw, password) \/ AcceptLogin(p, raw, password)

\* A statement that MySQL carries out.
Query(p) ==
    \/ InsertUser(p)
    \/ InsertUserUnacknowledged(p)
    \/ InsertConflict(p)
    \/ ReadBackUser(p)
    \/ LookUpUser(p)
    \/ LookUpNobody(p)

AccountNext ==
    \E p \in Procs : Arrive(p) \/ Query(p) \/ Verify(p) \/ DbError(p) \/ Finish(p)

AccountSpec == AccountInit /\ [][AccountNext]_accountVars

-----------------------------------------------------------------------------
(* Properties. *)

\* Nobody is told that an account was made for him which another request, or
\* an earlier try of his own, has made, be it that that one was told so or
\* that it ended in a 500, was cut off or forgotten: a 201 speaks of the row
\* that this very request inserted, and of one that nobody was told of.
RegisteredOnce ==
    [][\A p \in Procs :
         reply'[p] = "created" /\ reply[p] # "created" =>
           found[p] = made[p] /\ found[p] \notin acked]_accountVars

\* What clients are told is so.  The account of a 201 has their address and
\* password, a 409 speaks of an account that is there, a session is one for
\* the account of that address and password, and 401 is never said to a
\* client whose account was acknowledged before it asked, however it spells
\* the address.
AnswersAreTrue ==
    \A p \in Procs :
      pc[p] = "answered" /\ req[p] # NULL =>
        LET mine == AccountsOf(req[p].email)
            key == BcryptKey[req[p].password]
            Opens(id) == users[id].hash = key
        IN  CASE reply[p] = "created" ->
                   users[found[p]] = [email |-> req[p].email, hash |-> key]
              [] reply[p] = "conflict" -> mine # {}
              [] reply[p] = "session" -> found[p] \in mine /\ Opens(found[p])
              [] reply[p] = "unauthorized" ->
                   \A id \in req[p].known : ~Opens(id)
              [] OTHER -> TRUE

\* An address that MySQL takes for the same has one account (uq_users_email;
\* Register itself looks for none before it writes).
OneAccountPerAddress ==
    \A id, other \in DOMAIN users :
      Collate[users[id].email] = Collate[users[other].email] => id = other

\* The inductive invariant: what a request has found is there and stays as it
\* was, and the accounts that are still to be acknowledged are all different.
Stage(p) ==
    /\ pc[p] \in {"insert", "readBack", "lookup", "verify"} => req[p] # NULL
    /\ pc[p] = "idle" => req[p] = NULL
    /\ pc[p] # "answered" => reply[p] = NULL
    /\ req[p] # NULL => req[p].known \subseteq AccountsOf(req[p].email)
    /\ pc[p] = "readBack" => /\ found[p] \in DOMAIN users \ acked
                             /\ found[p] = made[p]
                             /\ users[found[p]] = NewUser(p)
    /\ pc[p] = "verify" => found[p] \in AccountsOf(req[p].email)
    /\ reply[p] = "created" => found[p] \in DOMAIN users

AccountIInv ==
    /\ AccountTypeOK
    /\ OneAccountPerAddress
    /\ AnswersAreTrue
    /\ \A p \in Procs : Stage(p)
    /\ \A p, q \in Procs :
         p # q /\ pc[p] = "readBack" /\ pc[q] = "readBack" => found[p] # found[q]
=============================================================================
