---------------------------- MODULE AuthAccounts ----------------------------
(***************************************************************************)
(* The auth microservice: Register, Login and BotLoginTelegram of          *)
(* auth/core/service.go with their transactions in                         *)
(* auth/adapters/db/storage.go and the answers of the gRPC server.         *)
(*                                                                         *)
(* External: Postgres, at READ COMMITTED.  A transaction's writes become   *)
(* visible at its commit.  An INSERT of a key that another open            *)
(* transaction has inserted, and an UPDATE of a row that another one has   *)
(* updated, wait for its end.  An INSERT of a key that is already          *)
(* committed fails with 23505, and from then on the transaction is         *)
(* aborted: every later statement in it fails with 25P02.  A sequence      *)
(* value is used up even by a transaction that rolls back.                 *)
(***************************************************************************)
EXTENDS Naturals, FiniteSets

CONSTANTS
  Registers, Logins, Telegrams,  \* the calls
  Emails, TgIDs,                 \* valid e-mail addresses, Telegram ids
  Passwords,
  Profiles,                      \* username, first and last name
  MaxUint32,                     \* largest user id a token can carry
  None                           \* a value that is none of the above

Calls == Registers \cup Logins \cup Telegrams
Keys == Emails \cup TgIDs

ASSUME AuthAssumption ==
  /\ Registers \cap Logins = {}
  /\ (Registers \cup Logins) \cap Telegrams = {}
  /\ IsFiniteSet(Registers \cup Logins \cup Telegrams)
  /\ Emails \cap TgIDs = {}
  /\ MaxUint32 \in Nat
  /\ None \notin Keys \cup Passwords \cup Profiles \cup Calls

\* BIGSERIAL values that can be drawn: one per call at most.
UserIDs == 1 .. Cardinality(Calls)

VARIABLES
  seq,        \* last value drawn from users_id_seq
  users,      \* ids in table users
  comicshub,  \* table user_comicshub: e-mail -> user_id and password
  telegram,   \* table user_telegram: tg_id -> user_id and profile
  pc,         \* where each call is
  key,        \* the e-mail or the tg_id of a call
  arg,        \* its password or its profile
  uid,        \* its local u.ID / userID, 0 for none
  lock,       \* the key its transaction has inserted or updated
  reply,      \* the gRPC code it was answered with
  faulted     \* (history) calls one of whose statements failed on its own

tables == <<users, comicshub, telegram>>
vars == <<seq, tables, pc, key, arg, uid, lock, reply, faulted>>

NoRow == [user |-> 0, data |-> None]

Init ==
  /\ seq = 0
  /\ users = {}
  /\ comicshub = [e \in Emails |-> NoRow]
  /\ telegram = [t \in TgIDs |-> NoRow]
  /\ pc = [c \in Calls |-> "new"]
  /\ key = [c \in Calls |-> None]
  /\ arg = [c \in Calls |-> None]
  /\ uid = [c \in Calls |-> 0]
  /\ lock = [c \in Calls |-> None]
  /\ reply = [c \in Calls |-> "none"]
  /\ faulted = {}

\* An open transaction other than c's has inserted or updated key k.
Blocked(c, k) == \E d \in Calls \ {c} : lock[d] = k

Answer(c, code) ==
  /\ pc' = [pc EXCEPT ![c] = "done"]
  /\ reply' = [reply EXCEPT ![c] = code]

\* Mutant of Rollback: the deferred tx.Rollback() is missing.
RollbackMissing(c, code) ==
  /\ Answer(c, code)
  /\ UNCHANGED <<seq, tables, key, arg, uid, lock>>

\* Every return but the last runs the deferred tx.Rollback().
Rollback(c, code) ==
  /\ Answer(c, code)
  /\ lock' = [lock EXCEPT ![c] = None]
  /\ UNCHANGED <<seq, tables, key, arg, uid>>

\* generateToken refuses an id that does not fit the uint32 claim; the user
\* is committed by then.
TokenCode(id) == IF id > MaxUint32 THEN "Internal" ELSE "OK"

\* Program points at which a call talks to the database in a transaction.
InTx == {"insUser", "insAcc", "commitAcc", "select", "insTgUser", "insTg",
         "update", "commitTg", "commitUpd"}

\* A statement, or the commit before it took effect, fails: cancelled context
\* or broken connection.
StatementFails(c) ==
  /\ pc[c] \in InTx
  /\ Rollback(c, "Internal")
  /\ faulted' = faulted \cup {c}

-----------------------------------------------------------------------------
(* Register: CreateComicshubUser.                                          *)

\* e and p are non-empty and e is a valid address (the others are refused
\* with InvalidArgument and touch nothing).
RegisterBegin(c, e, p) ==
  /\ pc[c] = "new"
  /\ key' = [key EXCEPT ![c] = e]
  /\ arg' = [arg EXCEPT ![c] = p]
  /\ pc' = [pc EXCEPT ![c] = "insUser"]
  /\ UNCHANGED <<seq, tables, uid, lock, reply, faulted>>

\* INSERT INTO users, for both kinds of account.
DrawUserID(c) ==
  /\ seq' = seq + 1
  /\ uid' = [uid EXCEPT ![c] = seq + 1]

\* Mutant of RegisterInsertUser: the INSERT is outside the transaction.
RegisterInsertUserAtOnce(c) ==
  /\ pc[c] = "insUser"
  /\ DrawUserID(c)
  /\ users' = users \cup {seq + 1}
  /\ pc' = [pc EXCEPT ![c] = "insAcc"]
  /\ UNCHANGED <<comicshub, telegram, key, arg, lock, reply, faulted>>

RegisterInsertUser(c) ==
  /\ pc[c] = "insUser"
  /\ DrawUserID(c)
  /\ pc' = [pc EXCEPT ![c] = "insAcc"]
  /\ UNCHANGED <<tables, key, arg, lock, reply, faulted>>

\* Mutant of RegisterInsertAccount: ON CONFLICT (email) DO UPDATE.
RegisterInsertAccountUpsert(c) ==
  /\ pc[c] = "insAcc"
  /\ ~Blocked(c, key[c])
  /\ lock' = [lock EXCEPT ![c] = key[c]]
  /\ pc' = [pc EXCEPT ![c] = "commitAcc"]
  /\ UNCHANGED <<seq, tables, key, arg, uid, reply, faulted>>

\* INSERT INTO user_comicshub: waits, conflicts or succeeds.
RegisterInsertAccount(c) ==
  /\ pc[c] = "insAcc"
  /\ ~Blocked(c, key[c])
  /\ IF comicshub[key[c]] # NoRow
     THEN Rollback(c, "AlreadyExists")
     ELSE /\ lock' = [lock EXCEPT ![c] = key[c]]
          /\ pc' = [pc EXCEPT ![c] = "commitAcc"]
          /\ UNCHANGED <<seq, tables, key, arg, uid, reply>>
  /\ UNCHANGED faulted

\* tx.Commit() and generateToken.  A commit can take effect although the
\* client gets an error.
RegisterCommit(c) ==
  /\ pc[c] = "commitAcc"
  /\ users' = users \cup {uid[c]}
  /\ comicshub' = [comicshub EXCEPT
                     ![key[c]] = [user |-> uid[c], data |-> arg[c]]]
  /\ lock' = [lock EXCEPT ![c] = None]
  /\ \/ Answer(c, TokenCode(uid[c])) /\ UNCHANGED faulted
     \/ Answer(c, "Internal") /\ faulted' = faulted \cup {c}
  /\ UNCHANGED <<seq, telegram, key, arg, uid>>

-----------------------------------------------------------------------------
(* Login: GetComicshubByEmail, one SELECT.  A database error is answered   *)
(* like a wrong password.                                                  *)

\* The account of an e-mail and its user, NoRow if there is none.
GetComicshubByEmail(e) == comicshub[e]

Login(c, e, p) ==
  /\ pc[c] = "new"
  /\ key' = [key EXCEPT ![c] = e]
  /\ arg' = [arg EXCEPT ![c] = p]
  /\ \/ LET row == GetComicshubByEmail(e) IN
        /\ IF row # NoRow /\ row.data = p
           THEN /\ uid' = [uid EXCEPT ![c] = row.user]
                /\ Answer(c, TokenCode(row.user))
           ELSE UNCHANGED uid /\ Answer(c, "Unauthenticated")
        /\ UNCHANGED faulted
     \/ /\ Answer(c, "Unauthenticated")
        /\ faulted' = faulted \cup {c}
        /\ UNCHANGED uid
  /\ UNCHANGED <<seq, tables, lock>>

-----------------------------------------------------------------------------
(* BotLoginTelegram: UpsertTelegramUser.                                   *)

\* t is positive (the others are refused with InvalidArgument).
TelegramBegin(c, t, p) ==
  /\ pc[c] = "new"
  /\ key' = [key EXCEPT ![c] = t]
  /\ arg' = [arg EXCEPT ![c] = p]
  /\ pc' = [pc EXCEPT ![c] = "select"]
  /\ UNCHANGED <<seq, tables, uid, lock, reply, faulted>>

\* SELECT user_id FROM user_telegram WHERE tg_id = ...
TelegramSelect(c) ==
  /\ pc[c] = "select"
  /\ LET row == telegram[key[c]] IN
     IF row # NoRow
     THEN /\ uid' = [uid EXCEPT ![c] = row.user]
          /\ pc' = [pc EXCEPT ![c] = "update"]
     ELSE /\ pc' = [pc EXCEPT ![c] = "insTgUser"]
          /\ UNCHANGED uid
  /\ UNCHANGED <<seq, tables, key, arg, lock, reply, faulted>>

\* updateProfile and loadUser.
TelegramUpdate(c) ==
  /\ pc[c] = "update"
  /\ ~Blocked(c, key[c])
  /\ lock' = [lock EXCEPT ![c] = key[c]]
  /\ pc' = [pc EXCEPT ![c] = "commitUpd"]
  /\ UNCHANGED <<seq, tables, key, arg, uid, reply, faulted>>

TelegramInsertUser(c) ==
  /\ pc[c] = "insTgUser"
  /\ DrawUserID(c)
  /\ pc' = [pc EXCEPT ![c] = "insTg"]
  /\ UNCHANGED <<tables, key, arg, lock, reply, faulted>>

\* Mutant of TelegramInsert: no unique constraint on tg_id.
TelegramInsertNotUnique(c) ==
  /\ pc[c] = "insTg"
  /\ lock' = [lock EXCEPT ![c] = key[c]]
  /\ pc' = [pc EXCEPT ![c] = "commitTg"]
  /\ UNCHANGED <<seq, tables, key, arg, uid, reply, faulted>>

\* INSERT INTO user_telegram: waits, succeeds, or conflicts with a row that
\* was committed since the SELECT.  After a conflict the code repeats the
\* SELECT in the same transaction, which is aborted: the SELECT fails
\* (storage.go:180-182) and the call ends with an error.
TelegramInsert(c) ==
  /\ pc[c] = "insTg"
  /\ ~Blocked(c, key[c])
  /\ IF telegram[key[c]] # NoRow
     THEN Rollback(c, "Internal")
     ELSE /\ lock' = [lock EXCEPT ![c] = key[c]]
          /\ pc' = [pc EXCEPT ![c] = "commitTg"]
          /\ UNCHANGED <<seq, tables, key, arg, uid, reply>>
  /\ UNCHANGED faulted

\* tx.Commit() of either path, and generateToken.
TelegramCommit(c) ==
  /\ pc[c] \in {"commitTg", "commitUpd"}
  /\ users' = users \cup {uid[c]}
  /\ telegram' = [telegram EXCEPT
                    ![key[c]] = [user |-> uid[c], data |-> arg[c]]]
  /\ lock' = [lock EXCEPT ![c] = None]
  /\ \/ Answer(c, TokenCode(uid[c])) /\ UNCHANGED faulted
     \/ Answer(c, "Internal") /\ faulted' = faulted \cup {c}
  /\ UNCHANGED <<seq, comicshub, key, arg, uid>>

-----------------------------------------------------------------------------
RegisterStep(c) ==
  RegisterInsertUser(c) \/ RegisterInsertAccount(c) \/ RegisterCommit(c)

TelegramStep(c) ==
  \/ TelegramSelect(c) \/ TelegramUpdate(c)
  \/ TelegramInsertUser(c) \/ TelegramInsert(c) \/ TelegramCommit(c)

Terminated ==
  /\ \A c \in Calls : pc[c] = "done"
  /\ UNCHANGED vars

Next ==
  \/ \E c \in Registers :
       \/ \E e \in Emails, p \in Passwords : RegisterBegin(c, e, p)
       \/ RegisterStep(c)
  \/ \E c \in Logins, e \in Emails, p \in Passwords : Login(c, e, p)
  \/ \E c \in Telegrams :
       \/ \E t \in TgIDs, p \in Profiles : TelegramBegin(c, t, p)
       \/ TelegramStep(c)
  \/ \E c \in Registers \cup Telegrams : StatementFails(c)
  \/ Terminated

Spec == Init /\ [][Next]_vars

-----------------------------------------------------------------------------
(* Properties.                                                             *)

Row(data) == {NoRow} \cup [user : UserIDs, data : data]

\* Every variable of the auth service keeps its type; in particular no call
\* draws more than one user id.
TypeOK ==
  /\ seq \in 0 .. Cardinality(Calls)
  /\ users \subseteq UserIDs
  /\ comicshub \in [Emails -> Row(Passwords)]
  /\ telegram \in [TgIDs -> Row(Profiles)]
  /\ pc \in [Calls -> InTx \cup {"new", "done"}]
  /\ key \in [Calls -> Keys \cup {None}]
  /\ arg \in [Calls -> Passwords \cup Profiles \cup {None}]
  /\ uid \in [Calls -> UserIDs \cup {0}]
  /\ lock \in [Calls -> Keys \cup {None}]
  /\ reply \in [Calls -> {"none", "OK", "AlreadyExists", "Unauthenticated",
                          "Internal"}]
  /\ faulted \subseteq Calls

RegisteredEmails == {e \in Emails : comicshub[e] # NoRow}
LinkedTgIDs == {t \in TgIDs : telegram[t] # NoRow}

\* The user a key belongs to, 0 if it belongs to nobody.
OwnerOf(k) == IF k \in Emails THEN comicshub[k].user ELSE telegram[k].user

\* No "user without an account" (storage.go:40): whatever fails between the
\* two INSERTs of a sign-up, users holds exactly the owners of the e-mails and
\* of the Telegram ids, and no user owns two of them.
UsersAreOwners ==
  /\ users = {OwnerOf(k) : k \in RegisteredEmails \cup LinkedTgIDs}
  /\ \A j, k \in RegisteredEmails \cup LinkedTgIDs :
       OwnerOf(j) = OwnerOf(k) => j = k

\* A key never changes hands, and nobody's password is replaced by somebody
\* who registers the same e-mail (storage.go:54-64, 117-128).
OwnersAreStable ==
  [][/\ \A e \in RegisteredEmails : comicshub'[e] = comicshub[e]
     /\ \A t \in LinkedTgIDs : telegram'[t].user = telegram[t].user]_vars

\* Every token that was ever handed out names the user who owns the e-mail or
\* the Telegram id it was asked for, so all the tokens for one key agree, also
\* those of two first logins of one Telegram user at once
\* (service.go:73-92, 107-125, 134-144).
TokensNameTheOwner ==
  \A c \in Calls : reply[c] = "OK" => uid[c] = OwnerOf(key[c])

\* Of the concurrent Registers of one e-mail at most one succeeds, and
\* AlreadyExists is answered only when somebody else's account is committed
\* (storage.go:58-64).
OneRegistrationPerEmail ==
  /\ \A c, d \in Registers :
       reply[c] = "OK" /\ reply[d] = "OK" /\ key[c] = key[d] => c = d
  /\ \A c \in Registers :
       reply[c] = "AlreadyExists" => OwnerOf(key[c]) \notin {0, uid[c]}

\* Nobody waits for ever: a call whose key others may have to wait for is about
\* to commit and waits for nobody itself, and no key is held twice.  A
\* transaction that kept its key after its call had returned, or took one and
\* then waited for another, would block every later login with that key
\* (storage.go:34-66, 109-196).
WaitingEnds ==
  \A c \in Calls : lock[c] # None =>
    /\ pc[c] \in {"commitAcc", "commitTg", "commitUpd"}
    /\ ~Blocked(c, lock[c])

\* "if somebody inserted the same tg_id in parallel (a race), switch to
\* scenario (1): update the existing profile and return the user"
\* (storage.go:107-108): a Telegram login fails only when one of its own
\* statements did or its user id does not fit a token.
TelegramRaceFallsBack ==
  \A c \in Telegrams :
    reply[c] = "Internal" => c \in faulted \/ uid[c] > MaxUint32
=============================================================================
