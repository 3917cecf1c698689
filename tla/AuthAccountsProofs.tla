------------------------ MODULE AuthAccountsProofs ------------------------
(***************************************************************************)
(* Safety of the auth service for every number of calls, keys, passwords   *)
(* and profiles.                                                           *)
(***************************************************************************)
EXTENDS AuthAccounts, FiniteSetTheorems, TLAPS

-----------------------------------------------------------------------------
(* The inductive invariant.                                                *)

\* Program points before a call has a user id, between the draw of a new one
\* and its commit, with the id of a row that it found, and with a key locked.
Undrawn == {"new", "insUser", "select", "insTgUser"}
Fresh == {"insAcc", "commitAcc", "insTg", "commitTg"}
Found == {"update", "commitUpd"}
Committing == {"commitAcc", "commitTg", "commitUpd"}

\* A call stays on the path of its kind, with a key and a datum of its kind.
PathOK ==
  /\ \A c \in Registers :
       /\ pc[c] \in {"new", "insUser", "insAcc", "commitAcc", "done"}
       /\ pc[c] # "new" => key[c] \in Emails /\ arg[c] \in Passwords
  /\ \A c \in Logins :
       /\ pc[c] \in {"new", "done"}
       /\ pc[c] # "new" => key[c] \in Emails /\ arg[c] \in Passwords
  /\ \A c \in Telegrams :
       /\ pc[c] \in {"new", "select", "insTgUser", "insTg", "update",
                     "commitTg", "commitUpd", "done"}
       /\ pc[c] # "new" => key[c] \in TgIDs /\ arg[c] \in Profiles
  /\ \A c \in Calls : pc[c] # "done" <=> reply[c] = "none"

HaveUid == {c \in Calls : uid[c] # 0}

\* Every value drawn from the sequence is some call's, so that there are never
\* more of them than calls.  A value drawn for a sign-up that has not been
\* committed is nobody else's and is no user yet; no two Registers ever have
\* the same.
DrawsOK ==
  /\ seq <= Cardinality(HaveUid)
  /\ users \subseteq 1 .. seq
  /\ \A c \in Calls : uid[c] \in 0 .. seq
  /\ \A c \in Calls : pc[c] \in Undrawn => uid[c] = 0
  /\ \A c \in Calls : pc[c] \in Fresh => uid[c] # 0 /\ uid[c] \notin users
  /\ \A c, d \in Calls :
       pc[c] \in Fresh /\ pc[d] \in Fresh /\ uid[c] = uid[d] => c = d
  /\ \A c, d \in Registers : uid[c] = uid[d] /\ uid[c] # 0 => c = d

\* A key is locked exactly while its transaction is about to commit, by one
\* transaction; until then a key to be inserted is nobody's, and a row that
\* was found keeps its user.
LocksOK ==
  /\ \A c \in Calls :
       lock[c] = IF pc[c] \in Committing THEN key[c] ELSE None
  /\ \A c, d \in Calls : lock[c] # None /\ lock[c] = lock[d] => c = d
  /\ \A c \in Calls :
       /\ pc[c] \in {"commitAcc", "commitTg"} => OwnerOf(key[c]) = 0
       /\ pc[c] \in Found => uid[c] # 0 /\ OwnerOf(key[c]) = uid[c]

\* What a call was answered is true of the tables, and stays true.
AnswersOK ==
  /\ \A c \in Calls :
       reply[c] = "OK" => uid[c] # 0 /\ uid[c] = OwnerOf(key[c])
  /\ \A c \in Registers :
       reply[c] = "AlreadyExists" => OwnerOf(key[c]) \notin {0, uid[c]}

AuthInv ==
  TypeOK /\ PathOK /\ DrawsOK /\ LocksOK /\ UsersAreOwners /\ AnswersOK

-----------------------------------------------------------------------------
(* Facts about the parts of the state.                                     *)

\* A key has an owner exactly when it has a row.
LEMMA Owners ==
  ASSUME TypeOK
  PROVE  /\ \A e \in Emails : /\ OwnerOf(e) = comicshub[e].user
                              /\ comicshub[e] # NoRow <=> OwnerOf(e) # 0
         /\ \A t \in TgIDs : /\ OwnerOf(t) = telegram[t].user
                             /\ telegram[t] # NoRow <=> OwnerOf(t) # 0
         /\ \A k : k \in RegisteredEmails \cup LinkedTgIDs
                   <=> k \in Keys /\ OwnerOf(k) # 0
         /\ \A k \in Keys : OwnerOf(k) \in UserIDs \cup {0}
<1>0. 0 \notin UserIDs
  BY DEF UserIDs
<1>1. \A e \in Emails : comicshub[e] = NoRow \/ comicshub[e].user \in UserIDs
  BY DEF TypeOK, Row
<1>2. \A t \in TgIDs : telegram[t] = NoRow \/ telegram[t].user \in UserIDs
  BY DEF TypeOK, Row
<1>3. NoRow.user = 0
  BY DEF NoRow
<1>4. \A t \in TgIDs : t \notin Emails
  BY AuthAssumption
<1>5. \A e \in Emails : /\ OwnerOf(e) = comicshub[e].user
                        /\ comicshub[e] # NoRow <=> OwnerOf(e) # 0
  BY <1>0, <1>1, <1>3 DEF OwnerOf
<1>6. \A t \in TgIDs : /\ OwnerOf(t) = telegram[t].user
                       /\ telegram[t] # NoRow <=> OwnerOf(t) # 0
  BY <1>0, <1>2, <1>3, <1>4 DEF OwnerOf
<1>7. \A k : k \in RegisteredEmails \cup LinkedTgIDs
            <=> k \in Keys /\ OwnerOf(k) # 0
  BY <1>5, <1>6 DEF RegisteredEmails, LinkedTgIDs, Keys
<1>8. \A k \in Keys : OwnerOf(k) \in UserIDs \cup {0}
  BY <1>1, <1>2, <1>3, <1>5, <1>6 DEF Keys
<1> QED
  BY <1>5, <1>6, <1>7, <1>8

\* UsersAreOwners, in terms of the owners.
OwnersAreUsers ==
  /\ \A id : id \in users <=> \E k \in Keys : OwnerOf(k) = id /\ id # 0
  /\ \A j, k \in Keys : OwnerOf(j) # 0 /\ OwnerOf(j) = OwnerOf(k) => j = k

\* The two say the same.
LEMMA UsersMeans == TypeOK => (UsersAreOwners <=> OwnersAreUsers)
  BY Owners DEF UsersAreOwners, OwnersAreUsers

\* The same after a step.
LEMMA UsersMeansNext == TypeOK' => (UsersAreOwners' <=> OwnersAreUsers')
  BY UsersMeans, PTL

\* No more values have been drawn than there are calls.
LEMMA DrawsBounded ==
  ASSUME DrawsOK, seq \in Nat
  PROVE  /\ Cardinality(Calls) \in Nat /\ IsFiniteSet(HaveUid)
         /\ Cardinality(HaveUid) \in Nat
         /\ seq <= Cardinality(Calls) /\ 1 .. seq \subseteq UserIDs
         /\ \A c \in Calls : uid[c] = 0 => seq + 1 <= Cardinality(Calls)
<1>1. IsFiniteSet(Calls)
  BY AuthAssumption DEF Calls
<1>2. HaveUid \subseteq Calls
  BY DEF HaveUid
<1>3. /\ IsFiniteSet(HaveUid) /\ Cardinality(HaveUid) \in Nat
      /\ Cardinality(Calls) \in Nat
      /\ Cardinality(HaveUid) <= Cardinality(Calls)
  BY <1>1, <1>2, FS_Subset, FS_CardinalityType
<1>4. ASSUME NEW c \in Calls, uid[c] = 0
      PROVE  seq + 1 <= Cardinality(Calls)
  <2>1. HaveUid # Calls
    BY <1>4 DEF HaveUid
  <2>2. Cardinality(HaveUid) # Cardinality(Calls)
    BY <1>1, <1>2, <2>1, FS_Subset
  <2> QED
    BY <1>3, <2>2 DEF DrawsOK
<1>5. seq <= Cardinality(Calls)
  BY <1>3 DEF DrawsOK
<1> QED
  BY <1>3, <1>4, <1>5 DEF UserIDs

-----------------------------------------------------------------------------
(* What the steps do.                                                      *)

\* Everything of every other call is left alone.
OthersAlone(c) ==
  \A d \in Calls \ {c} :
    /\ pc'[d] = pc[d] /\ key'[d] = key[d] /\ arg'[d] = arg[d]
    /\ uid'[d] = uid[d] /\ lock'[d] = lock[d] /\ reply'[d] = reply[d]

\* Call c sets out, or learns that its Telegram id is new.
Begins(c) ==
  /\ \/ pc[c] = "new" /\ pc'[c] \in {"insUser", "select"}
     \/ pc[c] = "select" /\ pc'[c] = "insTgUser"
  /\ UNCHANGED <<seq, tables, uid, lock, reply>>

\* It finds a row of its Telegram id.
Finds(c) ==
  /\ pc[c] = "select" /\ pc'[c] = "update"
  /\ OwnerOf(key[c]) # 0 /\ uid'[c] = OwnerOf(key[c])
  /\ UNCHANGED <<seq, tables, key, lock, reply>>

\* It draws a user id.
Draws(c) ==
  /\ pc[c] \in {"insUser", "insTgUser"} /\ pc'[c] \in {"insAcc", "insTg"}
  /\ seq' = seq + 1 /\ uid'[c] = seq + 1
  /\ UNCHANGED <<tables, key, lock, reply>>

\* It locks its key, to insert or to update the row.
Locks(c) ==
  /\ ~Blocked(c, key[c])
  /\ \/ /\ pc[c] \in {"insAcc", "insTg"} /\ pc'[c] \in {"commitAcc", "commitTg"}
        /\ OwnerOf(key[c]) = 0
     \/ pc[c] = "update" /\ pc'[c] = "commitUpd"
  /\ lock'[c] = key[c]
  /\ UNCHANGED <<seq, tables, key, uid, reply>>

\* It gives up: a conflict or an error.
Fails(c) ==
  /\ pc[c] \in InTx /\ pc'[c] = "done" /\ lock'[c] = None
  /\ \/ reply'[c] = "Internal"
     \/ /\ reply'[c] = "AlreadyExists"
        /\ pc[c] = "insAcc" /\ OwnerOf(key[c]) # 0
  /\ UNCHANGED <<seq, tables, key, uid>>

\* It looks an account up and is answered.
LogsIn(c) ==
  /\ pc[c] = "new" /\ pc'[c] = "done" /\ c \in Logins
  /\ key'[c] \in Emails /\ uid'[c] \in {0, OwnerOf(key'[c])}
  /\ reply'[c] \in {"OK", "Internal", "Unauthenticated"}
  /\ reply'[c] = "OK" => uid'[c] # 0
  /\ UNCHANGED <<seq, tables, lock>>

\* It commits: its key belongs to its user.
Commits(c) ==
  /\ pc[c] \in Committing
  /\ pc'[c] = "done" /\ lock'[c] = None /\ reply'[c] \in {"OK", "Internal"}
  /\ users' = users \cup {uid[c]}
  /\ OwnerOf(key[c])' = uid[c]
  /\ \A k \in Keys : k # key[c] => OwnerOf(k)' = OwnerOf(k)
  /\ UNCHANGED <<seq, key, uid>>

\* A commit changes the owner of one key.
LEMMA CommitEffect ==
  ASSUME AuthInv, NEW c \in Calls,
         \/ c \in Registers /\ RegisterCommit(c)
         \/ c \in Telegrams /\ TelegramCommit(c)
  PROVE  /\ Commits(c) /\ OthersAlone(c)
         /\ key[c] \in Keys /\ uid[c] # 0 /\ uid[c] \in UserIDs
         /\ comicshub' \in [Emails -> Row(Passwords)]
         /\ telegram' \in [TgIDs -> Row(Profiles)]
         /\ \/ OwnerOf(key[c]) = 0 /\ uid[c] \notin users
            \/ OwnerOf(key[c]) = uid[c]
<1>t. TypeOK /\ PathOK /\ DrawsOK /\ LocksOK
  BY DEF AuthInv
<1>1. key[c] \in Keys /\ uid[c] # 0 /\ uid[c] \in UserIDs
  BY <1>t, AuthAssumption
  DEF TypeOK, PathOK, DrawsOK, LocksOK, RegisterCommit, TelegramCommit, Keys,
      Fresh, Found, Calls
<1>2. \/ OwnerOf(key[c]) = 0 /\ uid[c] \notin users
      \/ OwnerOf(key[c]) = uid[c]
  BY <1>t DEF DrawsOK, LocksOK, RegisterCommit, TelegramCommit, Fresh, Found
<1>3. OthersAlone(c)
  BY <1>t DEF TypeOK, RegisterCommit, TelegramCommit, Answer, OthersAlone
<1>4. CASE c \in Registers /\ RegisterCommit(c)
  <2>1. key[c] \in Emails /\ arg[c] \in Passwords
    BY <1>4, <1>t DEF PathOK, RegisterCommit
  <2>2. comicshub' \in [Emails -> Row(Passwords)]
    <3>1. [user |-> uid[c], data |-> arg[c]] \in Row(Passwords)
      BY <1>1, <2>1 DEF Row
    <3> QED
      BY <1>4, <1>t, <3>1 DEF TypeOK, RegisterCommit
  <2>3. comicshub'[key[c]].user = uid[c]
    BY <1>4, <1>t, <2>1 DEF TypeOK, RegisterCommit
  <2>4. \A e \in Emails : e # key[c] => comicshub'[e] = comicshub[e]
    BY <1>4, <1>t, <2>1 DEF TypeOK, RegisterCommit
  <2>5. OwnerOf(key[c])' = uid[c]
    BY <1>4, <2>1, <2>3 DEF OwnerOf, RegisterCommit
  <2>6. \A k \in Keys : k # key[c] => OwnerOf(k)' = OwnerOf(k)
    BY <1>4, <2>4 DEF OwnerOf, RegisterCommit
  <2>7. /\ pc[c] \in Committing /\ pc'[c] = "done" /\ lock'[c] = None
        /\ reply'[c] \in {"OK", "Internal"}
    BY <1>4, <1>t DEF TypeOK, RegisterCommit, Answer, TokenCode, Committing
  <2>8. telegram' \in [TgIDs -> Row(Profiles)]
    BY <1>4, <1>t DEF TypeOK, RegisterCommit
  <2>9. Commits(c)
    BY <1>4, <2>5, <2>6, <2>7 DEF Commits, RegisterCommit
  <2> QED
    BY <1>1, <1>2, <1>3, <2>2, <2>8, <2>9
<1>5. CASE c \in Telegrams /\ TelegramCommit(c)
  <2>1. key[c] \in TgIDs /\ arg[c] \in Profiles /\ key[c] \notin Emails
    BY <1>5, <1>t, AuthAssumption DEF PathOK, TelegramCommit
  <2>2. telegram' \in [TgIDs -> Row(Profiles)]
    <3>1. [user |-> uid[c], data |-> arg[c]] \in Row(Profiles)
      BY <1>1, <2>1 DEF Row
    <3> QED
      BY <1>5, <1>t, <3>1 DEF TypeOK, TelegramCommit
  <2>3. telegram'[key[c]].user = uid[c]
    BY <1>5, <1>t, <2>1 DEF TypeOK, TelegramCommit
  <2>4. \A t \in TgIDs : t # key[c] => telegram'[t] = telegram[t]
    BY <1>5, <1>t, <2>1 DEF TypeOK, TelegramCommit
  <2>5. OwnerOf(key[c])' = uid[c]
    BY <1>5, <2>1, <2>3 DEF OwnerOf, TelegramCommit
  <2>6. \A k \in Keys : k # key[c] => OwnerOf(k)' = OwnerOf(k)
    BY <1>5, <2>4 DEF OwnerOf, TelegramCommit, Keys
  <2>7. /\ pc[c] \in Committing /\ pc'[c] = "done" /\ lock'[c] = None
        /\ reply'[c] \in {"OK", "Internal"}
    BY <1>5, <1>t DEF TypeOK, TelegramCommit, Answer, TokenCode, Committing
  <2>8. comicshub' \in [Emails -> Row(Passwords)]
    BY <1>5, <1>t DEF TypeOK, TelegramCommit
  <2>9. Commits(c)
    BY <1>5, <2>5, <2>6, <2>7 DEF Commits, TelegramCommit
  <2> QED
    BY <1>1, <1>2, <1>3, <2>2, <2>8, <2>9
<1> QED
  BY <1>4, <1>5

-----------------------------------------------------------------------------
(* Types and paths.                                                        *)

\* The service starts with empty tables.
LEMMA AuthInit == Init => AuthInv
<1> SUFFICES ASSUME Init PROVE AuthInv
  OBVIOUS
<1>0. HaveUid = {} /\ Cardinality(HaveUid) = 0 /\ Cardinality(Calls) \in Nat
  <2>1. IsFiniteSet(Calls)
    BY AuthAssumption DEF Calls
  <2>2. HaveUid = {}
    BY DEF Init, HaveUid
  <2> QED
    BY <2>1, <2>2, FS_EmptySet, FS_CardinalityType
<1>1. TypeOK
  BY <1>0 DEF Init, TypeOK, Row
<1>2. PathOK
  BY DEF Init, PathOK, Calls
<1>3. \A k \in Keys : OwnerOf(k) = 0
  BY DEF Init, OwnerOf, NoRow, Keys
<1>4. DrawsOK
  BY <1>0 DEF Init, DrawsOK, Calls, Fresh
<1>5. LocksOK
  BY DEF Init, LocksOK, Committing, Found
<1>6. UsersAreOwners
  BY <1>1, <1>3, UsersMeans DEF Init, OwnersAreUsers
<1>7. AnswersOK
  BY DEF Init, AnswersOK, Calls
<1> QED
  BY <1>1, <1>2, <1>4, <1>5, <1>6, <1>7 DEF AuthInv

\* Every step keeps the types, and every call on the path of its kind.
LEMMA TypeNext ==
  ASSUME AuthInv, Next
  PROVE  TypeOK' /\ PathOK'
<1>t. TypeOK /\ PathOK /\ DrawsOK /\ UsersAreOwners
  BY DEF AuthInv
<1>k. /\ Registers \subseteq Calls /\ Logins \subseteq Calls
      /\ Telegrams \subseteq Calls /\ Emails \subseteq Keys
      /\ TgIDs \subseteq Keys
  BY DEF Calls, Keys
<1>d. \A c, d : c \in Registers /\ d \in Logins \cup Telegrams => c # d
  BY AuthAssumption
<1>e. \A c, d : c \in Logins /\ d \in Telegrams => c # d
  BY AuthAssumption
<1>1. ASSUME NEW c \in Registers, NEW e \in Emails, NEW p \in Passwords,
             RegisterBegin(c, e, p)
      PROVE  TypeOK' /\ PathOK'
  <2>1. TypeOK'
    BY <1>1, <1>t, <1>k DEF RegisterBegin, TypeOK, InTx, tables
  <2>2. PathOK'
    BY <1>1, <1>t, <1>k, <1>d DEF RegisterBegin, TypeOK, PathOK
  <2> QED
    BY <2>1, <2>2
<1>2. ASSUME NEW c \in Registers, RegisterInsertUser(c)
      PROVE  TypeOK' /\ PathOK'
  <2>0. seq + 1 \in 1 .. Cardinality(Calls)
    BY <1>2, <1>t, <1>k, DrawsBounded
    DEF RegisterInsertUser, TypeOK, DrawsOK, Undrawn
  <2>1. TypeOK'
    BY <1>2, <1>t, <1>k, <2>0
    DEF RegisterInsertUser, DrawUserID, TypeOK, InTx, tables, UserIDs
  <2>2. PathOK'
    BY <1>2, <1>t, <1>k, <1>d DEF RegisterInsertUser, TypeOK, PathOK
  <2> QED
    BY <2>1, <2>2
<1>3. ASSUME NEW c \in Registers, RegisterInsertAccount(c)
      PROVE  TypeOK' /\ PathOK'
  <2>1. TypeOK'
    BY <1>3, <1>t, <1>k
    DEF RegisterInsertAccount, Rollback, Answer, TypeOK, InTx, tables
  <2>2. PathOK'
    BY <1>3, <1>t, <1>k, <1>d
    DEF RegisterInsertAccount, Rollback, Answer, TypeOK, PathOK
  <2> QED
    BY <2>1, <2>2
<1>4. ASSUME NEW c \in Calls,
             \/ c \in Registers /\ RegisterCommit(c)
             \/ c \in Telegrams /\ TelegramCommit(c)
      PROVE  TypeOK' /\ PathOK'
  <2>1. /\ pc' = [pc EXCEPT ![c] = "done"] /\ lock' = [lock EXCEPT ![c] = None]
        /\ \/ reply' = [reply EXCEPT ![c] = "OK"]
           \/ reply' = [reply EXCEPT ![c] = "Internal"]
        /\ users' = users \cup {uid[c]} /\ faulted' \subseteq faulted \cup {c}
        /\ UNCHANGED <<seq, key, arg, uid>> /\ pc[c] # "new"
    BY <1>4 DEF RegisterCommit, TelegramCommit, Answer, TokenCode
  <2>2. TypeOK'
    BY <1>4, <1>t, <2>1, CommitEffect DEF TypeOK
  <2>3. PathOK'
    BY <1>t, <1>k, <2>1 DEF TypeOK, PathOK
  <2> QED
    BY <2>2, <2>3
<1>5. ASSUME NEW c \in Logins, NEW e \in Emails, NEW p \in Passwords,
             Login(c, e, p)
      PROVE  TypeOK' /\ PathOK'
  <2>1. comicshub[e].user \in UserIDs \cup {0}
    <3>1. OwnerOf(e) = comicshub[e].user
      BY <1>t, Owners
    <3>2. OwnerOf(e) \in UserIDs \cup {0}
      BY <1>t, <1>k, Owners
    <3> QED
      BY <3>1, <3>2
  <2>2. /\ \/ uid' = uid
           \/ uid' = [uid EXCEPT ![c] = comicshub[e].user]
        /\ key' = [key EXCEPT ![c] = e] /\ arg' = [arg EXCEPT ![c] = p]
        /\ pc' = [pc EXCEPT ![c] = "done"]
        /\ faulted' \subseteq faulted \cup {c}
        /\ \/ reply' = [reply EXCEPT ![c] = "OK"]
           \/ reply' = [reply EXCEPT ![c] = "Internal"]
           \/ reply' = [reply EXCEPT ![c] = "Unauthenticated"]
        /\ UNCHANGED <<seq, users, comicshub, telegram, lock>>
    BY <1>5 DEF Login, GetComicshubByEmail, Answer, TokenCode, tables
  <2>3. TypeOK'
    BY <1>t, <1>k, <2>1, <2>2 DEF TypeOK, InTx
  <2>4. PathOK'
    BY <1>t, <1>k, <1>d, <1>e, <2>2 DEF TypeOK, PathOK
  <2> QED
    BY <2>3, <2>4
<1>6. ASSUME NEW c \in Telegrams, NEW t \in TgIDs, NEW p \in Profiles,
             TelegramBegin(c, t, p)
      PROVE  TypeOK' /\ PathOK'
  <2>1. TypeOK'
    BY <1>6, <1>t, <1>k DEF TelegramBegin, TypeOK, InTx, tables
  <2>2. PathOK'
    BY <1>6, <1>t, <1>k, <1>d, <1>e DEF TelegramBegin, TypeOK, PathOK
  <2> QED
    BY <2>1, <2>2
<1>7. ASSUME NEW c \in Telegrams, TelegramSelect(c)
      PROVE  TypeOK' /\ PathOK'
  <2>1. key[c] \in TgIDs
    BY <1>7, <1>t DEF TelegramSelect, PathOK
  <2>2. OwnerOf(key[c]) \in UserIDs \cup {0}
        /\ OwnerOf(key[c]) = telegram[key[c]].user
    BY <1>t, <1>k, <2>1, Owners
  <2>3. /\ \/ uid' = uid
           \/ uid' = [uid EXCEPT ![c] = telegram[key[c]].user]
        /\ \/ pc' = [pc EXCEPT ![c] = "update"]
           \/ pc' = [pc EXCEPT ![c] = "insTgUser"]
        /\ pc[c] = "select"
        /\ UNCHANGED <<seq, users, comicshub, telegram, key, arg, lock, reply,
                       faulted>>
    BY <1>7 DEF TelegramSelect, tables
  <2>4. TypeOK'
    BY <1>t, <1>k, <2>2, <2>3 DEF TypeOK, InTx
  <2>5. PathOK'
    BY <1>t, <1>k, <1>d, <1>e, <2>3 DEF TypeOK, PathOK
  <2> QED
    BY <2>4, <2>5
<1>8. ASSUME NEW c \in Telegrams, TelegramUpdate(c)
      PROVE  TypeOK' /\ PathOK'
  <2>1. TypeOK'
    BY <1>8, <1>t, <1>k DEF TelegramUpdate, TypeOK, InTx, tables
  <2>2. PathOK'
    BY <1>8, <1>t, <1>k, <1>d, <1>e DEF TelegramUpdate, TypeOK, PathOK
  <2> QED
    BY <2>1, <2>2
<1>9. ASSUME NEW c \in Telegrams, TelegramInsertUser(c)
      PROVE  TypeOK' /\ PathOK'
  <2>0. seq + 1 \in 1 .. Cardinality(Calls)
    BY <1>9, <1>t, <1>k, DrawsBounded
    DEF TelegramInsertUser, TypeOK, DrawsOK, Undrawn
  <2>1. TypeOK'
    BY <1>9, <1>t, <1>k, <2>0
    DEF TelegramInsertUser, DrawUserID, TypeOK, InTx, tables, UserIDs
  <2>2. PathOK'
    BY <1>9, <1>t, <1>k, <1>d, <1>e DEF TelegramInsertUser, TypeOK, PathOK
  <2> QED
    BY <2>1, <2>2
<1>10. ASSUME NEW c \in Telegrams, TelegramInsert(c)
       PROVE  TypeOK' /\ PathOK'
  <2>1. TypeOK'
    BY <1>10, <1>t, <1>k
    DEF TelegramInsert, Rollback, Answer, TypeOK, InTx, tables
  <2>2. PathOK'
    BY <1>10, <1>t, <1>k, <1>d, <1>e
    DEF TelegramInsert, Rollback, Answer, TypeOK, PathOK
  <2> QED
    BY <2>1, <2>2
<1>11. ASSUME NEW c \in Registers \cup Telegrams, StatementFails(c)
       PROVE  TypeOK' /\ PathOK'
  <2>1. TypeOK'
    BY <1>11, <1>t, <1>k
    DEF StatementFails, Rollback, Answer, TypeOK, tables
  <2>2. PathOK'
    BY <1>11, <1>t, <1>k
    DEF StatementFails, Rollback, Answer, TypeOK, PathOK, InTx
  <2> QED
    BY <2>1, <2>2
<1>12. CASE Terminated
  BY <1>12, <1>t DEF Terminated, vars, tables, TypeOK, PathOK
<1> QED
  BY <1>k, <1>1, <1>2, <1>3, <1>4, <1>5, <1>6, <1>7, <1>8, <1>9, <1>10, <1>11,
     <1>12
  DEF Next, RegisterStep, TelegramStep

\* Every step is one of these, of one call.
LEMMA StepKinds ==
  ASSUME AuthInv, Next
  PROVE  \/ UNCHANGED vars
         \/ \E c \in Calls :
              /\ OthersAlone(c)
              /\ \/ Begins(c) \/ Finds(c) \/ Draws(c) \/ Locks(c) \/ Fails(c)
                 \/ LogsIn(c)
                 \/ c \in Registers /\ RegisterCommit(c)
                 \/ c \in Telegrams /\ TelegramCommit(c)
<1>t. TypeOK /\ PathOK
  BY DEF AuthInv
<1>k. /\ Registers \subseteq Calls /\ Logins \subseteq Calls
      /\ Telegrams \subseteq Calls
  BY DEF Calls
<1>1. ASSUME NEW c \in Registers, NEW e \in Emails, NEW p \in Passwords,
             RegisterBegin(c, e, p)
      PROVE  OthersAlone(c) /\ Begins(c)
  BY <1>1, <1>t, <1>k DEF RegisterBegin, TypeOK, OthersAlone, Begins, tables
<1>2. ASSUME NEW c \in Registers, RegisterInsertUser(c)
      PROVE  OthersAlone(c) /\ Draws(c)
  BY <1>2, <1>t, <1>k
  DEF RegisterInsertUser, DrawUserID, TypeOK, OthersAlone, Draws, tables
<1>3. ASSUME NEW c \in Registers, RegisterInsertAccount(c)
      PROVE  OthersAlone(c) /\ (Locks(c) \/ Fails(c))
  <2>1. OthersAlone(c)
    BY <1>3, <1>t, <1>k
    DEF RegisterInsertAccount, Rollback, Answer, TypeOK, OthersAlone
  <2>2. key[c] \in Emails
    BY <1>3, <1>t DEF RegisterInsertAccount, PathOK
  <2>3. comicshub[key[c]] # NoRow <=> OwnerOf(key[c]) # 0
    BY <2>2, <1>t, Owners
  <2>4. CASE comicshub[key[c]] # NoRow
    BY <1>3, <1>t, <1>k, <2>1, <2>3, <2>4
    DEF RegisterInsertAccount, Rollback, Answer, TypeOK, Fails, InTx, tables
  <2>5. CASE comicshub[key[c]] = NoRow
    BY <1>3, <1>t, <1>k, <2>1, <2>3, <2>5
    DEF RegisterInsertAccount, TypeOK, Locks, tables
  <2> QED
    BY <2>1, <2>4, <2>5
<1>4. ASSUME NEW c \in Calls,
             \/ c \in Registers /\ RegisterCommit(c)
             \/ c \in Telegrams /\ TelegramCommit(c)
      PROVE  OthersAlone(c)
  BY <1>4, CommitEffect
<1>5. ASSUME NEW c \in Logins, NEW e \in Emails, NEW p \in Passwords,
             Login(c, e, p)
      PROVE  OthersAlone(c) /\ LogsIn(c)
  <2>1. OthersAlone(c)
    BY <1>5, <1>t, <1>k DEF Login, Answer, TypeOK, OthersAlone
  <2>2. /\ OwnerOf(e) = comicshub[e].user
        /\ comicshub[e] # NoRow <=> OwnerOf(e) # 0
    BY <1>t, Owners
  <2>3. uid[c] = 0
    BY <1>5, <1>k DEF Login, AuthInv, DrawsOK, Undrawn
  <2>4. key'[c] = e /\ pc'[c] = "done"
    BY <1>5, <1>t, <1>k DEF Login, Answer, TypeOK
  <2>5. \/ /\ uid'[c] = OwnerOf(e) /\ uid'[c] # 0
           /\ reply'[c] \in {"OK", "Internal"}
        \/ uid'[c] = 0 /\ reply'[c] = "Unauthenticated"
    BY <1>5, <1>t, <1>k, <2>2, <2>3
    DEF Login, GetComicshubByEmail, TokenCode, Answer, TypeOK
  <2> QED
    BY <1>5, <2>1, <2>4, <2>5 DEF Login, LogsIn
<1>6. ASSUME NEW c \in Telegrams, NEW t \in TgIDs, NEW p \in Profiles,
             TelegramBegin(c, t, p)
      PROVE  OthersAlone(c) /\ Begins(c)
  BY <1>6, <1>t, <1>k DEF TelegramBegin, TypeOK, OthersAlone, Begins, tables
<1>7. ASSUME NEW c \in Telegrams, TelegramSelect(c)
      PROVE  OthersAlone(c) /\ (Begins(c) \/ Finds(c))
  <2>1. OthersAlone(c)
    BY <1>7, <1>t, <1>k DEF TelegramSelect, TypeOK, OthersAlone
  <2>2. key[c] \in TgIDs
    BY <1>7, <1>t DEF TelegramSelect, PathOK
  <2>3. /\ OwnerOf(key[c]) = telegram[key[c]].user
        /\ telegram[key[c]] # NoRow <=> OwnerOf(key[c]) # 0
    BY <2>2, <1>t, Owners
  <2>4. CASE telegram[key[c]] # NoRow
    BY <1>7, <1>t, <1>k, <2>1, <2>3, <2>4
    DEF TelegramSelect, TypeOK, Finds, tables
  <2>5. CASE telegram[key[c]] = NoRow
    BY <1>7, <1>t, <1>k, <2>1, <2>5 DEF TelegramSelect, TypeOK, Begins, tables
  <2> QED
    BY <2>1, <2>4, <2>5
<1>8. ASSUME NEW c \in Telegrams, TelegramUpdate(c)
      PROVE  OthersAlone(c) /\ Locks(c)
  BY <1>8, <1>t, <1>k DEF TelegramUpdate, TypeOK, OthersAlone, Locks, tables
<1>9. ASSUME NEW c \in Telegrams, TelegramInsertUser(c)
      PROVE  OthersAlone(c) /\ Draws(c)
  BY <1>9, <1>t, <1>k
  DEF TelegramInsertUser, DrawUserID, TypeOK, OthersAlone, Draws, tables
<1>10. ASSUME NEW c \in Telegrams, TelegramInsert(c)
       PROVE  OthersAlone(c) /\ (Locks(c) \/ Fails(c))
  <2>1. OthersAlone(c)
    BY <1>10, <1>t, <1>k
    DEF TelegramInsert, Rollback, Answer, TypeOK, OthersAlone
  <2>2. key[c] \in TgIDs
    BY <1>10, <1>t DEF TelegramInsert, PathOK
  <2>3. telegram[key[c]] # NoRow <=> OwnerOf(key[c]) # 0
    BY <2>2, <1>t, Owners
  <2>4. CASE telegram[key[c]] # NoRow
    BY <1>10, <1>t, <1>k, <2>1, <2>4
    DEF TelegramInsert, Rollback, Answer, TypeOK, Fails, InTx, tables
  <2>5. CASE telegram[key[c]] = NoRow
    BY <1>10, <1>t, <1>k, <2>1, <2>3, <2>5
    DEF TelegramInsert, TypeOK, Locks, tables
  <2> QED
    BY <2>1, <2>4, <2>5
<1>11. ASSUME NEW c \in Registers \cup Telegrams, StatementFails(c)
       PROVE  OthersAlone(c) /\ Fails(c)
  BY <1>11, <1>t, <1>k
  DEF StatementFails, Rollback, Answer, TypeOK, OthersAlone, Fails, tables
<1>12. CASE Terminated
  BY <1>12 DEF Terminated
<1> QED
  BY <1>k, <1>1, <1>2, <1>3, <1>4, <1>5, <1>6, <1>7, <1>8, <1>9, <1>10, <1>11,
     <1>12
  DEF Next, RegisterStep, TelegramStep

-----------------------------------------------------------------------------
(* User ids.                                                               *)

\* A step of a call that had no id and gets one makes room for one more draw.
LEMMA OneMoreUid ==
  ASSUME DrawsOK, seq \in Nat, NEW c \in Calls, uid[c] = 0, uid'[c] # 0,
         \A d \in Calls \ {c} : uid'[d] = uid[d]
  PROVE  Cardinality(HaveUid') = Cardinality(HaveUid) + 1
<1>1. HaveUid' = HaveUid \cup {c} /\ c \notin HaveUid
  BY DEF HaveUid
<1>2. IsFiniteSet(HaveUid)
  BY DrawsBounded
<1> QED
  BY <1>1, <1>2, FS_AddElement

\* Every step keeps the ids apart.
LEMMA DrawsNext ==
  ASSUME AuthInv, Next
  PROVE  DrawsOK'
<1>t. /\ TypeOK /\ PathOK /\ DrawsOK /\ LocksOK /\ UsersAreOwners
      /\ seq \in Nat /\ Cardinality(HaveUid) \in Nat
      /\ Registers \subseteq Calls /\ Emails \subseteq Keys
  BY DrawsBounded DEF AuthInv, TypeOK, Calls, Keys
<1>s. \A k \in Keys : /\ OwnerOf(k) \in 0 .. seq
                      /\ OwnerOf(k) # 0 => OwnerOf(k) \in users
  <2>1. OwnersAreUsers
    BY <1>t, UsersMeans
  <2>2. \A k \in Keys : OwnerOf(k) # 0 => OwnerOf(k) \in users
    BY <2>1 DEF OwnersAreUsers
  <2>3. \A id \in users : id \in 0 .. seq
    <3>1. users \subseteq 1 .. seq /\ seq \in Nat
      BY <1>t DEF DrawsOK
    <3> QED
      BY <3>1
  <2>4. 0 \in 0 .. seq
    BY <1>t
  <2> QED
    BY <2>2, <2>3, <2>4
<1>1. CASE UNCHANGED vars
  <2>1. HaveUid' = HaveUid
    BY <1>1 DEF HaveUid, vars
  <2> QED
    BY <1>1, <1>t, <2>1 DEF DrawsOK, vars, tables
<1>2. ASSUME NEW c \in Calls, OthersAlone(c),
             Begins(c) \/ Locks(c) \/ Fails(c)
      PROVE  DrawsOK'
  <2>1. HaveUid' = HaveUid /\ UNCHANGED <<seq, users, uid>>
    BY <1>2 DEF HaveUid, Begins, Locks, Fails, tables
  <2>2. /\ pc'[c] \in Undrawn => pc[c] \in Undrawn
        /\ pc'[c] \in Fresh => pc[c] \in Fresh
    BY <1>2 DEF Begins, Locks, Fails, Undrawn, Fresh
  <2>3. \A d \in Calls : /\ pc'[d] \in Undrawn => pc[d] \in Undrawn
                         /\ pc'[d] \in Fresh => pc[d] \in Fresh
    BY <1>2, <2>2 DEF OthersAlone
  <2> QED
    BY <1>t, <2>1, <2>3 DEF DrawsOK
<1>3. ASSUME NEW c \in Calls, OthersAlone(c), Finds(c) \/ LogsIn(c)
      PROVE  DrawsOK'
  <2>1. /\ uid[c] = 0 /\ UNCHANGED <<seq, users>>
        /\ pc'[c] \notin Undrawn \cup Fresh
        /\ c \notin Registers
    BY <1>3, <1>t, AuthAssumption
    DEF Finds, LogsIn, DrawsOK, PathOK, Undrawn, Fresh, tables
  <2>2. uid'[c] \in 0 .. seq
    BY <1>3, <1>t, <1>s, AuthAssumption DEF Finds, LogsIn, PathOK, Calls, Keys
  <2>3. Cardinality(HaveUid') \in Nat /\ seq <= Cardinality(HaveUid')
    <3>1. CASE uid'[c] # 0
      BY <1>3, <1>t, <2>1, <3>1, OneMoreUid DEF OthersAlone, DrawsOK
    <3>2. CASE uid'[c] = 0
      <4>1. HaveUid' = HaveUid
        BY <1>3, <2>1, <3>2 DEF HaveUid, OthersAlone
      <4> QED
        BY <1>t, <4>1 DEF DrawsOK
    <3> QED
      BY <3>1, <3>2
  <2> QED
    BY <1>3, <1>t, <2>1, <2>2, <2>3 DEF DrawsOK, OthersAlone
<1>4. ASSUME NEW c \in Calls, OthersAlone(c), Draws(c)
      PROVE  DrawsOK'
  <2>1. /\ uid[c] = 0 /\ UNCHANGED users /\ pc'[c] \notin Undrawn
        /\ seq' = seq + 1 /\ uid'[c] = seq + 1
    BY <1>4, <1>t DEF Draws, DrawsOK, Undrawn, tables
  <2>2. seq' <= Cardinality(HaveUid')
    BY <1>4, <1>t, <2>1, OneMoreUid DEF OthersAlone, DrawsOK
  <2>3. users' \subseteq 1 .. seq' /\ uid'[c] \notin users'
    BY <1>t, <2>1 DEF DrawsOK
  <2>4. \A d \in Calls : uid'[d] \in 0 .. seq' /\ (d # c => uid'[d] # uid'[c])
    BY <1>4, <1>t, <2>1 DEF DrawsOK, OthersAlone
  <2> QED
    BY <1>4, <1>t, <2>1, <2>2, <2>3, <2>4 DEF DrawsOK, OthersAlone
<1>5. ASSUME NEW c \in Calls, OthersAlone(c),
             \/ c \in Registers /\ RegisterCommit(c)
             \/ c \in Telegrams /\ TelegramCommit(c)
      PROVE  DrawsOK'
  <2>1. Commits(c) /\ uid[c] # 0
    BY <1>5, CommitEffect
  <2>2. HaveUid' = HaveUid /\ UNCHANGED <<seq, uid>>
    BY <2>1 DEF HaveUid, Commits
  <2>3. /\ users' = users \cup {uid[c]} /\ users' \subseteq 1 .. seq
        /\ pc'[c] \notin Undrawn \cup Fresh
    <3>1. uid[c] \in 1 .. seq
      BY <1>t, <2>1 DEF DrawsOK
    <3>2. users' = users \cup {uid[c]} /\ pc'[c] \notin Undrawn \cup Fresh
      BY <2>1 DEF Commits, Undrawn, Fresh
    <3> QED
      BY <1>t, <3>1, <3>2 DEF DrawsOK
  <2>4. \A d \in Calls : pc'[d] \in Fresh => uid[d] \notin users'
    <3> SUFFICES ASSUME NEW d \in Calls, pc'[d] \in Fresh PROVE uid[d] # uid[c]
      BY <1>5, <1>t, <2>3 DEF OthersAlone, DrawsOK
    <3>1. d # c /\ pc[d] \in Fresh
      BY <1>5, <2>3 DEF OthersAlone
    <3>2. CASE pc[c] \in Fresh
      BY <1>t, <3>1, <3>2 DEF DrawsOK
    <3>3. CASE pc[c] = "commitUpd"
      <4>1. uid[c] = OwnerOf(key[c]) /\ key[c] \in Keys
        BY <1>5, <1>t, <3>3, CommitEffect DEF LocksOK, Found
      <4> QED
        BY <1>s, <1>t, <2>1, <3>1, <4>1 DEF DrawsOK
    <3> QED
      BY <2>1, <3>2, <3>3 DEF Commits, Committing, Fresh
  <2> QED
    BY <1>5, <1>t, <2>2, <2>3, <2>4 DEF DrawsOK, OthersAlone
<1> QED
  BY <1>1, <1>2, <1>3, <1>4, <1>5, StepKinds

-----------------------------------------------------------------------------
(* Locks, owners and answers.                                              *)

\* Without a commit every key keeps its owner.
LEMMA OwnersKept ==
  ASSUME UNCHANGED tables
  PROVE  \A k : OwnerOf(k)' = OwnerOf(k)
  BY DEF OwnerOf, tables

\* A key that has an owner keeps it whatever happens.
LEMMA OwnersStay ==
  ASSUME AuthInv, Next
  PROVE  \A k \in Keys : OwnerOf(k) # 0 => OwnerOf(k)' = OwnerOf(k)
<1>1. CASE UNCHANGED tables
  BY <1>1, OwnersKept
<1>2. ASSUME NEW c \in Calls,
             \/ c \in Registers /\ RegisterCommit(c)
             \/ c \in Telegrams /\ TelegramCommit(c)
      PROVE  \A k \in Keys : OwnerOf(k) # 0 => OwnerOf(k)' = OwnerOf(k)
  BY <1>2, CommitEffect DEF Commits
<1>3. \/ UNCHANGED tables
      \/ \E c \in Calls : \/ c \in Registers /\ RegisterCommit(c)
                          \/ c \in Telegrams /\ TelegramCommit(c)
  BY StepKinds DEF Begins, Finds, Draws, Locks, Fails, LogsIn, vars
<1> QED
  BY <1>1, <1>2, <1>3

\* The keys of the calls under way.
LEMMA KeysOfCalls ==
  ASSUME PathOK
  PROVE  \A c \in Calls : pc[c] # "new" => key[c] \in Keys /\ key[c] # None
  BY AuthAssumption DEF PathOK, Calls, Keys

\* Every step keeps the locks right: who waits for a key finds it free or
\* taken for good.
LEMMA LocksNext ==
  ASSUME AuthInv, Next
  PROVE  LocksOK'
<1>t. TypeOK /\ PathOK /\ DrawsOK /\ LocksOK
  BY DEF AuthInv
<1>1. CASE UNCHANGED vars
  BY <1>1, <1>t DEF LocksOK, OwnerOf, vars, tables
<1>2. ASSUME NEW c \in Calls, OthersAlone(c),
             \/ Begins(c) \/ Finds(c) \/ Draws(c) \/ Locks(c) \/ Fails(c)
             \/ LogsIn(c)
      PROVE  LocksOK'
  <2>0. \A k : OwnerOf(k)' = OwnerOf(k)
    BY <1>2, OwnersKept DEF Begins, Finds, Draws, Locks, Fails, LogsIn
  <2>1. lock'[c] = IF pc'[c] \in Committing THEN key'[c] ELSE None
    BY <1>2, <1>t
    DEF Begins, Finds, Draws, Locks, Fails, LogsIn, LocksOK, Committing
  <2>2. lock'[c] # None => \A d \in Calls : lock'[d] = lock'[c] => d = c
    <3>1. CASE Locks(c)
      BY <1>2, <3>1 DEF Locks, Blocked, OthersAlone
    <3>2. CASE ~Locks(c)
      BY <1>2, <1>t, <2>1, <3>2
      DEF Begins, Finds, Draws, Fails, LogsIn, Committing
    <3> QED
      BY <3>1, <3>2
  <2>3. /\ pc'[c] \in {"commitAcc", "commitTg"} => OwnerOf(key'[c]) = 0
        /\ pc'[c] \in Found => uid'[c] # 0 /\ OwnerOf(key'[c]) = uid'[c]
    BY <1>2, <1>t
    DEF Begins, Finds, Draws, Locks, Fails, LogsIn, LocksOK, Found
  <2>4. \A d \in Calls :
          lock'[d] = IF pc'[d] \in Committing THEN key'[d] ELSE None
    BY <1>2, <1>t, <2>1 DEF LocksOK, OthersAlone
  <2>5. \A d, e \in Calls : lock'[d] # None /\ lock'[d] = lock'[e] => d = e
    BY <1>2, <1>t, <2>2 DEF LocksOK, OthersAlone
  <2>6. \A d \in Calls :
          /\ pc'[d] \in {"commitAcc", "commitTg"} => OwnerOf(key'[d]) = 0
          /\ pc'[d] \in Found => uid'[d] # 0 /\ OwnerOf(key'[d]) = uid'[d]
    BY <1>2, <1>t, <2>3 DEF LocksOK, OthersAlone
  <2>7. \A d \in Calls : OwnerOf(key[d])' = OwnerOf(key'[d])
    BY <2>0 DEF OwnerOf
  <2> QED
    BY <2>4, <2>5, <2>6, <2>7 DEF LocksOK
<1>3. ASSUME NEW c \in Calls, OthersAlone(c),
             \/ c \in Registers /\ RegisterCommit(c)
             \/ c \in Telegrams /\ TelegramCommit(c)
      PROVE  LocksOK'
  <2>1. /\ Commits(c) /\ key[c] \in Keys
        /\ OwnerOf(key[c]) = 0 \/ OwnerOf(key[c]) = uid[c]
    BY <1>3, CommitEffect
  <2>2. pc'[c] = "done" /\ lock'[c] = None /\ UNCHANGED <<key, uid>>
    BY <2>1 DEF Commits
  <2>3. \A d \in Calls :
          lock'[d] = IF pc'[d] \in Committing THEN key'[d] ELSE None
    BY <1>3, <1>t, <2>2 DEF LocksOK, OthersAlone, Committing
  <2>4. \A d, e \in Calls : lock'[d] # None /\ lock'[d] = lock'[e] => d = e
    BY <1>3, <1>t, <2>2 DEF LocksOK, OthersAlone
  <2>5. ASSUME NEW d \in Calls, pc'[d] \in {"commitAcc", "commitTg"}
        PROVE  OwnerOf(key[d])' = 0
    <3>1. d # c /\ pc[d] = pc'[d] /\ pc[d] \in Committing
      BY <1>3, <2>2, <2>5 DEF OthersAlone, Committing
    <3>2. key[d] # key[c] /\ key[d] \in Keys
      BY <1>t, <2>1, <2>5, <3>1, KeysOfCalls DEF LocksOK, Commits
    <3>3. OwnerOf(key[d]) = 0
      BY <1>t, <2>5, <3>1 DEF LocksOK
    <3> QED
      BY <2>1, <2>2, <3>2, <3>3 DEF Commits, OwnerOf
  <2>6. ASSUME NEW d \in Calls, pc'[d] \in Found
        PROVE  uid'[d] # 0 /\ OwnerOf(key[d])' = uid'[d]
    <3>1. d # c /\ pc[d] = pc'[d]
      BY <1>3, <2>2, <2>6 DEF OthersAlone, Found
    <3>2. uid[d] # 0 /\ OwnerOf(key[d]) = uid[d]
      BY <1>t, <2>6, <3>1 DEF LocksOK
    <3>3. key[d] \in Keys
      BY <1>t, <2>6, <3>1, KeysOfCalls DEF Found
    <3> QED
      BY <2>2, <3>2, <3>3, OwnersStay DEF OwnerOf
  <2> QED
    BY <2>3, <2>4, <2>5, <2>6 DEF LocksOK
<1> QED
  BY <1>1, <1>2, <1>3, StepKinds

\* Every step keeps users and owners the same.
LEMMA UsersNext ==
  ASSUME AuthInv, Next
  PROVE  UsersAreOwners'
<1>t. TypeOK /\ UsersAreOwners
  BY DEF AuthInv
<1>u. OwnersAreUsers
  BY <1>t, UsersMeans
<1>p. \/ UNCHANGED tables
      \/ \E c \in Calls : \/ c \in Registers /\ RegisterCommit(c)
                          \/ c \in Telegrams /\ TelegramCommit(c)
  BY StepKinds DEF Begins, Finds, Draws, Locks, Fails, LogsIn, vars
<1>1. CASE UNCHANGED tables
  BY <1>1, <1>t
  DEF UsersAreOwners, RegisteredEmails, LinkedTgIDs, OwnerOf, tables
<1>2. ASSUME NEW c \in Calls,
             \/ c \in Registers /\ RegisterCommit(c)
             \/ c \in Telegrams /\ TelegramCommit(c)
      PROVE  UsersAreOwners'
  <2>1. /\ Commits(c) /\ key[c] \in Keys /\ uid[c] # 0
        /\ \/ OwnerOf(key[c]) = 0 /\ uid[c] \notin users
           \/ OwnerOf(key[c]) = uid[c]
    BY <1>2, CommitEffect
  <2> DEFINE new(k) == IF k = key[c] THEN uid[c] ELSE OwnerOf(k)
  <2>2. \A k \in Keys : OwnerOf(k)' = new(k)
    BY <2>1 DEF Commits
  <2>3. users' = users \cup {uid[c]}
    BY <2>1 DEF Commits
  <2>4. \A id : id \in users' <=> \E k \in Keys : new(k) = id /\ id # 0
    BY <1>u, <2>1, <2>3 DEF OwnersAreUsers
  <2>5. \A j, k \in Keys : new(j) # 0 /\ new(j) = new(k) => j = k
    BY <1>u, <2>1 DEF OwnersAreUsers
  <2>6. TypeOK'
    BY TypeNext
  <2>7. OwnersAreUsers'
    BY <2>2, <2>4, <2>5 DEF OwnersAreUsers
  <2> QED
    BY <2>6, <2>7, UsersMeansNext
<1> QED
  BY <1>p, <1>1, <1>2

\* Every step keeps the answers true.
LEMMA AnswersNext ==
  ASSUME AuthInv, Next
  PROVE  AnswersOK'
<1>t. /\ TypeOK /\ PathOK /\ DrawsOK /\ LocksOK /\ UsersAreOwners /\ AnswersOK
      /\ Registers \subseteq Calls
  BY DEF AuthInv, Calls
<1>k. \A d \in Calls : reply[d] # "none" => key[d] \in Keys
  BY <1>t, KeysOfCalls DEF PathOK
<1>o. \A k \in Keys : OwnerOf(k) # 0 => OwnerOf(k)' = OwnerOf(k)
  BY OwnersStay
<1>1. CASE UNCHANGED vars
  BY <1>1, <1>t DEF AnswersOK, OwnerOf, vars, tables
<1>2. ASSUME NEW c \in Calls, OthersAlone(c),
             /\ reply'[c] = "OK" => uid'[c] # 0 /\ uid'[c] = OwnerOf(key[c])'
             /\ reply'[c] = "AlreadyExists" /\ c \in Registers =>
                  OwnerOf(key[c])' \notin {0, uid'[c]}
      PROVE  AnswersOK'
  <2>1. ASSUME NEW d \in Calls, d # c, reply'[d] = "OK"
        PROVE  uid'[d] # 0 /\ uid'[d] = OwnerOf(key[d])'
    <3>1. /\ key'[d] = key[d] /\ uid'[d] = uid[d] /\ key[d] \in Keys
          /\ uid[d] # 0 /\ uid[d] = OwnerOf(key[d])
      BY <1>2, <1>t, <1>k, <2>1 DEF OthersAlone, AnswersOK
    <3> QED
      BY <1>o, <3>1 DEF OwnerOf
  <2>2. ASSUME NEW d \in Registers, d # c, reply'[d] = "AlreadyExists"
        PROVE  OwnerOf(key[d])' \notin {0, uid'[d]}
    <3>1. /\ key'[d] = key[d] /\ uid'[d] = uid[d] /\ key[d] \in Keys
          /\ OwnerOf(key[d]) \notin {0, uid[d]}
      BY <1>2, <1>t, <1>k, <2>2 DEF OthersAlone, AnswersOK
    <3> QED
      BY <1>o, <3>1 DEF OwnerOf
  <2> QED
    BY <1>2, <2>1, <2>2 DEF AnswersOK
<1>3. ASSUME NEW c \in Calls, OthersAlone(c),
             \/ Begins(c) \/ Finds(c) \/ Draws(c) \/ Locks(c)
      PROVE  AnswersOK'
  <2>1. reply'[c] = "none"
    BY <1>3, <1>t DEF Begins, Finds, Draws, Locks, PathOK
  <2> QED
    BY <1>2, <1>3, <2>1
<1>4. ASSUME NEW c \in Calls, OthersAlone(c), Fails(c) PROVE AnswersOK'
  <2>1. reply'[c] # "OK"
    BY <1>4 DEF Fails
  <2>2. ASSUME reply'[c] = "AlreadyExists", c \in Registers
        PROVE  OwnerOf(key[c])' \notin {0, uid'[c]}
    <3>1. /\ pc[c] = "insAcc" /\ OwnerOf(key[c]) # 0
          /\ UNCHANGED <<key, uid, tables>>
      BY <1>4, <2>2 DEF Fails
    <3>2. uid[c] \notin users /\ key[c] \in Keys
      BY <1>t, <3>1, KeysOfCalls DEF DrawsOK, Fresh
    <3>3. OwnerOf(key[c]) \in users
      BY <1>t, <3>1, <3>2, UsersMeans DEF OwnersAreUsers
    <3>4. OwnerOf(key[c])' = OwnerOf(key[c])
      BY <3>1 DEF OwnerOf, tables
    <3> QED
      BY <3>1, <3>2, <3>3, <3>4
  <2> QED
    BY <1>2, <1>4, <2>1, <2>2
<1>5. ASSUME NEW c \in Calls, OthersAlone(c), LogsIn(c) PROVE AnswersOK'
  <2>1. reply'[c] # "AlreadyExists" /\ UNCHANGED tables
    BY <1>5 DEF LogsIn
  <2>2. ASSUME reply'[c] = "OK" PROVE uid'[c] # 0 /\ uid'[c] = OwnerOf(key[c])'
    <3>1. uid'[c] # 0 /\ uid'[c] = OwnerOf(key'[c])
      BY <1>5, <2>2 DEF LogsIn
    <3> QED
      BY <2>1, <3>1 DEF OwnerOf, tables
  <2> QED
    BY <1>2, <1>5, <2>1, <2>2
<1>6. ASSUME NEW c \in Calls, OthersAlone(c),
             \/ c \in Registers /\ RegisterCommit(c)
             \/ c \in Telegrams /\ TelegramCommit(c)
      PROVE  AnswersOK'
  <2>1. Commits(c) /\ uid[c] # 0
    BY <1>6, CommitEffect
  <2>2. /\ reply'[c] # "AlreadyExists" /\ uid'[c] = uid[c]
        /\ OwnerOf(key[c])' = uid'[c]
    BY <2>1 DEF Commits
  <2> QED
    BY <1>2, <1>6, <2>1, <2>2
<1> QED
  BY <1>1, <1>3, <1>4, <1>5, <1>6, StepKinds

-----------------------------------------------------------------------------
(* The theorems.                                                           *)

\* The invariant holds in every state, for any number of calls and keys.
THEOREM AuthInvariant == Spec => []AuthInv
<1>1. AuthInv /\ [Next]_vars => AuthInv'
  <2> SUFFICES ASSUME AuthInv, [Next]_vars PROVE AuthInv'
    OBVIOUS
  <2>1. CASE Next
    BY <2>1, TypeNext, DrawsNext, LocksNext, UsersNext, AnswersNext DEF AuthInv
  <2>2. CASE UNCHANGED vars
    <3>1. HaveUid' = HaveUid
      BY <2>2 DEF HaveUid, vars
    <3>2. TypeOK' /\ PathOK'
      BY <2>2 DEF AuthInv, TypeOK, PathOK, vars, tables
    <3>3. DrawsOK'
      BY <2>2, <3>1 DEF AuthInv, DrawsOK, vars, tables
    <3>4. LocksOK' /\ AnswersOK'
      BY <2>2 DEF AuthInv, LocksOK, AnswersOK, OwnerOf, vars, tables
    <3>5. UsersAreOwners'
      BY <2>2 DEF AuthInv, UsersAreOwners, RegisteredEmails, LinkedTgIDs,
                  OwnerOf, vars, tables
    <3> QED
      BY <3>2, <3>3, <3>4, <3>5 DEF AuthInv
  <2> QED
    BY <2>1, <2>2
<1> QED
  BY <1>1, AuthInit, PTL DEF Spec

\* Every variable of the auth service keeps its type; no call draws more than
\* one user id.
THEOREM AuthTypes == Spec => []TypeOK
<1>1. AuthInv => TypeOK
  BY DEF AuthInv
<1> QED
  BY <1>1, AuthInvariant, PTL

\* There is never a user without an account or an account without a user, and
\* no user has two, whichever statement of whichever sign-up fails.
THEOREM NoOrphans == Spec => []UsersAreOwners
<1>1. AuthInv => UsersAreOwners
  BY DEF AuthInv
<1> QED
  BY <1>1, AuthInvariant, PTL

\* Every token ever handed out names the owner of the key it was asked for.
THEOREM RightTokens == Spec => []TokensNameTheOwner
<1>1. AuthInv => TokensNameTheOwner
  BY DEF AuthInv, AnswersOK, TokensNameTheOwner
<1> QED
  BY <1>1, AuthInvariant, PTL

\* Of the Registers of one e-mail, however many and however interleaved, at
\* most one is answered OK, and AlreadyExists is true when it is answered.
THEOREM RegisteredOnce == Spec => []OneRegistrationPerEmail
<1>1. AuthInv => OneRegistrationPerEmail
  <2> SUFFICES ASSUME AuthInv PROVE OneRegistrationPerEmail
    OBVIOUS
  <2>1. ASSUME NEW c \in Registers, NEW d \in Registers, reply[c] = "OK",
               reply[d] = "OK", key[c] = key[d]
        PROVE  c = d
    <3>1. uid[c] # 0 /\ uid[c] = uid[d]
      BY <2>1 DEF AuthInv, AnswersOK, Calls
    <3> QED
      BY <3>1 DEF AuthInv, DrawsOK
  <2>2. ASSUME NEW c \in Registers, reply[c] = "AlreadyExists"
        PROVE  OwnerOf(key[c]) \notin {0, uid[c]}
    BY <2>2 DEF AuthInv, AnswersOK
  <2> QED
    BY <2>1, <2>2 DEF OneRegistrationPerEmail
<1> QED
  BY <1>1, AuthInvariant, PTL

\* A key is locked only by a call that is about to commit and waits for
\* nobody, so that no chain of waiting calls is longer than one.
THEOREM NobodyWaitsForEver == Spec => []WaitingEnds
<1>1. AuthInv => WaitingEnds
  <2> SUFFICES ASSUME AuthInv, NEW c \in Calls, lock[c] # None
               PROVE  pc[c] \in Committing /\ ~Blocked(c, lock[c])
    BY DEF WaitingEnds, Committing
  <2> QED
    BY DEF AuthInv, LocksOK, Blocked
<1> QED
  BY <1>1, AuthInvariant, PTL

\* A key never changes hands and a registered password is never replaced.
THEOREM KeysKeepTheirOwners == Spec => OwnersAreStable
<1> DEFINE Stable ==
      /\ \A e \in RegisteredEmails : comicshub'[e] = comicshub[e]
      /\ \A t \in LinkedTgIDs : telegram'[t].user = telegram[t].user
<1>1. ASSUME AuthInv, [Next]_vars PROVE [Stable]_vars
  <2>t. TypeOK
    BY <1>1 DEF AuthInv
  <2>1. ASSUME NEW c \in Registers, RegisterCommit(c) PROVE Stable
    <3>1. key[c] \in Emails /\ OwnerOf(key[c]) = 0
      BY <1>1, <2>1 DEF AuthInv, PathOK, LocksOK, RegisterCommit, Calls
    <3>2. key[c] \notin RegisteredEmails
      BY <2>t, <3>1, Owners DEF RegisteredEmails
    <3> QED
      BY <2>t, <2>1, <3>2 DEF TypeOK, RegisterCommit, RegisteredEmails
  <2>2. ASSUME NEW c \in Telegrams, TelegramCommit(c) PROVE Stable
    <3>1. Next
      BY <2>2 DEF Next, TelegramStep
    <3>2. \A t \in LinkedTgIDs : t \in Keys /\ t \notin Emails /\ OwnerOf(t) # 0
      BY <2>t, Owners, AuthAssumption DEF LinkedTgIDs, Keys
    <3>3. \A t \in LinkedTgIDs : OwnerOf(t)' = OwnerOf(t)
      BY <1>1, <3>1, <3>2, OwnersStay
    <3>4. \A t \in LinkedTgIDs : telegram'[t].user = telegram[t].user
      BY <3>2, <3>3 DEF OwnerOf
    <3> QED
      BY <2>2, <3>4 DEF TelegramCommit
  <2>3. CASE UNCHANGED tables
    BY <2>3 DEF tables
  <2>4. CASE UNCHANGED vars
    BY <2>4
  <2> QED
    BY <1>1, <2>1, <2>2, <2>3, <2>4, StepKinds
    DEF Begins, Finds, Draws, Locks, Fails, LogsIn
<1>2. []AuthInv /\ [][Next]_vars => [][Stable]_vars
  BY <1>1, PTL
<1> QED
  BY <1>2, AuthInvariant, PTL DEF Spec, OwnersAreStable
=============================================================================
