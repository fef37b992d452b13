---------------------------- MODULE UserStoreProofs ----------------------------
(***************************************************************************)
(* Proofs about UserStore, for any number of requests, names, passwords,   *)
(* paths and values, and of secrets that are drawn.                        *)
(*                                                                         *)
(* SoleUser rests on the locks: who has counted the users holds SHARED, so *)
(* that nobody commits one before it has ended.  OthersLoggedOut rests on  *)
(* SoleUser, as a change of the password retires every token, and on each  *)
(* secret that is about to be stored being new to all tokens.              *)
(***************************************************************************)
EXTENDS UserStore, TLAPS

LockInv ==
    /\ reserved # None => reserved \in shared
    /\ \A a \in Actor : pc[a] \in {"counted", "refused"} => a \in shared

NoUser == \A i \in Request : ~IsUser(i)

(* A transaction that creates the user, from its first to its last write. *)
Creating(a) == pc[a] = "written" /\ copy[a] = None

CreateInv ==
    /\ \A a \in Actor : pc[a] \in {"idle", "counted", "refused"} => copy[a] = None
    /\ \A a \in Actor : pc[a] = "counted" \/ Creating(a) => NoUser
    /\ \A a \in Actor : Creating(a) => a \in Request /\ id[a] = a
    /\ \A a \in Actor : pc[a] = "written" /\ copy[a] # None =>
         id[a] \in Request /\ IsUser(id[a])

Stored == {users[i].secret : i \in {k \in Request : IsUser(k)}}
Keys   == {t.key : t \in tokens}

(* A secret that is drawn and not yet stored is known to nobody else, and  *)
(* the secret of a user is not that of a token which was retired.          *)
SecretInv ==
    /\ \A s \in Stored \cup Keys : s <= secrets
    /\ retired \subseteq Keys /\ Stored \cap retired = {}
    /\ \A a \in Actor : pc[a] \in {"drawn", "written"} =>
         /\ pending[a].secret <= secrets
         /\ pending[a].secret \notin Stored \cup Keys
         /\ \A b \in Actor : pc[b] \in {"drawn", "written"} /\ pending[b].secret = pending[a].secret
                => a = b

(* The copies that nobody has outdated have the storage of the row. *)
JsonInv ==
    /\ NoUser => wanted = [p \in Path |-> None]
    /\ \A a \in Actor : Creating(a) => pending[a].json = [p \in Path |-> None]
    /\ \A r \in Request \ stale : copy[r] # None =>
         id[r] \in Request /\ IsUser(id[r]) /\ copy[r].json = users[id[r]].json

IInv ==
    /\ TypeOK
    /\ LockInv
    /\ CreateInv
    /\ SoleUser
    /\ SecretInv
    /\ JsonInv
    /\ StorageAddsUp

LEMMA EditedIsJson ==
    ASSUME NEW json \in Json, NEW P \in SUBSET Path, NEW value \in Value \cup {None}
    PROVE  Edited(json, P, value) \in Json
  BY DEF Edited, Json

(* A drawn secret is the next one, and goes with the copy into what is pending. *)
LEMMA DrawIsNext ==
    ASSUME TypeOK, NEW a \in Actor, NEW password \in Password,
           copy[a] # None, DrawSecret(a, password)
    PROVE  /\ secrets' = secrets + 1 /\ secrets' \in Secret
           /\ \E user \in User : pending' = [pending EXCEPT ![a] = user] /\ user.secret = secrets'
<1>. USE SecretAssumption
<1>1. secrets' = secrets + 1 /\ secrets' \in Secret
  BY DEF TypeOK, DrawSecret, Draw, Secret
<1>2. copy[a] \in User /\ HashOf(secrets', password) \in Hash
  BY <1>1 DEF TypeOK, HashOf, Hash
<1>3. /\ [copy[a] EXCEPT !.secret = secrets', !.hash = HashOf(secrets', password)] \in User
      /\ [copy[a] EXCEPT !.secret = secrets', !.hash = HashOf(secrets', password)].secret = secrets'
  BY <1>1, <1>2 DEF User
<1>4. pending' = [pending EXCEPT ![a] =
        [copy[a] EXCEPT !.secret = secrets', !.hash = HashOf(secrets', password)]]
  BY DEF DrawSecret, NewSecret
<1>. QED
  BY <1>1, <1>3, <1>4

(* gorm sets the fields of the copy: it takes the secret over, and nothing else changes in it. *)
LEMMA CopyTakes ==
    ASSUME TypeOK, NEW a \in Actor, pc[a] = "drawn", CopySecret(a)
    PROVE  \E user \in User :
              copy' = [copy EXCEPT ![a] = user] /\ user.json = copy[a].json
<1>. DEFINE user == [copy[a] EXCEPT !.secret = pending[a].secret, !.hash = pending[a].hash]
<1>1. copy[a] \in User /\ pending[a] \in User
  BY DEF TypeOK
<1>2. pending[a].secret \in Secret /\ pending[a].hash \in Hash
  BY <1>1 DEF User
<1>3. user \in User /\ user.json = copy[a].json
  BY <1>1, <1>2 DEF User
<1>4. copy' = [copy EXCEPT ![a] = user]
  BY <1>1 DEF CopySecret, TypeOK, User
<1>. QED
  BY <1>3, <1>4

(* A commit creates the user, or replaces the secret and the hash of it. *)
LEMMA CommitStores ==
    ASSUME TypeOK, CreateInv, NEW a \in Actor, Commit(a)
    PROVE  /\ id[a] \in Request /\ pending[a] \in User
           /\ \E user \in User :
                /\ users' = [users EXCEPT ![id[a]] = user]
                /\ user.secret = pending[a].secret
                /\ user.json = IF Creating(a) THEN pending[a].json ELSE users[id[a]].json
           /\ Creating(a) => NoUser
           /\ ~Creating(a) => IsUser(id[a])
<1>1. pc[a] = "written" /\ id[a] \in Request /\ pending[a] \in User
  BY DEF Commit, HandOut, CreateInv, Creating, TypeOK
<1>2. /\ Creating(a) => NoUser
      /\ ~Creating(a) => IsUser(id[a])
  BY <1>1 DEF CreateInv, Creating
<1>3. CASE Creating(a)
  BY <1>1, <1>2, <1>3 DEF Commit, NoUser, IsUser
<1>4. CASE ~Creating(a)
  <2>. DEFINE user == [users[id[a]] EXCEPT !.secret = pending[a].secret, !.hash = pending[a].hash]
  <2>1. users[id[a]] \in User /\ pending[a].secret \in Secret /\ pending[a].hash \in Hash
    BY <1>1, <1>2, <1>4 DEF TypeOK, IsUser, User
  <2>2. user \in User /\ user.secret = pending[a].secret /\ user.json = users[id[a]].json
    BY <2>1 DEF User
  <2>3. users' = [users EXCEPT ![id[a]] = user]
    BY <1>2, <1>4 DEF Commit, IsUser
  <2>. QED
    BY <1>1, <1>2, <1>4, <2>2, <2>3
<1>. QED
  BY <1>3, <1>4

(* Secrets are numbers, and one that was just drawn is above all others. *)
LEMMA NewestSecret ==
    ASSUME TypeOK, SecretInv
    PROVE  /\ secrets \in Nat
           /\ Stored \cup Keys \subseteq Nat /\ \A s \in Stored \cup Keys : s # secrets + 1
           /\ \A a \in Actor : pc[a] \in {"drawn", "written"} =>
                pending[a].secret \in Nat /\ pending[a].secret # secrets + 1
<1>1. Stored \cup Keys \subseteq Nat
  BY DEF TypeOK, Stored, Keys, IsUser, User, Token, Secret
<1>2. \A a \in Actor : pc[a] \in {"drawn", "written"} => pending[a].secret \in Nat
  BY DEF TypeOK, User, Secret
<1>3. secrets \in Nat
  BY SecretAssumption DEF TypeOK
<1>. QED
  BY <1>1, <1>2, <1>3 DEF SecretInv

LEMMA FreshSecret ==
    ASSUME TypeOK, SecretInv, NEW a \in Actor,
           users' = users, tokens' = tokens, retired' = retired,
           secrets' = secrets + 1, pending'[a].secret = secrets + 1,
           \A b \in Actor \ {a} : pending'[b] = pending[b] /\ pc'[b] = pc[b]
    PROVE  SecretInv'
<1>1. Stored' = Stored /\ Keys' = Keys
  BY DEF Stored, Keys, IsUser
<1>2. /\ secrets \in Nat
      /\ Stored \cup Keys \subseteq Nat /\ \A s \in Stored \cup Keys : s # secrets + 1
      /\ \A b \in Actor : pc[b] \in {"drawn", "written"} =>
           pending[b].secret \in Nat /\ pending[b].secret # secrets + 1
  BY NewestSecret
<1>3. \A s \in Stored \cup Keys : s <= secrets + 1
  BY <1>2 DEF SecretInv
<1>4. ASSUME NEW c \in Actor, (pc[c] \in {"drawn", "written"})'
      PROVE  /\ (pending[c].secret)' <= secrets + 1
             /\ (pending[c].secret)' \notin Stored \cup Keys
             /\ \A b \in Actor : (pc[b] \in {"drawn", "written"})' /\ (pending[b].secret)' = (pending[c].secret)'
                    => c = b
  <2>1. CASE c = a
    BY <1>2, <2>1
  <2>2. CASE c # a
    BY <1>2, <1>4, <2>2 DEF SecretInv
  <2>. QED
    BY <2>1, <2>2
<1>. QED
  BY <1>1, <1>3, <1>4 DEF SecretInv

(* The variables keep their types. *)
LEMMA TypeStep ==
    ASSUME IInv, [Next]_vars
    PROVE  TypeOK'
<1>. USE NoneAssumption, ActorAssumption, SecretAssumption
     DEF IInv, TypeOK, Actor, lockVars, actorVars, historyVars, Goes, IsUser,
         LockInv, CreateInv, Creating
<1>1. ASSUME NEW name \in Username, NEW password \in Password, LogIn(name, password)
      PROVE  TypeOK'
  <2>1. tokens' \subseteq Token
    BY <1>1 DEF LogIn, TokenFor, Token, User
  <2>. QED
    BY <1>1, <2>1 DEF LogIn
<1>2. ASSUME NEW r \in Request, CountUsers(r)
      PROVE  TypeOK'
  BY <1>2 DEF CountUsers, CountsInside
<1>3. ASSUME NEW r \in Request, NEW name \in Username, NEW password \in Password, InsertUser(r, name, password)
      PROVE  TypeOK'
  <2>1. secrets' \in Secret /\ secrets' \in 0..MaxSecret
    BY <1>3 DEF InsertUser, Draw, Secret
  <2>2. [p \in Path |-> None] \in Json /\ HashOf(secrets', password) \in Hash
    BY <2>1 DEF Json, Hash, HashOf
  <2>3. [name |-> name, secret |-> secrets', hash |-> HashOf(secrets', password),
         json |-> [p \in Path |-> None]] \in User
    BY <2>1, <2>2 DEF User
  <2>4. pending' \in [Actor -> User \cup {None}] /\ pending'[r] # None
    BY <1>3, <2>3 DEF InsertUser
  <2>. QED
    BY <1>3, <2>1, <2>4 DEF InsertUser, MayWrite
<1>4. ASSUME NEW r \in Request, InsertRefused(r)
      PROVE  TypeOK'
  BY <1>4 DEF InsertRefused, Ends
<1>5. ASSUME NEW r \in Request, NEW t \in tokens, Authenticate(r, t)
      PROVE  TypeOK'
  BY <1>5 DEF Authenticate, Accepts
<1>6. ASSUME NEW r \in Request, NEW P \in SUBSET Path, NEW value \in Value \cup {None}, StoreJson(r, P, value)
      PROVE  TypeOK'
  <2>1. copy[r] \in User /\ id[r] \in Request /\ users[id[r]] \in User
    BY <1>6 DEF StoreJson
  <2>2. Edited(copy[r].json, P, value) \in Json
    BY <2>1, EditedIsJson DEF User
  <2>. DEFINE user == [copy[r] EXCEPT !.json = Edited(@, P, value)]
  <2>3. user \in User /\ user.json \in Json
    BY <2>1, <2>2 DEF User
  <2>4. users' = [users EXCEPT ![id[r]] = [users[id[r]] EXCEPT !.json = user.json]]
    BY <1>6 DEF StoreJson, WithJson
  <2>5. [users[id[r]] EXCEPT !.json = user.json] \in User
    BY <2>1, <2>3 DEF User
  <2>6. users' \in [Request -> User \cup {None}] /\ \A i \in Request : IsUser(i) => IsUser(i)'
    BY <2>1, <2>4, <2>5
  <2>7. copy' = [copy EXCEPT ![r] = user]
    BY <1>6 DEF StoreJson, CopyAfter
  <2>8. copy' \in [Actor -> User \cup {None}] /\ copy'[r] # None
    BY <2>3, <2>7
  <2>9. wanted' \in Json \cup {None} /\ stale' \subseteq Request
    BY <1>6, EditedIsJson DEF StoreJson
  <2>. QED
    BY <1>6, <2>6, <2>7, <2>8, <2>9 DEF StoreJson
<1>7. ASSUME NEW r \in Request, NEW P \in SUBSET Path, NEW value \in Value \cup {None}, StoreJsonFails(r, P, value)
      PROVE  TypeOK'
  <2>1. copy[r] \in User /\ Edited(copy[r].json, P, value) \in Json
    BY <1>7, EditedIsJson DEF StoreJsonFails, User
  <2>2. [copy[r] EXCEPT !.json = Edited(@, P, value)] \in User
    BY <2>1 DEF User
  <2>3. copy' \in [Actor -> User \cup {None}] /\ copy'[r] # None
    BY <1>7, <2>1, <2>2 DEF StoreJsonFails
  <2>. QED
    BY <1>7, <2>3 DEF StoreJsonFails
<1>8. ASSUME NEW r \in Request, NEW name \in Username, UpdateUsername(r, name)
      PROVE  TypeOK'
  <2>1. copy[r] \in User /\ id[r] \in Request /\ users[id[r]] \in User
    BY <1>8 DEF UpdateUsername
  <2>2. users' = [users EXCEPT ![id[r]] = [users[id[r]] EXCEPT !.name = name]]
    BY <1>8 DEF UpdateUsername
  <2>3. [users[id[r]] EXCEPT !.name = name] \in User /\ [copy[r] EXCEPT !.name = name] \in User
    BY <2>1 DEF User
  <2>4. users' \in [Request -> User \cup {None}] /\ \A i \in Request : IsUser(i) => IsUser(i)'
    BY <2>1, <2>2, <2>3
  <2>5. copy' \in [Actor -> User \cup {None}] /\ copy'[r] # None
    BY <1>8, <2>1, <2>3 DEF UpdateUsername
  <2>. QED
    BY <1>8, <2>3, <2>4, <2>5 DEF UpdateUsername
<1>9. ASSUME NEW r \in Request, NEW name \in Username, UpdateUsernameFails(r, name)
      PROVE  TypeOK'
  <2>1. copy[r] \in User /\ [copy[r] EXCEPT !.name = name] \in User
    BY <1>9 DEF UpdateUsernameFails, User
  <2>2. copy' \in [Actor -> User \cup {None}] /\ copy'[r] # None
    BY <1>9, <2>1 DEF UpdateUsernameFails
  <2>. QED
    BY <1>9, <2>2 DEF UpdateUsernameFails
<1>10. ASSUME NEW r \in Request, NEW current \in Password, NEW new \in Password, VerifyPassword(r, current, new)
      PROVE  TypeOK'
  <2>1. PICK user \in User : pending' = [pending EXCEPT ![r] = user]
    BY <1>10, DrawIsNext DEF VerifyPassword
  <2>2. secrets' \in 0..MaxSecret
    BY <1>10, DrawIsNext DEF VerifyPassword, Secret
  <2>. QED
    BY <1>10, <2>1, <2>2 DEF VerifyPassword, DrawSecret
<1>11. CASE ResetRead
  BY <1>11 DEF ResetRead
<1>12. ASSUME NEW password \in Password, ResetPassword(password)
      PROVE  TypeOK'
  <2>1. PICK user \in User : pending' = [pending EXCEPT ![Reset] = user]
    BY <1>12, DrawIsNext DEF ResetPassword
  <2>2. secrets' \in 0..MaxSecret
    BY <1>12, DrawIsNext DEF ResetPassword, Secret
  <2>. QED
    BY <1>12, <2>1, <2>2 DEF ResetPassword, DrawSecret
<1>13. ASSUME NEW a \in Actor, WritePassword(a)
      PROVE  TypeOK'
  <2>1. PICK user \in User : copy' = [copy EXCEPT ![a] = user]
    BY <1>13, CopyTakes DEF WritePassword
  <2>. QED
    BY <1>13, <2>1 DEF WritePassword, MayWrite
<1>14. ASSUME NEW a \in Actor, WritePasswordFails(a)
      PROVE  TypeOK'
  <2>1. PICK user \in User : copy' = [copy EXCEPT ![a] = user]
    BY <1>14, CopyTakes DEF WritePasswordFails
  <2>. QED
    BY <1>14, <2>1 DEF WritePasswordFails, Ends
<1>15. ASSUME NEW a \in Actor, Commit(a)
      PROVE  TypeOK'
  <2>1. PICK user \in User : users' = [users EXCEPT ![id[a]] = user]
    BY <1>15, CommitStores
  <2>2. id[a] \in Request /\ pending[a] \in User
    BY <1>15, CommitStores
  <2>3. users' \in [Request -> User \cup {None}] /\ \A i \in Request : IsUser(i) => IsUser(i)'
    BY <2>1, <2>2
  <2>4. TokenFor(pending[a]) \in Token
    BY <2>2 DEF TokenFor, Token, User
  <2>5. tokens' \subseteq Token /\ retired' \subseteq Secret
    BY <1>15, <2>4 DEF Commit, HandOut, Token
  <2>. QED
    BY <1>15, <2>3, <2>5 DEF Commit, HandOut, Ends
<1>16. ASSUME NEW a \in Actor, CommitLost(a)
      PROVE  TypeOK'
  <2>1. TokenFor(pending[a]) \in Token
    BY <1>16 DEF CommitLost, HandOut, TokenFor, Token, User
  <2>2. tokens' \subseteq Token
    BY <1>16, <2>1 DEF CommitLost, HandOut
  <2>. QED
    BY <1>16, <2>2 DEF CommitLost, HandOut, Ends
<1>17. ASSUME NEW a \in Actor, Leave(a)
      PROVE  TypeOK'
  BY <1>17 DEF Leave
<1>18. CASE UNCHANGED vars
  BY <1>18 DEF vars
<1>. QED
  BY <1>1, <1>2, <1>3, <1>4, <1>5, <1>6, <1>7, <1>8, <1>9, <1>10, <1>11,
     <1>12, <1>13, <1>14, <1>15, <1>16, <1>17, <1>18
     DEF Next, CreateStep, FieldStep, ResetStep, PasswordStep

(* Who has written, or counted, holds SHARED. *)
LEMMA LockStep ==
    ASSUME IInv, [Next]_vars
    PROVE  LockInv'
<1>. USE NoneAssumption, ActorAssumption, SecretAssumption
     DEF IInv, TypeOK, Actor, lockVars, actorVars, historyVars, Goes, IsUser,
         LockInv
<1>1. ASSUME NEW name \in Username, NEW password \in Password, LogIn(name, password)
      PROVE  LockInv'
  BY <1>1 DEF LogIn, TokenFor
<1>2. ASSUME NEW r \in Request, CountUsers(r)
      PROVE  LockInv'
  BY <1>2 DEF CountUsers, CountsInside
<1>3. ASSUME NEW r \in Request, NEW name \in Username, NEW password \in Password, InsertUser(r, name, password)
      PROVE  LockInv'
  BY <1>3 DEF InsertUser, MayWrite, Draw
<1>4. ASSUME NEW r \in Request, InsertRefused(r)
      PROVE  LockInv'
  BY <1>4 DEF InsertRefused, Ends
<1>5. ASSUME NEW r \in Request, NEW t \in tokens, Authenticate(r, t)
      PROVE  LockInv'
  BY <1>5 DEF Authenticate, Accepts
<1>6. ASSUME NEW r \in Request, NEW P \in SUBSET Path, NEW value \in Value \cup {None}, StoreJson(r, P, value)
      PROVE  LockInv'
  BY <1>6 DEF StoreJson, WithJson, CopyAfter
<1>7. ASSUME NEW r \in Request, NEW P \in SUBSET Path, NEW value \in Value \cup {None}, StoreJsonFails(r, P, value)
      PROVE  LockInv'
  BY <1>7 DEF StoreJsonFails
<1>8. ASSUME NEW r \in Request, NEW name \in Username, UpdateUsername(r, name)
      PROVE  LockInv'
  BY <1>8 DEF UpdateUsername
<1>9. ASSUME NEW r \in Request, NEW name \in Username, UpdateUsernameFails(r, name)
      PROVE  LockInv'
  BY <1>9 DEF UpdateUsernameFails
<1>10. ASSUME NEW r \in Request, NEW current \in Password, NEW new \in Password, VerifyPassword(r, current, new)
      PROVE  LockInv'
  BY <1>10 DEF VerifyPassword, DrawSecret, Draw, NewSecret
<1>11. CASE ResetRead
  BY <1>11 DEF ResetRead
<1>12. ASSUME NEW password \in Password, ResetPassword(password)
      PROVE  LockInv'
  BY <1>12 DEF ResetPassword, DrawSecret, Draw, NewSecret
<1>13. ASSUME NEW a \in Actor, WritePassword(a)
      PROVE  LockInv'
  BY <1>13 DEF WritePassword, MayWrite, CopySecret
<1>14. ASSUME NEW a \in Actor, WritePasswordFails(a)
      PROVE  LockInv'
  BY <1>14 DEF WritePasswordFails, Ends, CopySecret
<1>15. ASSUME NEW a \in Actor, Commit(a)
      PROVE  LockInv'
  BY <1>15 DEF Commit, MayCommit, HandOut, Ends, TokenFor
<1>16. ASSUME NEW a \in Actor, CommitLost(a)
      PROVE  LockInv'
  BY <1>16 DEF CommitLost, MayCommit, HandOut, Ends, TokenFor
<1>17. ASSUME NEW a \in Actor, Leave(a)
      PROVE  LockInv'
  BY <1>17 DEF Leave
<1>18. CASE UNCHANGED vars
  BY <1>18 DEF vars
<1>. QED
  BY <1>1, <1>2, <1>3, <1>4, <1>5, <1>6, <1>7, <1>8, <1>9, <1>10, <1>11,
     <1>12, <1>13, <1>14, <1>15, <1>16, <1>17, <1>18
     DEF Next, CreateStep, FieldStep, ResetStep, PasswordStep

(* Nobody creates a user while another has one in a transaction. *)
LEMMA CreateStepHolds ==
    ASSUME IInv, [Next]_vars
    PROVE  CreateInv'
<1>. USE NoneAssumption, ActorAssumption, SecretAssumption
     DEF IInv, TypeOK, Actor, lockVars, actorVars, historyVars, Goes, IsUser,
         CreateInv, Creating, NoUser, LockInv
<1>1. ASSUME NEW name \in Username, NEW password \in Password, LogIn(name, password)
      PROVE  CreateInv'
  BY <1>1 DEF LogIn, TokenFor
<1>2. ASSUME NEW r \in Request, CountUsers(r)
      PROVE  CreateInv'
  BY <1>2 DEF CountUsers, CountsInside
<1>3. ASSUME NEW r \in Request, NEW name \in Username, NEW password \in Password, InsertUser(r, name, password)
      PROVE  CreateInv'
  BY <1>3 DEF InsertUser, MayWrite, Draw
<1>4. ASSUME NEW r \in Request, InsertRefused(r)
      PROVE  CreateInv'
  BY <1>4 DEF InsertRefused, Ends
<1>5. ASSUME NEW r \in Request, NEW t \in tokens, Authenticate(r, t)
      PROVE  CreateInv'
  BY <1>5 DEF Authenticate, Accepts
<1>6. ASSUME NEW r \in Request, NEW P \in SUBSET Path, NEW value \in Value \cup {None}, StoreJson(r, P, value)
      PROVE  CreateInv'
  BY <1>6 DEF StoreJson, WithJson, CopyAfter
<1>7. ASSUME NEW r \in Request, NEW P \in SUBSET Path, NEW value \in Value \cup {None}, StoreJsonFails(r, P, value)
      PROVE  CreateInv'
  BY <1>7 DEF StoreJsonFails
<1>8. ASSUME NEW r \in Request, NEW name \in Username, UpdateUsername(r, name)
      PROVE  CreateInv'
  BY <1>8 DEF UpdateUsername
<1>9. ASSUME NEW r \in Request, NEW name \in Username, UpdateUsernameFails(r, name)
      PROVE  CreateInv'
  BY <1>9 DEF UpdateUsernameFails
<1>10. ASSUME NEW r \in Request, NEW current \in Password, NEW new \in Password, VerifyPassword(r, current, new)
      PROVE  CreateInv'
  BY <1>10 DEF VerifyPassword, DrawSecret, Draw, NewSecret
<1>11. CASE ResetRead
  BY <1>11 DEF ResetRead
<1>12. ASSUME NEW password \in Password, ResetPassword(password)
      PROVE  CreateInv'
  BY <1>12 DEF ResetPassword, DrawSecret, Draw, NewSecret
<1>13. ASSUME NEW a \in Actor, WritePassword(a)
      PROVE  CreateInv'
  <2>1. PICK user \in User : copy' = [copy EXCEPT ![a] = user]
    BY <1>13, CopyTakes DEF WritePassword
  <2>. QED
    BY <1>13, <2>1 DEF WritePassword, MayWrite
<1>14. ASSUME NEW a \in Actor, WritePasswordFails(a)
      PROVE  CreateInv'
  BY <1>14 DEF WritePasswordFails, Ends, CopySecret
<1>15. ASSUME NEW a \in Actor, Commit(a)
      PROVE  CreateInv'
  BY <1>15 DEF Commit, MayCommit, HandOut, Ends, TokenFor
<1>16. ASSUME NEW a \in Actor, CommitLost(a)
      PROVE  CreateInv'
  BY <1>16 DEF CommitLost, MayCommit, HandOut, Ends, TokenFor
<1>17. ASSUME NEW a \in Actor, Leave(a)
      PROVE  CreateInv'
  BY <1>17 DEF Leave
<1>18. CASE UNCHANGED vars
  BY <1>18 DEF vars
<1>. QED
  BY <1>1, <1>2, <1>3, <1>4, <1>5, <1>6, <1>7, <1>8, <1>9, <1>10, <1>11,
     <1>12, <1>13, <1>14, <1>15, <1>16, <1>17, <1>18
     DEF Next, CreateStep, FieldStep, ResetStep, PasswordStep

(* There is still at most one user. *)
LEMMA SoleStep ==
    ASSUME IInv, [Next]_vars
    PROVE  SoleUser'
<1>. USE NoneAssumption, ActorAssumption, SecretAssumption
     DEF IInv, TypeOK, Actor, lockVars, actorVars, historyVars, Goes, IsUser,
         SoleUser, NoUser
<1>1. ASSUME NEW name \in Username, NEW password \in Password, LogIn(name, password)
      PROVE  SoleUser'
  BY <1>1 DEF LogIn, TokenFor
<1>2. ASSUME NEW r \in Request, CountUsers(r)
      PROVE  SoleUser'
  BY <1>2 DEF CountUsers, CountsInside
<1>3. ASSUME NEW r \in Request, NEW name \in Username, NEW password \in Password, InsertUser(r, name, password)
      PROVE  SoleUser'
  BY <1>3 DEF InsertUser, MayWrite, Draw
<1>4. ASSUME NEW r \in Request, InsertRefused(r)
      PROVE  SoleUser'
  BY <1>4 DEF InsertRefused, Ends
<1>5. ASSUME NEW r \in Request, NEW t \in tokens, Authenticate(r, t)
      PROVE  SoleUser'
  BY <1>5 DEF Authenticate, Accepts
<1>6. ASSUME NEW r \in Request, NEW P \in SUBSET Path, NEW value \in Value \cup {None}, StoreJson(r, P, value)
      PROVE  SoleUser'
  BY <1>6 DEF StoreJson, WithJson, CopyAfter
<1>7. ASSUME NEW r \in Request, NEW P \in SUBSET Path, NEW value \in Value \cup {None}, StoreJsonFails(r, P, value)
      PROVE  SoleUser'
  BY <1>7 DEF StoreJsonFails
<1>8. ASSUME NEW r \in Request, NEW name \in Username, UpdateUsername(r, name)
      PROVE  SoleUser'
  BY <1>8 DEF UpdateUsername
<1>9. ASSUME NEW r \in Request, NEW name \in Username, UpdateUsernameFails(r, name)
      PROVE  SoleUser'
  BY <1>9 DEF UpdateUsernameFails
<1>10. ASSUME NEW r \in Request, NEW current \in Password, NEW new \in Password, VerifyPassword(r, current, new)
      PROVE  SoleUser'
  BY <1>10 DEF VerifyPassword, DrawSecret, Draw, NewSecret
<1>11. CASE ResetRead
  BY <1>11 DEF ResetRead
<1>12. ASSUME NEW password \in Password, ResetPassword(password)
      PROVE  SoleUser'
  BY <1>12 DEF ResetPassword, DrawSecret, Draw, NewSecret
<1>13. ASSUME NEW a \in Actor, WritePassword(a)
      PROVE  SoleUser'
  BY <1>13 DEF WritePassword, MayWrite, CopySecret
<1>14. ASSUME NEW a \in Actor, WritePasswordFails(a)
      PROVE  SoleUser'
  BY <1>14 DEF WritePasswordFails, Ends, CopySecret
<1>15. ASSUME NEW a \in Actor, Commit(a)
      PROVE  SoleUser'
  <2>1. PICK user \in User : users' = [users EXCEPT ![id[a]] = user]
    BY <1>15, CommitStores
  <2>. QED
    BY <1>15, <2>1, CommitStores
<1>16. ASSUME NEW a \in Actor, CommitLost(a)
      PROVE  SoleUser'
  BY <1>16 DEF CommitLost, MayCommit, HandOut, Ends, TokenFor
<1>17. ASSUME NEW a \in Actor, Leave(a)
      PROVE  SoleUser'
  BY <1>17 DEF Leave
<1>18. CASE UNCHANGED vars
  BY <1>18 DEF vars
<1>. QED
  BY <1>1, <1>2, <1>3, <1>4, <1>5, <1>6, <1>7, <1>8, <1>9, <1>10, <1>11,
     <1>12, <1>13, <1>14, <1>15, <1>16, <1>17, <1>18
     DEF Next, CreateStep, FieldStep, ResetStep, PasswordStep

(* Secrets stay new until they are stored. *)
LEMMA SecretStep ==
    ASSUME IInv, [Next]_vars
    PROVE  SecretInv'
<1>. USE NoneAssumption, ActorAssumption, SecretAssumption
     DEF IInv, TypeOK, Actor, lockVars, actorVars, historyVars, Goes, IsUser,
         SecretInv, Stored, Keys, CreateInv, Creating, NoUser, SoleUser,
         Token, User, Secret
<1>1. ASSUME NEW name \in Username, NEW password \in Password, LogIn(name, password)
      PROVE  SecretInv'
  BY <1>1 DEF LogIn, TokenFor
<1>2. ASSUME NEW r \in Request, CountUsers(r)
      PROVE  SecretInv'
  BY <1>2 DEF CountUsers, CountsInside
<1>3. ASSUME NEW r \in Request, NEW name \in Username, NEW password \in Password, InsertUser(r, name, password)
      PROVE  SecretInv'
  <2>1. pending'[r].secret = secrets + 1 /\ \A b \in Actor \ {r} : pending'[b] = pending[b] /\ pc'[b] = pc[b]
    BY <1>3 DEF InsertUser, Draw
  <2>2. secrets' = secrets + 1 /\ users' = users /\ tokens' = tokens /\ retired' = retired
    BY <1>3 DEF InsertUser, Draw
  <2>. HIDE DEF SecretInv, TypeOK
  <2>. QED
    BY <2>1, <2>2, FreshSecret
<1>4. ASSUME NEW r \in Request, InsertRefused(r)
      PROVE  SecretInv'
  BY <1>4 DEF InsertRefused, Ends
<1>5. ASSUME NEW r \in Request, NEW t \in tokens, Authenticate(r, t)
      PROVE  SecretInv'
  BY <1>5 DEF Authenticate, Accepts
<1>6. ASSUME NEW r \in Request, NEW P \in SUBSET Path, NEW value \in Value \cup {None}, StoreJson(r, P, value)
      PROVE  SecretInv'
  BY <1>6 DEF StoreJson, WithJson, CopyAfter
<1>7. ASSUME NEW r \in Request, NEW P \in SUBSET Path, NEW value \in Value \cup {None}, StoreJsonFails(r, P, value)
      PROVE  SecretInv'
  BY <1>7 DEF StoreJsonFails
<1>8. ASSUME NEW r \in Request, NEW name \in Username, UpdateUsername(r, name)
      PROVE  SecretInv'
  BY <1>8 DEF UpdateUsername
<1>9. ASSUME NEW r \in Request, NEW name \in Username, UpdateUsernameFails(r, name)
      PROVE  SecretInv'
  BY <1>9 DEF UpdateUsernameFails
<1>10. ASSUME NEW r \in Request, NEW current \in Password, NEW new \in Password, VerifyPassword(r, current, new)
      PROVE  SecretInv'
  <2>1. PICK user \in User : pending' = [pending EXCEPT ![r] = user] /\ user.secret = secrets + 1
    BY <1>10, DrawIsNext DEF VerifyPassword
  <2>2. secrets' = secrets + 1 /\ pc' = [pc EXCEPT ![r] = "drawn"]
    BY <1>10, DrawIsNext DEF VerifyPassword
  <2>3. users' = users /\ tokens' = tokens /\ retired' = retired
    BY <1>10 DEF VerifyPassword, DrawSecret
  <2>4. pending'[r].secret = secrets + 1 /\ \A b \in Actor \ {r} : pending'[b] = pending[b] /\ pc'[b] = pc[b]
    BY <2>1, <2>2
  <2>. HIDE DEF SecretInv, TypeOK
  <2>. QED
    BY <2>2, <2>3, <2>4, FreshSecret
<1>11. CASE ResetRead
  BY <1>11 DEF ResetRead
<1>12. ASSUME NEW password \in Password, ResetPassword(password)
      PROVE  SecretInv'
  <2>1. PICK user \in User : pending' = [pending EXCEPT ![Reset] = user] /\ user.secret = secrets + 1
    BY <1>12, DrawIsNext DEF ResetPassword
  <2>2. secrets' = secrets + 1 /\ pc' = [pc EXCEPT ![Reset] = "drawn"]
    BY <1>12, DrawIsNext DEF ResetPassword
  <2>3. users' = users /\ tokens' = tokens /\ retired' = retired
    BY <1>12 DEF ResetPassword, DrawSecret
  <2>4. pending'[Reset].secret = secrets + 1 /\ \A b \in Actor \ {Reset} : pending'[b] = pending[b] /\ pc'[b] = pc[b]
    BY <2>1, <2>2
  <2>. HIDE DEF SecretInv, TypeOK
  <2>. QED
    BY <2>2, <2>3, <2>4, FreshSecret
<1>13. ASSUME NEW a \in Actor, WritePassword(a)
      PROVE  SecretInv'
  BY <1>13 DEF WritePassword, MayWrite, CopySecret
<1>14. ASSUME NEW a \in Actor, WritePasswordFails(a)
      PROVE  SecretInv'
  BY <1>14 DEF WritePasswordFails, Ends, CopySecret
<1>15. ASSUME NEW a \in Actor, Commit(a)
      PROVE  SecretInv'
  BY <1>15 DEF Commit, MayCommit, HandOut, Ends, TokenFor
<1>16. ASSUME NEW a \in Actor, CommitLost(a)
      PROVE  SecretInv'
  BY <1>16 DEF CommitLost, MayCommit, HandOut, Ends, TokenFor
<1>17. ASSUME NEW a \in Actor, Leave(a)
      PROVE  SecretInv'
  BY <1>17 DEF Leave
<1>18. CASE UNCHANGED vars
  BY <1>18 DEF vars
<1>. QED
  BY <1>1, <1>2, <1>3, <1>4, <1>5, <1>6, <1>7, <1>8, <1>9, <1>10, <1>11,
     <1>12, <1>13, <1>14, <1>15, <1>16, <1>17, <1>18
     DEF Next, CreateStep, FieldStep, ResetStep, PasswordStep

(* Copies of the storage stay what the row has, or are known to be stale. *)
LEMMA JsonStep ==
    ASSUME IInv, [Next]_vars
    PROVE  JsonInv'
<1>. USE NoneAssumption, ActorAssumption, SecretAssumption
     DEF IInv, TypeOK, Actor, lockVars, actorVars, historyVars, Goes, IsUser,
         JsonInv, Creating, NoUser, CreateInv, LockInv, SoleUser,
         StorageAddsUp
<1>1. ASSUME NEW name \in Username, NEW password \in Password, LogIn(name, password)
      PROVE  JsonInv'
  BY <1>1 DEF LogIn, TokenFor
<1>2. ASSUME NEW r \in Request, CountUsers(r)
      PROVE  JsonInv'
  BY <1>2 DEF CountUsers, CountsInside
<1>3. ASSUME NEW r \in Request, NEW name \in Username, NEW password \in Password, InsertUser(r, name, password)
      PROVE  JsonInv'
  BY <1>3 DEF InsertUser, MayWrite, Draw
<1>4. ASSUME NEW r \in Request, InsertRefused(r)
      PROVE  JsonInv'
  BY <1>4 DEF InsertRefused, Ends
<1>5. ASSUME NEW r \in Request, NEW t \in tokens, Authenticate(r, t)
      PROVE  JsonInv'
  BY <1>5 DEF Authenticate, Accepts
<1>6. ASSUME NEW r \in Request, NEW P \in SUBSET Path, NEW value \in Value \cup {None}, StoreJson(r, P, value)
      PROVE  JsonInv'
  <2>1. copy[r] \in User /\ id[r] \in Request /\ users[id[r]] \in User
    BY <1>6 DEF StoreJson
  <2>2. Edited(copy[r].json, P, value) \in Json
    BY <2>1, EditedIsJson DEF User
  <2>. DEFINE user == [copy[r] EXCEPT !.json = Edited(@, P, value)]
              row  == [users[id[r]] EXCEPT !.json = user.json]
  <2>3. user \in User /\ user.json \in Json
    BY <2>1, <2>2 DEF User
  <2>4. row \in User /\ row.json = user.json
    BY <2>1, <2>3 DEF User
  <2>5. users' = [users EXCEPT ![id[r]] = row] /\ copy' = [copy EXCEPT ![r] = user]
    BY <1>6 DEF StoreJson, WithJson, CopyAfter
  <2>6. UNCHANGED <<pc, id, pending>> /\ pc[r] = "authed"
        /\ stale' = stale \cup {q \in Request \ {r} : pc[q] # "idle"}
    BY <1>6 DEF StoreJson
  <2>. HIDE DEF user, row
  <2>7. NoUser' => FALSE
    BY <2>1, <2>4, <2>5
  <2>8. \A a \in Actor : Creating(a)' => Creating(a)
    BY <2>3, <2>5, <2>6
  <2>9. ASSUME NEW q \in Request \ stale', copy'[q] # None
        PROVE  id[q] \in Request /\ users'[id[q]] # None /\ copy'[q].json = users'[id[q]].json
    <3>1. q = r
      BY <2>5, <2>6, <2>9
    <3>. QED
      BY <2>1, <2>4, <2>5, <3>1
  <2>. QED
    BY <2>6, <2>7, <2>8, <2>9
<1>7. ASSUME NEW r \in Request, NEW P \in SUBSET Path, NEW value \in Value \cup {None}, StoreJsonFails(r, P, value)
      PROVE  JsonInv'
  BY <1>7 DEF StoreJsonFails
<1>8. ASSUME NEW r \in Request, NEW name \in Username, UpdateUsername(r, name)
      PROVE  JsonInv'
  <2>1. copy[r] \in User /\ id[r] \in Request /\ users[id[r]] \in User
    BY <1>8 DEF UpdateUsername
  <2>. DEFINE user == [copy[r] EXCEPT !.name = name]
              row  == [users[id[r]] EXCEPT !.name = name]
  <2>2. /\ user \in User /\ user.json = copy[r].json
        /\ row \in User /\ row.json = users[id[r]].json
    BY <2>1 DEF User
  <2>3. users' = [users EXCEPT ![id[r]] = row] /\ copy' = [copy EXCEPT ![r] = user]
    BY <1>8 DEF UpdateUsername
  <2>4. UNCHANGED <<pc, id, pending, stale, wanted>> /\ pc[r] = "authed"
    BY <1>8 DEF UpdateUsername
  <2>. HIDE DEF user, row
  <2>5. NoUser' => FALSE
    BY <2>1, <2>2, <2>3
  <2>6. \A a \in Actor : Creating(a)' => Creating(a)
    BY <2>2, <2>3, <2>4
  <2>7. ASSUME NEW q \in Request \ stale, copy'[q] # None
        PROVE  id[q] \in Request /\ users'[id[q]] # None /\ copy'[q].json = users'[id[q]].json
    BY <2>1, <2>2, <2>3, <2>7
  <2>. QED
    BY <2>4, <2>5, <2>6, <2>7
<1>9. ASSUME NEW r \in Request, NEW name \in Username, UpdateUsernameFails(r, name)
      PROVE  JsonInv'
  BY <1>9 DEF UpdateUsernameFails
<1>10. ASSUME NEW r \in Request, NEW current \in Password, NEW new \in Password, VerifyPassword(r, current, new)
      PROVE  JsonInv'
  BY <1>10 DEF VerifyPassword, DrawSecret, Draw, NewSecret
<1>11. CASE ResetRead
  BY <1>11 DEF ResetRead
<1>12. ASSUME NEW password \in Password, ResetPassword(password)
      PROVE  JsonInv'
  BY <1>12 DEF ResetPassword, DrawSecret, Draw, NewSecret
<1>13. ASSUME NEW a \in Actor, WritePassword(a)
      PROVE  JsonInv'
  <2>1. PICK user \in User : copy' = [copy EXCEPT ![a] = user] /\ user.json = copy[a].json
    BY <1>13, CopyTakes DEF WritePassword
  <2>. QED
    BY <1>13, <2>1 DEF WritePassword, MayWrite
<1>14. ASSUME NEW a \in Actor, WritePasswordFails(a)
      PROVE  JsonInv'
  <2>1. PICK user \in User : copy' = [copy EXCEPT ![a] = user] /\ user.json = copy[a].json
    BY <1>14, CopyTakes DEF WritePasswordFails
  <2>. QED
    BY <1>14, <2>1 DEF WritePasswordFails, Ends
<1>15. ASSUME NEW a \in Actor, Commit(a)
      PROVE  JsonInv'
  <2>1. PICK user \in User : /\ users' = [users EXCEPT ![id[a]] = user]
                              /\ user.json = IF Creating(a) THEN pending[a].json ELSE users[id[a]].json
    BY <1>15, CommitStores
  <2>2. id[a] \in Request /\ (Creating(a) => NoUser) /\ (~Creating(a) => IsUser(id[a]))
    BY <1>15, CommitStores
  <2>3. /\ UNCHANGED <<copy, stale, wanted>> /\ pc[a] = "written"
        /\ pc' = [pc EXCEPT ![a] = IF copy[a] = None THEN "idle" ELSE "authed"]
        /\ id' = IF copy[a] = None THEN [id EXCEPT ![a] = None] ELSE id
        /\ pending' = [pending EXCEPT ![a] = None]
    BY <1>15 DEF Commit, HandOut, Ends
  <2>4. NoUser' => FALSE
    BY <2>1, <2>2
  <2>5. \A b \in Actor : Creating(b)' => Creating(b) /\ pending'[b] = pending[b]
    BY <2>3
  <2>6. ASSUME NEW q \in Request \ stale, copy[q] # None
        PROVE  id'[q] \in Request /\ users'[id'[q]] # None /\ copy[q].json = users'[id'[q]].json
    <3>1. id[q] \in Request /\ IsUser(id[q]) /\ copy[q].json = users[id[q]].json /\ id'[q] = id[q]
      BY <2>3, <2>6
    <3>2. ~Creating(a)
      BY <2>2, <3>1
    <3>. QED
      BY <2>1, <2>2, <3>1, <3>2
  <2>. QED
    BY <2>3, <2>4, <2>5, <2>6
<1>16. ASSUME NEW a \in Actor, CommitLost(a)
      PROVE  JsonInv'
  BY <1>16 DEF CommitLost, MayCommit, HandOut, Ends, TokenFor
<1>17. ASSUME NEW a \in Actor, Leave(a)
      PROVE  JsonInv'
  BY <1>17 DEF Leave
<1>18. CASE UNCHANGED vars
  BY <1>18 DEF vars
<1>. QED
  BY <1>1, <1>2, <1>3, <1>4, <1>5, <1>6, <1>7, <1>8, <1>9, <1>10, <1>11,
     <1>12, <1>13, <1>14, <1>15, <1>16, <1>17, <1>18
     DEF Next, CreateStep, FieldStep, ResetStep, PasswordStep

(* The storage still adds up. *)
LEMMA StorageStep ==
    ASSUME IInv, [Next]_vars
    PROVE  StorageAddsUp'
<1>. USE NoneAssumption, ActorAssumption, SecretAssumption
     DEF IInv, TypeOK, Actor, lockVars, actorVars, historyVars, Goes, IsUser,
         StorageAddsUp, JsonInv, SoleUser, CreateInv, Creating, NoUser, Edited
<1>1. ASSUME NEW name \in Username, NEW password \in Password, LogIn(name, password)
      PROVE  StorageAddsUp'
  BY <1>1 DEF LogIn, TokenFor
<1>2. ASSUME NEW r \in Request, CountUsers(r)
      PROVE  StorageAddsUp'
  BY <1>2 DEF CountUsers, CountsInside
<1>3. ASSUME NEW r \in Request, NEW name \in Username, NEW password \in Password, InsertUser(r, name, password)
      PROVE  StorageAddsUp'
  BY <1>3 DEF InsertUser, MayWrite, Draw
<1>4. ASSUME NEW r \in Request, InsertRefused(r)
      PROVE  StorageAddsUp'
  BY <1>4 DEF InsertRefused, Ends
<1>5. ASSUME NEW r \in Request, NEW t \in tokens, Authenticate(r, t)
      PROVE  StorageAddsUp'
  BY <1>5 DEF Authenticate, Accepts
<1>6. ASSUME NEW r \in Request, NEW P \in SUBSET Path, NEW value \in Value \cup {None}, StoreJson(r, P, value)
      PROVE  StorageAddsUp'
  BY <1>6 DEF StoreJson, WithJson, CopyAfter
<1>7. ASSUME NEW r \in Request, NEW P \in SUBSET Path, NEW value \in Value \cup {None}, StoreJsonFails(r, P, value)
      PROVE  StorageAddsUp'
  BY <1>7 DEF StoreJsonFails
<1>8. ASSUME NEW r \in Request, NEW name \in Username, UpdateUsername(r, name)
      PROVE  StorageAddsUp'
  BY <1>8 DEF UpdateUsername
<1>9. ASSUME NEW r \in Request, NEW name \in Username, UpdateUsernameFails(r, name)
      PROVE  StorageAddsUp'
  BY <1>9 DEF UpdateUsernameFails
<1>10. ASSUME NEW r \in Request, NEW current \in Password, NEW new \in Password, VerifyPassword(r, current, new)
      PROVE  StorageAddsUp'
  BY <1>10 DEF VerifyPassword, DrawSecret, Draw, NewSecret
<1>11. CASE ResetRead
  BY <1>11 DEF ResetRead
<1>12. ASSUME NEW password \in Password, ResetPassword(password)
      PROVE  StorageAddsUp'
  BY <1>12 DEF ResetPassword, DrawSecret, Draw, NewSecret
<1>13. ASSUME NEW a \in Actor, WritePassword(a)
      PROVE  StorageAddsUp'
  BY <1>13 DEF WritePassword, MayWrite, CopySecret
<1>14. ASSUME NEW a \in Actor, WritePasswordFails(a)
      PROVE  StorageAddsUp'
  BY <1>14 DEF WritePasswordFails, Ends, CopySecret
<1>15. ASSUME NEW a \in Actor, Commit(a)
      PROVE  StorageAddsUp'
  BY <1>15 DEF Commit, MayCommit, HandOut, Ends, TokenFor
<1>16. ASSUME NEW a \in Actor, CommitLost(a)
      PROVE  StorageAddsUp'
  BY <1>16 DEF CommitLost, MayCommit, HandOut, Ends, TokenFor
<1>17. ASSUME NEW a \in Actor, Leave(a)
      PROVE  StorageAddsUp'
  BY <1>17 DEF Leave
<1>18. CASE UNCHANGED vars
  BY <1>18 DEF vars
<1>. QED
  BY <1>1, <1>2, <1>3, <1>4, <1>5, <1>6, <1>7, <1>8, <1>9, <1>10, <1>11,
     <1>12, <1>13, <1>14, <1>15, <1>16, <1>17, <1>18
     DEF Next, CreateStep, FieldStep, ResetStep, PasswordStep

LEMMA InitIInv == Init => IInv
<1>. SUFFICES ASSUME Init PROVE IInv
  OBVIOUS
<1>. USE NoneAssumption, SecretAssumption DEF Init, IsUser
<1>1. TypeOK
  BY DEF TypeOK, Json, Actor
<1>2. LockInv /\ CreateInv /\ SoleUser
  BY DEF LockInv, CreateInv, Creating, NoUser, SoleUser
<1>3. SecretInv
  BY DEF SecretInv, Stored, Keys
<1>4. JsonInv /\ StorageAddsUp
  BY DEF JsonInv, Creating, StorageAddsUp, Actor
<1>. QED
  BY <1>1, <1>2, <1>3, <1>4 DEF IInv

(* Every step of every request and of resetpass keeps the invariant. *)
THEOREM Invariance == Spec => []IInv
<1>1. IInv /\ [Next]_vars => IInv'
  BY TypeStep, LockStep, CreateStepHolds, SoleStep, SecretStep, JsonStep, StorageStep DEF IInv
<1>. QED
  BY InitIInv, <1>1, PTL DEF Spec

(* The variables keep their types; in particular who has written holds RESERVED, and who *)
(* works on a user works on one that is there.                                            *)
THEOREM TypeCorrect == Spec => []TypeOK
<1>1. IInv => TypeOK
  BY DEF IInv
<1>. QED
  BY Invariance, <1>1, PTL

(* However many requests count the users at the same time, one user is created at most. *)
THEOREM OneUser == Spec => []SoleUser
<1>1. IInv => SoleUser
  BY DEF IInv
<1>. QED
  BY Invariance, <1>1, PTL

(* No token of before a change of the password is accepted after it: it is signed with a *)
(* secret that is retired, and no user has such a secret.                                *)
THEOREM OldTokensRefused == Spec => []OthersLoggedOut
<1>1. IInv => OthersLoggedOut
  BY DEF IInv, SecretInv, Stored, OthersLoggedOut, Accepts
<1>. QED
  BY Invariance, <1>1, PTL

(* The json storage is what the operations that succeeded amount to, as long as no request *)
(* wrote a copy which another had outdated.                                                 *)
THEOREM StorageIsExact == Spec => []StorageAddsUp
<1>1. IInv => StorageAddsUp
  BY DEF IInv
<1>. QED
  BY Invariance, <1>1, PTL

================================================================================
