------------------------------ MODULE UserStore ------------------------------
(***************************************************************************)
(* Users, their passwords, tokens and json storage (graphql/mutation.go,   *)
(* graphql/query.go), and the requests that hold a copy of a user.         *)
(*                                                                         *)
(* auth (cmd/run.go) reads the user a token names and checks the token     *)
(* with this user's secret; the fields of the mutation are then executed   *)
(* one after the other, all on this copy, which others may have outdated   *)
(* by then.  resetpass does the same to the database from a process of its *)
(* own.                                                                    *)
(*                                                                         *)
(* A secret is a number, never drawn twice; a hash is the pair of what it  *)
(* was made from; a token is whom it names and the secret that signs it.   *)
(* Expired tokens and those with a wrong signature are left out: auth goes *)
(* on without a user, and no field here is executed then.                  *)
(*                                                                         *)
(* SQLite, external, as in HotReload: a transaction that has read holds    *)
(* SHARED, one that has written RESERVED, of which there is one, and a     *)
(* commit needs the other SHARED to be gone.  Who does not get its lock    *)
(* waits, or fails when the busy timeout expires.                          *)
(***************************************************************************)
EXTENDS Naturals

CONSTANTS
    Request,    \* requests that are served at the same time
    Reset,      \* the resetpass process
    Username, Password,
    Path, Value, \* of the json storage
    MaxSecret,  \* bound: secrets that are drawn
    None

Actor == Request \cup {Reset}
Secret == 1..MaxSecret
Token == [sub : Username, key : Secret]
Hash  == [salt : Secret, password : Password]
Json  == [Path -> Value \cup {None}]
User  == [name : Username, secret : Secret, hash : Hash, json : Json]

ASSUME NoneAssumption == None \notin Actor \cup Value \cup User \cup Json
ASSUME ActorAssumption == Reset \notin Request
ASSUME SecretAssumption == MaxSecret \in Nat

VARIABLES
    users,      \* the users table; a user has the id of who creates it
    shared,     \* transactions that hold SHARED
    reserved,   \* the transaction that holds RESERVED, or None
    pc,         \* where each actor is
    id, copy,   \* the user it works on, and its *db.User
    pending,    \* what its open transaction has written
    secrets,    \* secrets drawn so far
    tokens,     \* tokens handed out
    retired,    \* history: what signs those handed out before a change of password
    wanted,     \* history: what the storage operations that succeeded amount to,
                \* or None once a request wrote a copy that was not the row's
    stale       \* history: the requests whose copy of the storage is not

lockVars    == <<shared, reserved>>
actorVars   == <<pc, id, copy, pending>>
historyVars == <<retired, wanted, stale>>
vars == <<users, lockVars, actorVars, secrets, tokens, historyVars>>

IsUser(i) == users[i] # None

HashOf(secret, password) == [salt |-> secret, password |-> password]

TypeOK ==
    /\ users \in [Request -> User \cup {None}]
    /\ shared \subseteq Actor
    /\ reserved \in shared \cup {None}
    /\ pc \in [Actor -> {"idle", "authed", "counted", "refused", "drawn", "written"}]
    /\ id \in [Actor -> Request \cup {None}]
    /\ copy \in [Actor -> User \cup {None}]
    /\ pending \in [Actor -> User \cup {None}]
    /\ \A a \in Actor :
         /\ (pc[a] = "written") <=> (reserved = a)
         /\ (pc[a] \in {"authed", "drawn"}) => copy[a] # None /\ id[a] \in Request /\ IsUser(id[a])
         /\ (pc[a] \in {"drawn", "written"}) => pending[a] # None
    /\ secrets \in 0..MaxSecret
    /\ tokens \subseteq Token /\ retired \subseteq Secret
    /\ wanted \in Json \cup {None}
    /\ stale \subseteq Request

Init ==
    /\ users = [i \in Request |-> None]
    /\ shared = {} /\ reserved = None
    /\ pc = [a \in Actor |-> "idle"]
    /\ id = [a \in Actor |-> None]
    /\ copy = [a \in Actor |-> None]
    /\ pending = [a \in Actor |-> None]
    /\ secrets = 0
    /\ tokens = {}
    /\ retired = {}
    /\ wanted = [p \in Path |-> None]
    /\ stale = {}

(* The operators commented as a slip stand for a plausible mistake in the   *)
(* definition that follows them; no behaviour of the system uses them.      *)

-----------------------------------------------------------------------------
Goes(a, from, to) == pc[a] = from /\ pc' = [pc EXCEPT ![a] = to]

MayWrite(a)  == reserved \in {None, a}
MayCommit(a) == shared \subseteq {a}

(* Slip: the transaction is left open. *)
LeftOpen(a) == UNCHANGED <<shared, reserved, pending>>

Ends(a) ==
    /\ shared' = shared \ {a}
    /\ reserved' = IF reserved = a THEN None ELSE reserved
    /\ pending' = [pending EXCEPT ![a] = None]

TokenFor(user) == [sub |-> user.name, key |-> user.secret]

(* auth, with the row of the user the token names. *)
Accepts(t) == {i \in Request : IsUser(i) /\ users[i].name = t.sub /\ users[i].secret = t.key}

Draw == secrets < MaxSecret /\ secrets' = secrets + 1

-----------------------------------------------------------------------------
(* CreateUser. *)

(* Slip: the users are counted before the transaction begins. *)
CountsOutside(a) == shared' = shared

CountsInside(a) == shared' = shared \cup {a}

CountUsers(r) ==
    /\ Goes(r, "idle", IF \E i \in Request : IsUser(i) THEN "refused" ELSE "counted")
    /\ CountsInside(r)
    /\ UNCHANGED <<users, reserved, id, copy, pending, secrets, tokens, historyVars>>

InsertUser(r, name, password) ==
    /\ Goes(r, "counted", "written")
    /\ MayWrite(r)
    /\ Draw
    /\ shared' = shared \cup {r} /\ reserved' = r
    /\ pending' = [pending EXCEPT ![r] =
          [name |-> name, secret |-> secrets', hash |-> HashOf(secrets', password),
           json |-> [p \in Path |-> None]]]
    /\ id' = [id EXCEPT ![r] = r]
    /\ UNCHANGED <<users, copy, tokens, historyVars>>

(* There is a user; or another one is writing, or no secret can be drawn. *)
InsertRefused(r) ==
    /\ Goes(r, "counted", "idle") \/ Goes(r, "refused", "idle")
    /\ Ends(r)
    /\ UNCHANGED <<users, id, copy, secrets, tokens, historyVars>>

-----------------------------------------------------------------------------
(* Logging in, and what every request begins and ends with. *)

(* getToken, outside of a transaction. *)
LogIn(name, password) ==
    /\ \E i \in Request :
         /\ IsUser(i) /\ users[i].name = name
         /\ users[i].hash = HashOf(users[i].secret, password)
         /\ tokens' = tokens \cup {TokenFor(users[i])}
    /\ UNCHANGED <<users, lockVars, actorVars, secrets, historyVars>>

Authenticate(r, t) ==
    /\ Goes(r, "idle", "authed")
    /\ \E i \in Accepts(t) :
         /\ id' = [id EXCEPT ![r] = i]
         /\ copy' = [copy EXCEPT ![r] = users[i]]
    /\ UNCHANGED <<users, lockVars, pending, secrets, tokens, historyVars>>

(* The request is served, or a process ends, and its copy is gone. *)
Leave(a) ==
    /\ Goes(a, "authed", "idle")
    /\ id' = [id EXCEPT ![a] = None]
    /\ copy' = [copy EXCEPT ![a] = None]
    /\ stale' = stale \ {a}
    /\ UNCHANGED <<users, lockVars, pending, secrets, tokens, retired, wanted>>

-----------------------------------------------------------------------------
(* The mutations of one column: each is a statement, and a transaction, of *)
(* its own, and fails when it does not get its locks.                      *)

(* Slip: gorm's Save, which writes every column of the copy. *)
WithRow(user, old) == user

(* Updates of a single column. *)
WithJson(user, old) == [old EXCEPT !.json = user.json]

(* Slip: the copy of the request is left as it was read. *)
CopyAsRead(user, old) == old

CopyAfter(user, old) == user

(* SetJsonStorage and RemoveJsonStorage: the paths P are set, or removed,  *)
(* in the copy, which is then written.                                     *)
Edited(json, P, value) == [p \in Path |-> IF p \in P THEN value ELSE json[p]]

StoreJson(r, P, value) ==
    /\ pc[r] = "authed"
    /\ reserved = None /\ shared = {}
    /\ LET user == [copy[r] EXCEPT !.json = Edited(@, P, value)] IN
       /\ users' = [users EXCEPT ![id[r]] = WithJson(user, @)]
       /\ copy' = [copy EXCEPT ![r] = CopyAfter(user, @)]
    /\ wanted' = IF wanted = None \/ r \in stale THEN None ELSE Edited(wanted, P, value)
    /\ stale' = stale \cup {q \in Request \ {r} : pc[q] # "idle"}
    /\ UNCHANGED <<lockVars, pc, id, pending, secrets, tokens, retired>>

(* sjson refuses a path, or the database is busy: what was edited stays in *)
(* the copy, for the fields that come after this one.                      *)
StoreJsonFails(r, P, value) ==
    /\ pc[r] = "authed"
    /\ copy' = [copy EXCEPT ![r].json = Edited(@, P, value)]
    /\ stale' = stale \cup {r}
    /\ UNCHANGED <<users, lockVars, pc, id, pending, secrets, tokens, retired, wanted>>

UpdateUsername(r, name) ==
    /\ pc[r] = "authed"
    /\ reserved = None /\ shared = {}
    /\ users' = [users EXCEPT ![id[r]].name = name]
    /\ copy' = [copy EXCEPT ![r].name = name]
    /\ UNCHANGED <<lockVars, pc, id, pending, secrets, tokens, historyVars>>

UpdateUsernameFails(r, name) ==
    /\ pc[r] = "authed"
    /\ reserved # None \/ shared # {}
    /\ copy' = [copy EXCEPT ![r].name = name]
    /\ UNCHANGED <<users, lockVars, pc, id, pending, secrets, tokens, historyVars>>

-----------------------------------------------------------------------------
(* UpdatePassword. *)

(* Slip: the secret stays. *)
SameSecret(user, s) == user.secret

NewSecret(user, s) == s

(* The current password is checked with the copy. *)
DrawSecret(a, password) ==
    /\ Draw
    /\ LET s == NewSecret(copy[a], secrets') IN
       pending' = [pending EXCEPT ![a] =
          [copy[a] EXCEPT !.secret = s, !.hash = HashOf(s, password)]]
    /\ UNCHANGED <<users, lockVars, id, tokens, historyVars>>

VerifyPassword(r, current, new) ==
    /\ r \in Request
    /\ Goes(r, "authed", "drawn")
    /\ copy[r].hash = HashOf(copy[r].secret, current)
    /\ DrawSecret(r, new)
    /\ UNCHANGED copy

(* resetpass reads the users and goes over them without verification. *)
ResetRead ==
    /\ Goes(Reset, "idle", "authed")
    /\ \E i \in Request :
         /\ IsUser(i)
         /\ id' = [id EXCEPT ![Reset] = i]
         /\ copy' = [copy EXCEPT ![Reset] = users[i]]
    /\ UNCHANGED <<users, lockVars, pending, secrets, tokens, historyVars>>

ResetPassword(password) ==
    /\ Goes(Reset, "authed", "drawn")
    /\ DrawSecret(Reset, password)
    /\ UNCHANGED copy

(* gorm sets the fields of the copy whatever becomes of the update. *)
CopySecret(a) ==
    copy' = [copy EXCEPT ![a].secret = pending[a].secret, ![a].hash = pending[a].hash]

(* The two columns are written, and getToken finds the user by the name of *)
(* the copy, in the same transaction.                                      *)
WritePassword(a) ==
    /\ Goes(a, "drawn", "written")
    /\ MayWrite(a)
    /\ users[id[a]].name = copy[a].name
    /\ shared' = shared \cup {a} /\ reserved' = a
    /\ CopySecret(a)
    /\ UNCHANGED <<users, id, pending, secrets, tokens, historyVars>>

(* The name has changed, and the transaction is rolled back; or another    *)
(* one is writing.                                                         *)
WritePasswordFails(a) ==
    /\ Goes(a, "drawn", "authed")
    /\ users[id[a]].name # copy[a].name \/ ~MayWrite(a)
    /\ Ends(a)
    /\ CopySecret(a)
    /\ UNCHANGED <<users, id, secrets, tokens, historyVars>>

-----------------------------------------------------------------------------
(* The commit of CreateUser and of UpdatePassword.  The token was made     *)
(* before it, and the error of the commit is not looked at.                *)
HandOut(a) ==
    /\ pc[a] = "written"
    /\ pc' = [pc EXCEPT ![a] = IF copy[a] = None THEN "idle" ELSE "authed"]
    /\ tokens' = IF a = Reset THEN tokens ELSE tokens \cup {TokenFor(pending[a])}
    /\ id' = IF copy[a] = None THEN [id EXCEPT ![a] = None] ELSE id
    /\ Ends(a)
    /\ UNCHANGED <<copy, secrets, wanted, stale>>

Commit(a) ==
    /\ MayCommit(a)
    /\ HandOut(a)
    /\ users' = [users EXCEPT ![id[a]] =
          IF @ = None THEN pending[a]
          ELSE [@ EXCEPT !.secret = pending[a].secret, !.hash = pending[a].hash]]
    /\ retired' = retired \cup {t.key : t \in tokens}

CommitLost(a) ==
    /\ ~MayCommit(a)
    /\ HandOut(a)
    /\ UNCHANGED <<users, retired>>

-----------------------------------------------------------------------------
CreateStep(r) ==
    \/ CountUsers(r) \/ InsertRefused(r)
    \/ \E name \in Username, password \in Password : InsertUser(r, name, password)

FieldStep(r) ==
    \/ \E P \in SUBSET Path, value \in Value \cup {None} : StoreJson(r, P, value) \/ StoreJsonFails(r, P, value)
    \/ \E name \in Username : UpdateUsername(r, name) \/ UpdateUsernameFails(r, name)
    \/ \E current, new \in Password : VerifyPassword(r, current, new)

ResetStep == ResetRead \/ \E password \in Password : ResetPassword(password)

PasswordStep(a) == WritePassword(a) \/ WritePasswordFails(a) \/ Commit(a) \/ CommitLost(a)

Next ==
    \/ \E name \in Username, password \in Password : LogIn(name, password)
    \/ \E r \in Request :
         CreateStep(r) \/ FieldStep(r) \/ \E t \in tokens : Authenticate(r, t)
    \/ ResetStep
    \/ \E a \in Actor : PasswordStep(a) \/ Leave(a)

Spec == Init /\ [][Next]_vars

-----------------------------------------------------------------------------
(* There is at most one user, however many requests find none at the same  *)
(* time (mutation.go:50-57, root_schema.go, "createUser creates a user if   *)
(* there is no user").                                                     *)
SoleUser == \A i, k \in Request : IsUser(i) /\ IsUser(k) => i = k

(* A change of the password logs the others out (mutation.go:179): no      *)
(* token that was handed out before it is accepted ever again, whatever    *)
(* requests with an older copy of the user write afterwards.               *)
OthersLoggedOut == \A t \in tokens : t.key \in retired => Accepts(t) = {}

(* The storage is what the operations that succeeded amount to, unless a    *)
(* request wrote a copy that another had outdated, or that contains what   *)
(* an earlier field of it failed to write: SetJsonStorage and              *)
(* RemoveJsonStorage (mutation.go:78-125) lose or add nothing else.        *)
StorageAddsUp == \A i \in Request : IsUser(i) /\ wanted # None => users[i].json = wanted

=============================================================================
