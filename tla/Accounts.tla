------------------------------ MODULE Accounts ------------------------------
(***************************************************************************)
(* UserStoreImpl and AuthService: users, invitations and signed tokens.  A *)
(* request reads a user, works on its copy (hashing takes a while) and     *)
(* writes the whole row back.  A token is checked by its signature and its *)
(* age only, so what it claims may lag behind the store.                   *)
(***************************************************************************)
EXTENDS Naturals, FiniteSets

CONSTANTS
  UserIds,       \* ids, in the order in which they are given
  Names,
  Passwords,
  Requests,      \* request goroutines
  AccessExpiry,  \* lifetimes of tokens and invitations, in ticks
  RefreshExpiry,
  InviteExpiry,
  MaxTime,       \* bound on the clock
  None

\* A stored user; without a password it was invited and has not accepted yet.
NoPassword == ""
Rows == [name : Names, pw : Passwords \cup {NoPassword}, admin : BOOLEAN, invite : Nat]

ASSUME AccountsAssumption ==
  /\ UserIds \subseteq Nat /\ Names # {} /\ Passwords # {}
  /\ AccessExpiry \in Nat /\ RefreshExpiry \in Nat /\ InviteExpiry \in Nat /\ MaxTime \in Nat
  /\ None \notin Nat /\ None \notin Rows

VARIABLES
  users,      \* id -> [name, pw, admin, invite], or None
  file,       \* users.json
  given,      \* number of ids given
  tokens,     \* tokens handed out, as [user, admin, subject, at]
  request,    \* goroutine -> what it is doing
  clock,
  adminUntil, \* id -> the last tick at which it was an administrator, or None
  accepted,   \* id -> number of times that its invitation was accepted
  deleted,    \* ids that a request has deleted
  renamed,    \* ids that were given another name
  overlapped  \* ids whose row was changed between a request's read and write

accountVars == <<users, file, given, tokens, request, clock, adminUntil, accepted, deleted, renamed, overlapped>>

IsAdmin(row) == row # None /\ row.admin
NoInvite == MaxTime + InviteExpiry + 1
Idle == [pc |-> "idle", id |-> None, row |-> None, pw |-> NoPassword]

AccountsInit ==
  /\ users = [id \in UserIds |-> IF id = 1 THEN [name |-> CHOOSE n \in Names : TRUE, pw |-> CHOOSE p \in Passwords : TRUE, admin |-> TRUE, invite |-> NoInvite]
                                 ELSE None]
  /\ file = users /\ given = 1
  /\ tokens = {} /\ clock = 0
  /\ request = [r \in Requests |-> Idle]
  /\ adminUntil = [id \in UserIds |-> IF id = 1 THEN 0 ELSE None]
  /\ accepted = [id \in UserIds |-> 0] /\ deleted = {} /\ renamed = {} /\ overlapped = {}

-----------------------------------------------------------------------------
(* The store *)

\* Create, Update and Delete save the file before they give the lock back.
\* ClearAndSave, which only resets and restores call and which saves after it,
\* is not modelled here: Backup clears the users as one step.  A write that is
\* cut leaves a file that the next start refuses; the restarts below are those
\* that find a whole one.
Write(rows) ==
  /\ users' = rows /\ file' = rows
  /\ adminUntil' = [id \in UserIds |-> IF IsAdmin(users[id]) \/ IsAdmin(rows[id]) THEN clock ELSE adminUntil[id]]

\* Requests that hold a copy of this row now hold a stale one.
Touched(id, r) ==
  overlapped' = IF \E q \in Requests \ {r} : request[q].id = id THEN overlapped \cup {id} ELSE overlapped

NameFree(name) == \A id \in UserIds : users[id] # None => users[id].name # name

Create(row) ==
  /\ NameFree(row.name)
  /\ given + 1 \in UserIds /\ given' = given + 1
  /\ Write([users EXCEPT ![given + 1] = row])

Update(id, row) == [users EXCEPT ![id] = IF @ = None THEN None ELSE row]

-----------------------------------------------------------------------------
(* Requests *)

CreateUser(name, pw, admin) ==
  /\ Create([name |-> name, pw |-> pw, admin |-> admin, invite |-> NoInvite])
  /\ UNCHANGED <<tokens, request, clock, accepted, deleted, renamed, overlapped>>

CreateInvite(name) ==
  /\ Create([name |-> name, pw |-> NoPassword, admin |-> FALSE, invite |-> clock + InviteExpiry])
  /\ UNCHANGED <<tokens, request, clock, accepted, deleted, renamed, overlapped>>

Read(r, id, pc, pw) ==
  /\ request[r].pc = "idle" /\ users[id] # None
  /\ request' = [request EXCEPT ![r] = [pc |-> pc, id |-> id, row |-> users[id], pw |-> pw]]
  /\ UNCHANGED <<users, file, given, tokens, clock, adminUntil, accepted, deleted, renamed, overlapped>>

AcceptInviteRead(r, id, pw) ==
  users[id] # None /\ users[id].invite # NoInvite /\ clock <= users[id].invite /\ Read(r, id, "accept", pw)

Activated(row, pw) == [row EXCEPT !.pw = pw, !.invite = NoInvite]

AcceptInvite(r) ==
  LET id == request[r].id IN
  /\ request[r].pc = "accept"
  /\ Write(Update(id, Activated(request[r].row, request[r].pw)))
  /\ accepted' = IF users[id] = None THEN accepted ELSE [accepted EXCEPT ![id] = @ + 1]
  /\ request' = [request EXCEPT ![r] = Idle]
  /\ Touched(id, r)
  /\ UNCHANGED <<given, tokens, clock, deleted, renamed>>

\* An empty password leaves the hash as it was read.  The new name is not
\* compared with those of the other users.
UpdateUserRead(r, id, pw) == Read(r, id, "update", pw)

UpdateUser(r, name, admin) ==
  LET id == request[r].id IN
  /\ request[r].pc = "update"
  /\ Write(Update(id, [request[r].row EXCEPT !.admin = admin, !.name = name,
                         !.pw = IF request[r].pw = NoPassword THEN @ ELSE request[r].pw]))
  /\ request' = [request EXCEPT ![r] = Idle]
  /\ Touched(id, r)
  /\ renamed' = IF name = request[r].row.name THEN renamed ELSE renamed \cup {id}
  /\ UNCHANGED <<given, tokens, clock, accepted, deleted>>

DeleteUser(id) ==
  /\ users[id] # None
  /\ Write([users EXCEPT ![id] = None])
  /\ deleted' = deleted \cup {id}
  /\ Touched(id, None)
  /\ UNCHANGED <<given, tokens, request, clock, accepted, renamed>>

-----------------------------------------------------------------------------
(* Tokens *)

generateToken(id, row, subject) == [user |-> id, admin |-> row.admin, subject |-> subject, at |-> clock]
Lifetime(t) == IF t.subject = "access" THEN AccessExpiry ELSE RefreshExpiry
ValidateToken(t) == t \in tokens /\ clock < t.at + Lifetime(t)

\* The password is compared with the hash as it was read; a user without one,
\* who was invited, cannot log in.
GetByUsername(name) == {id \in UserIds : users[id] # None /\ users[id].name = name
                                 /\ \A j \in UserIds : j < id => users[j] = None \/ users[j].name # name}

Login(r, name, pw) ==
  \E id \in GetByUsername(name) :
  /\ users[id].pw # NoPassword /\ users[id].pw = pw
  /\ Read(r, id, "login", pw)

LoginIssue(r) ==
  LET row == request[r].row
      id == request[r].id IN
  /\ request[r].pc = "login"
  /\ tokens' = tokens \cup {generateToken(id, row, "access"), generateToken(id, row, "refresh")}
  /\ request' = [request EXCEPT ![r] = Idle]
  /\ UNCHANGED <<users, file, given, clock, adminUntil, accepted, deleted, renamed, overlapped>>

\* (Slip: the claims are copied from the refresh token.)
SameClaims(t) == [t EXCEPT !.subject = "access", !.at = clock]
FreshClaims(t) == generateToken(t.user, users[t.user], "access")

RefreshToken(t) ==
  /\ ValidateToken(t) /\ t.subject = "refresh" /\ users[t.user] # None
  /\ tokens' = tokens \cup {FreshClaims(t)}
  /\ UNCHANGED <<users, file, given, request, clock, adminUntil, accepted, deleted, renamed, overlapped>>

\* What the middleware takes the bearer of a token for: neither its subject
\* nor the store is looked at, so a refresh token is as good as an access token.
RequireAdmin(t) == ValidateToken(t) /\ t.admin

\* Requests are answered within a tick.
Tick ==
  /\ clock < MaxTime /\ \A r \in Requests : request[r].pc = "idle"
  /\ clock' = clock + 1
  /\ tokens' = {t \in tokens : clock + 1 < t.at + Lifetime(t)}
  /\ adminUntil' = [id \in UserIds |-> IF IsAdmin(users[id]) THEN clock + 1 ELSE adminUntil[id]]
  /\ UNCHANGED <<users, file, given, request, accepted, deleted, renamed, overlapped>>

\* A crash ends the requests; the tokens stay valid.
AccountsRestart ==
  /\ users' = file
  /\ request' = [r \in Requests |-> Idle]
  /\ UNCHANGED <<file, given, tokens, clock, adminUntil, accepted, deleted, renamed, overlapped>>

AccountsSteps ==
  \E r \in Requests : AcceptInvite(r) \/ LoginIssue(r) \/ \E admin \in BOOLEAN, name \in Names : UpdateUser(r, name, admin)

AccountsRequests ==
  \/ Tick \/ AccountsRestart
  \/ \E name \in Names, pw \in Passwords, admin \in BOOLEAN : CreateUser(name, pw, admin)
  \/ \E name \in Names : CreateInvite(name)
  \/ \E id \in UserIds : DeleteUser(id)
  \/ \E r \in Requests, id \in UserIds : UpdateUserRead(r, id, NoPassword)
  \/ \E r \in Requests, id \in UserIds, pw \in Passwords :
       AcceptInviteRead(r, id, pw) \/ UpdateUserRead(r, id, pw)
  \/ \E r \in Requests, name \in Names, pw \in Passwords : Login(r, name, pw)
  \/ \E t \in tokens : RefreshToken(t)

AccountsSpec == AccountsInit /\ [][AccountsSteps \/ AccountsRequests]_accountVars

-----------------------------------------------------------------------------
(* Properties *)

\* An invitation is used up by the first acceptance, across restarts and later
\* edits of the user, unless another request wrote the row back in between.
InviteUsedOnce == \A id \in UserIds : id \notin overlapped => accepted[id] <= 1

\* A valid token that claims administration, of whichever subject, belongs to
\* somebody who was an administrator within that token's lifetime: a refresh
\* token is believed too, and for longer.
ClaimsLagBounded ==
  \A t \in tokens : RequireAdmin(t) =>
    adminUntil[t.user] # None /\ clock <= adminUntil[t.user] + Lifetime(t)

\* A deleted user does not come back through a request that had read it
\* before, nor through a restart.
DeletedIsFinal == \A id \in deleted : users[id] = None /\ file[id] = None

\* A name belongs to one user, unless an edit gave it to a second one: of two
\* users with one name only the first could log in.
OneUserPerName ==
  \A i, j \in UserIds : users[i] # None /\ users[j] # None /\ users[i].name = users[j].name =>
    i = j \/ i \in renamed \/ j \in renamed

\* An invitation is used up by the first acceptance, a valid token, also a
\* refresh token, claims what its user was within the token's lifetime, a deleted user does not come back
\* through a request that had read it, and a name belongs to one user.
AccountsSound == InviteUsedOnce /\ ClaimsLagBounded /\ DeletedIsFinal /\ OneUserPerName

=============================================================================
