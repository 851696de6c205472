--------------------------- MODULE HouseholdProofs --------------------------
(***************************************************************************)
(* The safety of Accounts for any ids, names, passwords, requests and      *)
(* lifetimes, of TunerDevices for any devices, ports, groups, requests and *)
(* servers, and of the stores with a file of their own (Favorites,         *)
(* HdhrSources, ScheduleFile, as MCHousehold composes them) for any items, *)
(* readers, tuners, names, bookings and requests.                          *)
(***************************************************************************)
EXTENDS MCHousehold, FiniteSetTheorems, TLAPS

-----------------------------------------------------------------------------
(***************************************************************************)
(* Users, tokens and invitations (Accounts).  A request writes back the    *)
(* row it read, so the invariant has to relate the copies that requests    *)
(* hold to the store: who holds one, what it may still say of the name and *)
(* the invitation, and how old it can be.                                  *)
(***************************************************************************)

Tokens == [user : UserIds, admin : BOOLEAN, subject : {"access", "refresh"}, at : Nat]
Holding == [pc : {"accept", "update", "login"}, id : UserIds, row : Rows, pw : Passwords \cup {NoPassword}]
Busy(r) == request[r].pc # "idle"

AccountTypes ==
  /\ users \in [UserIds -> Rows \cup {None}] /\ file = users
  /\ given \in Nat /\ clock \in Nat
  /\ tokens \subseteq Tokens
  /\ request \in [Requests -> Holding \cup {Idle}]
  /\ adminUntil \in [UserIds -> Nat \cup {None}]
  /\ accepted \in [UserIds -> Nat]
  /\ deleted \subseteq UserIds /\ renamed \subseteq UserIds /\ overlapped \subseteq UserIds

\* An id that was not given yet is nowhere.
FreshIds ==
  /\ \A id \in UserIds : id > given => users[id] = None /\ accepted[id] = 0
  /\ \A id \in deleted : id <= given
  /\ \A r \in Requests : Busy(r) => request[r].id <= given

\* After the acceptance nobody holds a copy that could accept again.
InvitationSpent ==
  \A id \in UserIds : id \notin overlapped /\ accepted[id] # 0 =>
    /\ accepted[id] = 1
    /\ users[id] # None => users[id].invite = NoInvite
    /\ \A r \in Requests : Busy(r) /\ request[r].id = id =>
         request[r].pc # "accept" /\ request[r].row.invite = NoInvite

\* The administrators of now, in the store and in the copies that requests
\* hold, and those that a token speaks of.
AdminsKnown ==
  /\ \A id \in UserIds : adminUntil[id] # None => adminUntil[id] <= clock
  /\ \A id \in UserIds : IsAdmin(users[id]) => adminUntil[id] = clock
  /\ \A r \in Requests : Busy(r) /\ request[r].row.admin => adminUntil[request[r].id] = clock
  /\ \A t \in tokens : t.admin =>
       adminUntil[t.user] # None /\ t.at <= adminUntil[t.user]

\* A copy has the name of its row, unless the row was renamed.
NamesKnown ==
  \A r \in Requests : Busy(r) /\ users[request[r].id] # None /\ request[r].id \notin renamed =>
    request[r].row.name = users[request[r].id].name

\* The inductive invariant.
IInv ==
  /\ AccountTypes /\ FreshIds /\ InvitationSpent /\ AdminsKnown /\ NamesKnown
  /\ DeletedIsFinal /\ OneUserPerName

-----------------------------------------------------------------------------
(* Types *)

\* What a request keeps when it is over, and the invitation of a user who has
\* none.
LEMMA Basics ==
  /\ NoInvite \in Nat /\ NoPassword \in Passwords \cup {NoPassword}
  /\ Idle.pc = "idle" /\ \A h \in Holding : h.pc # "idle"
  BY AccountsAssumption DEF NoInvite, Idle, Holding

\* The file of the first start has one administrator.
LEMMA InitIInv == AccountsInit => IInv
<1> SUFFICES ASSUME AccountsInit PROVE IInv
  OBVIOUS
<1> DEFINE admin == [name |-> CHOOSE n \in Names : TRUE, pw |-> CHOOSE p \in Passwords : TRUE, admin |-> TRUE, invite |-> NoInvite]
<1>1. admin \in Rows
  <2>1. (CHOOSE n \in Names : TRUE) \in Names /\ (CHOOSE p \in Passwords : TRUE) \in Passwords
    BY AccountsAssumption
  <2> QED BY <2>1, Basics DEF Rows
<1>2. \A r \in Requests : request[r] = Idle /\ ~Busy(r)
  BY Basics DEF AccountsInit, Busy
<1>3. /\ users = [id \in UserIds |-> IF id = 1 THEN admin ELSE None] /\ file = users
      /\ adminUntil = [id \in UserIds |-> IF id = 1 THEN 0 ELSE None]
      /\ given = 1 /\ clock = 0 /\ tokens = {} /\ accepted = [id \in UserIds |-> 0]
      /\ deleted = {} /\ renamed = {} /\ overlapped = {} /\ request = [r \in Requests |-> Idle]
  BY DEF AccountsInit
<1> HIDE DEF admin
<1>4. AccountTypes
  BY <1>1, <1>3 DEF AccountTypes
<1>5. FreshIds
  BY <1>2, <1>3, AccountsAssumption DEF FreshIds
<1>6. InvitationSpent /\ NamesKnown /\ DeletedIsFinal /\ OneUserPerName
  BY <1>2, <1>3 DEF InvitationSpent, NamesKnown, DeletedIsFinal, OneUserPerName
<1>7. AdminsKnown
  BY <1>2, <1>3, AccountsAssumption DEF AdminsKnown, IsAdmin
<1> QED BY <1>4, <1>5, <1>6, <1>7 DEF IInv

\* A write of well-typed rows keeps the types of the store and what is known
\* of administrators.
LEMMA WriteAdmins ==
  ASSUME AccountTypes, AdminsKnown, NEW written \in [UserIds -> Rows \cup {None}], Write(written), UNCHANGED clock
  PROVE  /\ users' \in [UserIds -> Rows \cup {None}] /\ file' = users' /\ users' = written
         /\ adminUntil' \in [UserIds -> Nat \cup {None}]
         /\ \A id \in UserIds : adminUntil'[id] # None => adminUntil'[id] <= clock'
         /\ \A id \in UserIds : IsAdmin(users'[id]) => adminUntil'[id] = clock'
         /\ \A id \in UserIds : adminUntil[id] # None => adminUntil'[id] # None /\ adminUntil[id] <= adminUntil'[id]
         /\ \A id \in UserIds : adminUntil[id] = clock => adminUntil'[id] = clock
<1>1. adminUntil' = [id \in UserIds |-> IF IsAdmin(users[id]) \/ IsAdmin(written[id]) THEN clock ELSE adminUntil[id]]
  BY DEF Write
<1>2. users' = written /\ file' = written /\ clock' = clock
  BY DEF Write
<1>3. clock \in Nat /\ adminUntil \in [UserIds -> Nat \cup {None}]
  BY DEF AccountTypes
<1>4. \A id \in UserIds : adminUntil'[id] \in {clock, adminUntil[id]}
  BY <1>1
<1>5. \A id \in UserIds : adminUntil[id] # None => adminUntil[id] \in Nat /\ adminUntil[id] <= clock
  BY <1>3 DEF AdminsKnown
<1> QED BY <1>1, <1>2, <1>3, <1>4, <1>5, AccountsAssumption DEF AdminsKnown

\* A write that gives no request a new copy leaves nobody's claim too old.
LEMMA AdminsKept ==
  ASSUME AccountTypes, AdminsKnown, NEW written \in [UserIds -> Rows \cup {None}], Write(written),
         UNCHANGED <<clock, tokens>>,
         \A q \in Requests : Busy(q)' => Busy(q) /\ request'[q] = request[q]
  PROVE  AdminsKnown'
<1>1. /\ adminUntil' \in [UserIds -> Nat \cup {None}]
      /\ \A id \in UserIds : adminUntil'[id] # None => adminUntil'[id] <= clock'
      /\ \A id \in UserIds : IsAdmin(users'[id]) => adminUntil'[id] = clock'
      /\ \A id \in UserIds : adminUntil[id] # None => adminUntil'[id] # None /\ adminUntil[id] <= adminUntil'[id]
      /\ \A id \in UserIds : adminUntil[id] = clock => adminUntil'[id] = clock
  BY WriteAdmins
<1>2. \A q \in Requests : Busy(q) => request[q].id \in UserIds
  BY Basics DEF Holding, Busy, AccountTypes
<1>3. \A q \in Requests : Busy(q)' /\ request'[q].row.admin => adminUntil'[request'[q].id] = clock'
  BY <1>1, <1>2 DEF AdminsKnown
<1>4. ASSUME NEW t \in tokens', t.admin
      PROVE  adminUntil'[t.user] # None /\ t.at <= adminUntil'[t.user]
  <2>1. t \in tokens /\ t.user \in UserIds /\ t.at \in Nat
    BY DEF AccountTypes, Tokens
  <2>2. adminUntil[t.user] # None /\ t.at <= adminUntil[t.user]
    BY <1>4, <2>1 DEF AdminsKnown
  <2>3. adminUntil'[t.user] # None /\ adminUntil[t.user] <= adminUntil'[t.user]
    BY <1>1, <2>1, <2>2
  <2>4. adminUntil[t.user] \in Nat /\ adminUntil'[t.user] \in Nat
    BY <1>1, <2>1, <2>2, <2>3 DEF AccountTypes
  <2> QED BY <2>1, <2>2, <2>3, <2>4
<1> QED BY <1>1, <1>3, <1>4 DEF AdminsKnown

-----------------------------------------------------------------------------
(* The steps *)

\* Create gives an id that nothing knows yet, to a name that nobody has.
LEMMA CreateStep ==
  ASSUME IInv, NEW row \in Rows, Create(row),
         UNCHANGED <<tokens, request, clock, accepted, deleted, renamed, overlapped>>
  PROVE  IInv'
<1> USE DEF IInv, AccountTypes, Busy
<1>1. given + 1 \in UserIds /\ given' = given + 1 /\ NameFree(row.name)
  BY DEF Create
<1> DEFINE written == [users EXCEPT ![given + 1] = row]
<1>3. written \in [UserIds -> Rows \cup {None}] /\ Write(written)
  BY <1>1 DEF Create
<1>4. /\ users' = written /\ file' = written
      /\ adminUntil' \in [UserIds -> Nat \cup {None}]
      /\ \A id \in UserIds : adminUntil'[id] # None => adminUntil'[id] <= clock'
      /\ \A id \in UserIds : IsAdmin(users'[id]) => adminUntil'[id] = clock'
      /\ \A id \in UserIds : adminUntil[id] # None => adminUntil'[id] # None /\ adminUntil[id] <= adminUntil'[id]
      /\ \A id \in UserIds : adminUntil[id] = clock => adminUntil'[id] = clock
  BY <1>3, WriteAdmins
<1>5. AccountTypes'
  BY <1>1, <1>3, <1>4
<1>6. FreshIds'
  <2>1. \A n \in Nat : n > given + 1 => n > given /\ n # given + 1
    OBVIOUS
  <2>2. \A n \in Nat : n <= given => n <= given + 1
    OBVIOUS
  <2>3. \A x \in UserIds : x > given' => users'[x] = None /\ accepted'[x] = 0
    BY <1>1, <1>4, <2>1, AccountsAssumption DEF FreshIds
  <2>4. \A x \in deleted' : x <= given'
    BY <1>1, <2>2, AccountsAssumption DEF FreshIds
  <2>5. \A r \in Requests : Busy(r)' => request'[r].id <= given'
    <3>1. \A r \in Requests : Busy(r) => request[r].id \in UserIds
      BY Basics DEF Holding
    <3> QED BY <1>1, <2>2, <3>1, AccountsAssumption DEF FreshIds
  <2> QED BY <2>3, <2>4, <2>5 DEF FreshIds
<1>7. accepted[given + 1] = 0 /\ given + 1 \notin deleted /\ \A r \in Requests : Busy(r) => request[r].id # given + 1
  BY <1>1 DEF FreshIds
<1>8. InvitationSpent'
  BY <1>4, <1>7 DEF InvitationSpent
<1>9. AdminsKnown'
  BY <1>3, AdminsKept
<1>10. NamesKnown'
  BY <1>4, <1>7 DEF NamesKnown
<1>11. DeletedIsFinal'
  BY <1>4, <1>7 DEF DeletedIsFinal
<1>12. OneUserPerName'
  BY <1>1, <1>4 DEF OneUserPerName, NameFree
<1> QED BY <1>5, <1>6, <1>8, <1>9, <1>10, <1>11, <1>12

\* A request takes a copy of a row; one that accepts an invitation finds it
\* open.
LEMMA ReadStep ==
  ASSUME IInv, NEW r \in Requests, NEW id \in UserIds, NEW pc \in {"accept", "update", "login"},
         NEW pw \in Passwords \cup {NoPassword}, Read(r, id, pc, pw),
         pc = "accept" => users[id].invite # NoInvite
  PROVE  IInv'
<1> USE DEF IInv, AccountTypes, Busy
<1> DEFINE h == [pc |-> pc, id |-> id, row |-> users[id], pw |-> pw]
<1>1. /\ users[id] # None /\ request' = [request EXCEPT ![r] = h]
      /\ UNCHANGED <<users, file, given, tokens, clock, adminUntil, accepted, deleted, renamed, overlapped>>
  BY DEF Read
<1>2. users[id] \in Rows /\ h \in Holding
  BY <1>1 DEF Holding
<1>3. h.pc = pc /\ h.id = id /\ h.row = users[id]
  OBVIOUS
<1> HIDE DEF h
<1>4. AccountTypes'
  BY <1>1, <1>2
<1>5. FreshIds'
  BY <1>1, <1>3, AccountsAssumption DEF FreshIds
<1>6. InvitationSpent'
  BY <1>1, <1>3 DEF InvitationSpent
<1>7. AdminsKnown'
  BY <1>1, <1>3 DEF AdminsKnown, IsAdmin
<1>8. NamesKnown'
  BY <1>1, <1>3 DEF NamesKnown
<1>9. DeletedIsFinal' /\ OneUserPerName'
  BY <1>1 DEF DeletedIsFinal, OneUserPerName
<1> QED BY <1>4, <1>5, <1>6, <1>7, <1>8, <1>9

\* What every write of a copy does, whatever it changes in it.
LEMMA WriteBack ==
  ASSUME IInv, NEW r \in Requests, Busy(r), NEW row \in Rows, Write(Update(request[r].id, row)),
         request' = [request EXCEPT ![r] = Idle], Touched(request[r].id, r),
         UNCHANGED <<given, tokens, clock, deleted>>
  PROVE  /\ request[r].id \in UserIds
         /\ users' = Update(request[r].id, row)
         /\ users' \in [UserIds -> Rows \cup {None}] /\ file' = users'
         /\ request' \in [Requests -> Holding \cup {Idle}]
         /\ adminUntil' \in [UserIds -> Nat \cup {None}]
         /\ overlapped \subseteq overlapped' /\ overlapped' \subseteq UserIds
         /\ \A q \in Requests : Busy(q)' => q # r /\ Busy(q) /\ request'[q] = request[q]
         /\ \A q \in Requests : Busy(q)' /\ request[q].id = request[r].id => request[r].id \in overlapped'
         /\ AdminsKnown' /\ DeletedIsFinal'
<1> USE DEF IInv, AccountTypes, Busy
<1> DEFINE id == request[r].id
           written == Update(id, row)
<1>1. request[r] \in Holding /\ id \in UserIds
  BY Basics DEF Holding
<1>2. written \in [UserIds -> Rows \cup {None}]
  BY <1>1 DEF Update
<1>3. /\ users' = written /\ file' = written
      /\ adminUntil' \in [UserIds -> Nat \cup {None}]
      /\ \A x \in UserIds : adminUntil'[x] # None => adminUntil'[x] <= clock'
      /\ \A x \in UserIds : IsAdmin(users'[x]) => adminUntil'[x] = clock'
      /\ \A x \in UserIds : adminUntil[x] # None => adminUntil'[x] # None /\ adminUntil[x] <= adminUntil'[x]
      /\ \A x \in UserIds : adminUntil[x] = clock => adminUntil'[x] = clock
  BY <1>2, WriteAdmins
<1>4. \A q \in Requests : Busy(q)' => q # r /\ Busy(q) /\ request'[q] = request[q]
  BY Basics
<1>5. overlapped \subseteq overlapped' /\ overlapped' \subseteq UserIds
  BY <1>1 DEF Touched
<1>6. \A q \in Requests : Busy(q)' /\ request[q].id = id => id \in overlapped'
  BY <1>4 DEF Touched
<1>7. AdminsKnown'
  BY <1>2, <1>4, AdminsKept
<1>8. DeletedIsFinal'
  BY <1>1, <1>3 DEF DeletedIsFinal, Update
<1> QED BY <1>1, <1>2, <1>3, <1>4, <1>5, <1>6, <1>7, <1>8

\* The acceptance that is written closes the invitation, and a copy that could
\* accept it again is one that overlapped.
LEMMA AcceptStep ==
  ASSUME IInv, NEW r \in Requests, AcceptInvite(r)
  PROVE  IInv'
<1> USE DEF IInv, AccountTypes
<1> DEFINE id == request[r].id
           row == Activated(request[r].row, request[r].pw)
<1>1. Busy(r) /\ request[r] \in Holding
  BY Basics DEF AcceptInvite, Busy
<1>2. row \in Rows /\ row.invite = NoInvite /\ row.name = request[r].row.name
  BY <1>1, Basics DEF Activated, Holding, Rows
<1>3. /\ Write(Update(id, row)) /\ request' = [request EXCEPT ![r] = Idle] /\ Touched(id, r)
      /\ accepted' = IF users[id] = None THEN accepted ELSE [accepted EXCEPT ![id] = @ + 1]
      /\ UNCHANGED <<given, tokens, clock, deleted, renamed>>
  BY DEF AcceptInvite
<1> HIDE DEF row
<1>4. /\ id \in UserIds
      /\ users' = Update(id, row)
      /\ users' \in [UserIds -> Rows \cup {None}] /\ file' = users'
      /\ request' \in [Requests -> Holding \cup {Idle}]
      /\ adminUntil' \in [UserIds -> Nat \cup {None}]
      /\ overlapped \subseteq overlapped' /\ overlapped' \subseteq UserIds
      /\ \A q \in Requests : Busy(q)' => q # r /\ Busy(q) /\ request'[q] = request[q]
      /\ \A q \in Requests : Busy(q)' /\ request[q].id = id => id \in overlapped'
      /\ AdminsKnown' /\ DeletedIsFinal'
  BY <1>1, <1>2, <1>3, WriteBack
<1>5. AccountTypes'
  <2>1. accepted' \in [UserIds -> Nat]
    BY <1>3, <1>4
  <2> QED BY <1>3, <1>4, <2>1
<1>6. FreshIds'
  <2>1. id <= given
    BY <1>1 DEF FreshIds
  <2>2. id \in Nat
    BY <1>4, AccountsAssumption
  <2>3. \A x \in UserIds : x > given => x # id
    BY <2>1, <2>2, AccountsAssumption
  <2> QED BY <1>3, <1>4, <2>3 DEF FreshIds, Update
<1>7. InvitationSpent'
  <2>1. id \notin overlapped => accepted[id] = 0
    BY <1>1, <1>4 DEF InvitationSpent, AcceptInvite
  <2> SUFFICES ASSUME NEW x \in UserIds, x \notin overlapped', accepted'[x] # 0
               PROVE  /\ accepted'[x] = 1
                      /\ users'[x] # None => users'[x].invite = NoInvite
                      /\ \A q \in Requests : Busy(q)' /\ request'[q].id = x =>
                           request'[q].pc # "accept" /\ request'[q].row.invite = NoInvite
    BY DEF InvitationSpent
  <2>2. CASE x = id
    BY <1>2, <1>3, <1>4, <2>1, <2>2 DEF Update
  <2>3. CASE x # id
    BY <1>3, <1>4, <2>3 DEF Update, InvitationSpent
  <2> QED BY <2>2, <2>3
<1>8. \A x \in UserIds : users'[x] # None => users[x] # None /\ (x \notin renamed => users'[x].name = users[x].name)
  BY <1>1, <1>2, <1>4 DEF Update, NamesKnown
<1>9. NamesKnown'
  <2>1. \A q \in Requests : Busy(q) => request[q].id \in UserIds
    BY Basics DEF Holding, Busy
  <2> QED BY <1>3, <1>4, <1>8, <2>1 DEF NamesKnown
<1>10. OneUserPerName'
  BY <1>3, <1>8 DEF OneUserPerName
<1> QED BY <1>4, <1>5, <1>6, <1>7, <1>9, <1>10

\* An edit writes back the invitation as it was read, and another name only for
\* a user it marks as renamed.
LEMMA UpdateStep ==
  ASSUME IInv, NEW r \in Requests, NEW name \in Names, NEW admin \in BOOLEAN, UpdateUser(r, name, admin)
  PROVE  IInv'
<1> USE DEF IInv, AccountTypes
<1> DEFINE id == request[r].id
           row == [request[r].row EXCEPT !.admin = admin, !.name = name,
                     !.pw = IF request[r].pw = NoPassword THEN @ ELSE request[r].pw]
<1>1. Busy(r) /\ request[r] \in Holding
  BY Basics DEF UpdateUser, Busy
<1>2. row \in Rows /\ row.invite = request[r].row.invite /\ row.name = name
  BY <1>1, Basics DEF Holding, Rows
<1>3. /\ Write(Update(id, row)) /\ request' = [request EXCEPT ![r] = Idle] /\ Touched(id, r)
      /\ renamed' = IF name = request[r].row.name THEN renamed ELSE renamed \cup {id}
      /\ UNCHANGED <<given, tokens, clock, accepted, deleted>>
  BY DEF UpdateUser
<1> HIDE DEF row
<1>4. /\ id \in UserIds
      /\ users' = Update(id, row)
      /\ users' \in [UserIds -> Rows \cup {None}] /\ file' = users'
      /\ request' \in [Requests -> Holding \cup {Idle}]
      /\ adminUntil' \in [UserIds -> Nat \cup {None}]
      /\ overlapped \subseteq overlapped' /\ overlapped' \subseteq UserIds
      /\ \A q \in Requests : Busy(q)' => q # r /\ Busy(q) /\ request'[q] = request[q]
      /\ \A q \in Requests : Busy(q)' /\ request[q].id = id => id \in overlapped'
      /\ AdminsKnown' /\ DeletedIsFinal'
  BY <1>1, <1>2, <1>3, WriteBack
<1>5. AccountTypes'
  BY <1>3, <1>4
<1>6. FreshIds'
  BY <1>3, <1>4 DEF FreshIds, Update
<1>7. InvitationSpent'
  BY <1>1, <1>2, <1>3, <1>4 DEF InvitationSpent, Update
<1>8. \A x \in UserIds : users'[x] # None => users[x] # None /\ (x \notin renamed' => users'[x].name = users[x].name)
  BY <1>1, <1>2, <1>3, <1>4 DEF Update, NamesKnown
<1>9. NamesKnown'
  <2>1. \A q \in Requests : Busy(q) => request[q].id \in UserIds
    BY Basics DEF Holding, Busy
  <2> QED BY <1>3, <1>4, <1>8, <2>1 DEF NamesKnown
<1>10. OneUserPerName'
  BY <1>3, <1>8 DEF OneUserPerName
<1> QED BY <1>4, <1>5, <1>6, <1>7, <1>9, <1>10

\* A deleted row is gone from the file too.
LEMMA DeleteStep ==
  ASSUME IInv, NEW id \in UserIds, DeleteUser(id)
  PROVE  IInv'
<1> USE DEF IInv, AccountTypes, Busy
<1> DEFINE written == [users EXCEPT ![id] = None]
<1>1. /\ users[id] # None /\ Write(written) /\ deleted' = deleted \cup {id} /\ Touched(id, None)
      /\ UNCHANGED <<given, tokens, request, clock, accepted, renamed>>
  BY DEF DeleteUser
<1>2. /\ users' \in [UserIds -> Rows \cup {None}] /\ file' = users' /\ users' = written
      /\ adminUntil' \in [UserIds -> Nat \cup {None}]
      /\ \A x \in UserIds : adminUntil'[x] # None => adminUntil'[x] <= clock'
      /\ \A x \in UserIds : IsAdmin(users'[x]) => adminUntil'[x] = clock'
      /\ \A x \in UserIds : adminUntil[x] # None => adminUntil'[x] # None /\ adminUntil[x] <= adminUntil'[x]
      /\ \A x \in UserIds : adminUntil[x] = clock => adminUntil'[x] = clock
  BY <1>1, WriteAdmins
<1>3. overlapped \subseteq overlapped' /\ overlapped' \subseteq UserIds
  BY <1>1 DEF Touched
<1>4. AccountTypes'
  BY <1>1, <1>2, <1>3
<1>5. FreshIds'
  BY <1>1, <1>2, AccountsAssumption DEF FreshIds
<1>6. InvitationSpent'
  BY <1>1, <1>2, <1>3 DEF InvitationSpent
<1>7. AdminsKnown'
  BY <1>1, AdminsKept
<1>8. NamesKnown' /\ DeletedIsFinal' /\ OneUserPerName'
  <2>1. \A q \in Requests : Busy(q) => request[q].id \in UserIds
    BY Basics DEF Holding
  <2> QED BY <1>1, <1>2, <2>1 DEF NamesKnown, DeletedIsFinal, OneUserPerName
<1> QED BY <1>4, <1>5, <1>6, <1>7, <1>8

\* The tokens of a login speak of the row as the login read it, in this tick.
LEMMA LoginStep ==
  ASSUME IInv, NEW r \in Requests, LoginIssue(r)
  PROVE  IInv'
<1> USE DEF IInv, AccountTypes, Busy
<1> DEFINE id == request[r].id
           row == request[r].row
<1>1. /\ tokens' = tokens \cup {generateToken(id, row, "access"), generateToken(id, row, "refresh")}
      /\ request' = [request EXCEPT ![r] = Idle]
      /\ UNCHANGED <<users, file, given, clock, adminUntil, accepted, deleted, renamed, overlapped>>
  BY DEF LoginIssue
<1>2. request[r] \in Holding /\ Busy(r) /\ id \in UserIds /\ row \in Rows
  BY Basics DEF LoginIssue, Holding
<1>3. \A subject \in {"access", "refresh"} : generateToken(id, row, subject) \in Tokens
  BY <1>2 DEF generateToken, Tokens, Rows
<1>4. \A q \in Requests : Busy(q)' => q # r /\ Busy(q) /\ request'[q] = request[q]
  BY <1>1, Basics
<1>5. AccountTypes'
  BY <1>1, <1>3
<1>6. FreshIds' /\ InvitationSpent' /\ NamesKnown' /\ DeletedIsFinal' /\ OneUserPerName'
  BY <1>1, <1>4 DEF FreshIds, InvitationSpent, NamesKnown, DeletedIsFinal, OneUserPerName
<1>7. AdminsKnown'
  <2>1. ASSUME NEW subject \in {"access", "refresh"}, row.admin
        PROVE  /\ adminUntil[generateToken(id, row, subject).user] # None
               /\ generateToken(id, row, subject).at <= adminUntil[generateToken(id, row, subject).user]
    <3>1. adminUntil[id] = clock /\ clock \in Nat
      BY <1>2, <2>1 DEF AdminsKnown
    <3> QED BY <3>1, AccountsAssumption DEF generateToken
  <2>2. \A subject \in {"access", "refresh"} : generateToken(id, row, subject).admin = row.admin
    BY DEF generateToken
  <2> QED BY <1>1, <1>4, <2>1, <2>2 DEF AdminsKnown
<1> QED BY <1>5, <1>6, <1>7

\* The token of a refresh speaks of the row as it is now.
LEMMA RefreshStep ==
  ASSUME IInv, NEW t \in tokens, RefreshToken(t)
  PROVE  IInv'
<1> USE DEF IInv, AccountTypes, Busy
<1>1. /\ users[t.user] # None /\ tokens' = tokens \cup {FreshClaims(t)}
      /\ UNCHANGED <<users, file, given, request, clock, adminUntil, accepted, deleted, renamed, overlapped>>
  BY DEF RefreshToken
<1>2. t.user \in UserIds /\ users[t.user] \in Rows
  BY <1>1 DEF Tokens
<1>3. /\ FreshClaims(t) \in Tokens /\ FreshClaims(t).user = t.user /\ FreshClaims(t).at = clock
      /\ FreshClaims(t).admin = users[t.user].admin
  BY <1>2 DEF FreshClaims, generateToken, Tokens, Rows
<1>4. AccountTypes'
  BY <1>1, <1>3
<1>5. FreshIds' /\ InvitationSpent' /\ NamesKnown' /\ DeletedIsFinal' /\ OneUserPerName'
  BY <1>1 DEF FreshIds, InvitationSpent, NamesKnown, DeletedIsFinal, OneUserPerName
<1>6. AdminsKnown'
  <2>1. FreshClaims(t).admin => adminUntil[t.user] = clock
    BY <1>1, <1>2, <1>3 DEF AdminsKnown, IsAdmin
  <2>2. FreshClaims(t).admin => adminUntil[t.user] # None /\ clock <= adminUntil[t.user]
    BY <2>1, AccountsAssumption
  <2> QED BY <1>1, <1>3, <2>2 DEF AdminsKnown
<1> QED BY <1>4, <1>5, <1>6

\* Between two ticks nobody holds a copy.
LEMMA TickStep ==
  ASSUME IInv, Tick
  PROVE  IInv'
<1> USE DEF IInv, AccountTypes, Busy
<1>1. /\ \A r \in Requests : ~Busy(r)
      /\ clock' = clock + 1 /\ tokens' \subseteq tokens
      /\ adminUntil' = [id \in UserIds |-> IF IsAdmin(users[id]) THEN clock + 1 ELSE adminUntil[id]]
      /\ UNCHANGED <<users, file, given, request, accepted, deleted, renamed, overlapped>>
  BY DEF Tick
<1>2. AccountTypes'
  BY <1>1
<1>3. FreshIds' /\ InvitationSpent' /\ NamesKnown' /\ DeletedIsFinal' /\ OneUserPerName'
  BY <1>1 DEF FreshIds, InvitationSpent, NamesKnown, DeletedIsFinal, OneUserPerName
<1>4. AdminsKnown'
  <2>1. \A id \in UserIds : adminUntil'[id] # None => adminUntil'[id] <= clock'
    BY <1>1 DEF AdminsKnown
  <2>2. \A id \in UserIds : IsAdmin(users'[id]) => adminUntil'[id] = clock'
    BY <1>1
  <2>3. ASSUME NEW t \in tokens', t.admin
        PROVE  adminUntil'[t.user] # None /\ t.at <= adminUntil'[t.user]
    <3>1. t \in tokens /\ t.user \in UserIds /\ t.at \in Nat
      BY <1>1 DEF Tokens
    <3>2. adminUntil[t.user] \in Nat /\ t.at <= adminUntil[t.user] /\ adminUntil[t.user] <= clock
      BY <2>3, <3>1 DEF AdminsKnown
    <3>3. t.at <= clock + 1 /\ clock + 1 \in Nat
      BY <3>1, <3>2
    <3>4. adminUntil'[t.user] \in {clock + 1, adminUntil[t.user]}
      BY <1>1, <3>1
    <3> QED BY <3>2, <3>3, <3>4, AccountsAssumption
  <2> QED BY <1>1, <2>1, <2>2, <2>3 DEF AdminsKnown
<1> QED BY <1>2, <1>3, <1>4

\* A restart finds the users as they were and no request.
LEMMA RestartStep ==
  ASSUME IInv, AccountsRestart
  PROVE  IInv'
<1> USE DEF IInv, AccountTypes, Busy
<1>1. /\ \A r \in Requests : ~Busy(r)' /\ users' = users /\ request' \in [Requests -> {Idle}]
      /\ UNCHANGED <<file, given, tokens, clock, adminUntil, accepted, deleted, renamed, overlapped>>
  BY Basics DEF AccountsRestart
<1>2. users' = users /\ request' \in [Requests -> {Idle}]
  BY DEF AccountsRestart
<1>3. AccountTypes'
  BY <1>1, <1>2
<1>4. FreshIds' /\ InvitationSpent' /\ NamesKnown' /\ DeletedIsFinal' /\ OneUserPerName' /\ AdminsKnown'
  BY <1>1, <1>2 DEF FreshIds, InvitationSpent, NamesKnown, DeletedIsFinal, OneUserPerName, AdminsKnown
<1> QED BY <1>3, <1>4

-----------------------------------------------------------------------------
(* The theorem *)

\* The invariant is kept by every request, tick and restart.
LEMMA NextIInv == IInv /\ [AccountsSteps \/ AccountsRequests]_accountVars => IInv'
<1> SUFFICES ASSUME IInv, [AccountsSteps \/ AccountsRequests]_accountVars PROVE IInv'
  OBVIOUS
<1>1. CASE AccountsSteps
  BY <1>1, AcceptStep, LoginStep, UpdateStep DEF AccountsSteps
<1>2. ASSUME NEW name \in Names, NEW pw \in Passwords, NEW admin \in BOOLEAN, CreateUser(name, pw, admin) PROVE IInv'
  <2>1. [name |-> name, pw |-> pw, admin |-> admin, invite |-> NoInvite] \in Rows
    BY Basics DEF Rows
  <2> QED BY <1>2, <2>1, CreateStep DEF CreateUser
<1>3. ASSUME NEW name \in Names, CreateInvite(name) PROVE IInv'
  <2>1. clock + InviteExpiry \in Nat
    BY AccountsAssumption DEF IInv, AccountTypes
  <2>2. [name |-> name, pw |-> NoPassword, admin |-> FALSE, invite |-> clock + InviteExpiry] \in Rows
    BY <2>1 DEF Rows
  <2> QED BY <1>3, <2>2, CreateStep DEF CreateInvite
<1>4. ASSUME NEW id \in UserIds, DeleteUser(id) PROVE IInv'
  BY <1>4, DeleteStep
<1>5. ASSUME NEW r \in Requests, NEW id \in UserIds, NEW pw \in Passwords \cup {NoPassword}, UpdateUserRead(r, id, pw) PROVE IInv'
  BY <1>5, ReadStep DEF UpdateUserRead
<1>6. ASSUME NEW r \in Requests, NEW id \in UserIds, NEW pw \in Passwords, AcceptInviteRead(r, id, pw) PROVE IInv'
  BY <1>6, ReadStep DEF AcceptInviteRead
<1>7. ASSUME NEW r \in Requests, NEW name \in Names, NEW pw \in Passwords, Login(r, name, pw) PROVE IInv'
  BY <1>7, ReadStep DEF Login, GetByUsername
<1>8. CASE AccountsRequests
  BY <1>2, <1>3, <1>4, <1>5, <1>6, <1>7, <1>8, TickStep, RestartStep, RefreshStep DEF AccountsRequests
<1>9. CASE UNCHANGED accountVars
  BY <1>9
  DEF accountVars, IInv, AccountTypes, FreshIds, InvitationSpent, AdminsKnown, NamesKnown, DeletedIsFinal, OneUserPerName, Busy
<1> QED BY <1>1, <1>8, <1>9

\* What requests and the store do together: invitations are used once, a
\* claim that is believed lags by its token's lifetime at most (a refresh token's too), deleted users stay away and names belong
\* to one user, for every number of users and requests and every lifetime.
THEOREM AccountsCorrect == AccountsSpec => []AccountsSound
<1>1. IInv => AccountsSound
  <2> SUFFICES ASSUME IInv PROVE AccountsSound
    OBVIOUS
  <2> USE DEF IInv, AccountTypes
  <2>1. InviteUsedOnce
    BY DEF InviteUsedOnce, InvitationSpent
  <2>2. ASSUME NEW t \in tokens, RequireAdmin(t)
        PROVE  adminUntil[t.user] # None /\ clock <= adminUntil[t.user] + Lifetime(t)
    <3>1. t.user \in UserIds /\ t.at \in Nat /\ t.admin /\ clock < t.at + Lifetime(t)
      BY <2>2 DEF Tokens, RequireAdmin, ValidateToken
    <3>2. adminUntil[t.user] # None /\ t.at <= adminUntil[t.user]
      BY <2>2, <3>1 DEF AdminsKnown
    <3>3. adminUntil[t.user] \in Nat /\ Lifetime(t) \in Nat
      BY <3>1, <3>2, AccountsAssumption DEF Lifetime
    <3> QED BY <3>1, <3>2, <3>3
  <2>3. ClaimsLagBounded
    BY <2>2 DEF ClaimsLagBounded
  <2> QED BY <2>1, <2>3 DEF AccountsSound
<1> QED BY <1>1, InitIInv, NextIInv, PTL DEF AccountsSpec

-----------------------------------------------------------------------------
(***************************************************************************)
(* Device rows, their ports, and the worker's servers (TunerDevices).  The *)
(* store and the worker are related by what the worker saw last; a port is *)
(* chosen in one critical section and stored in another, so what a request *)
(* carries has to stay above the ports of the other rows.                  *)
(***************************************************************************)

\* What a request holds between its steps.
Groups == GroupSets \cup {{}}
DeviceRequest == [pc : {"idle", "create", "createAuto", "update", "groups"}, id : DeviceIds \cup {NoDevice},
            row : Row \cup {NoDevice}, groups : Groups]
Table == [DeviceIds -> Row \cup {NoDevice}]
ServerRec == [id : DeviceIds, port : Nat, groups : Groups, state : {"starting", "listening", "failed", "closed"}]

StoreTypes ==
  /\ devices \in Table /\ issued \in Nat /\ chosen \subseteq DeviceIds
  /\ handler \in [Handlers -> DeviceRequest]
  /\ \A h \in Handlers : handler[h].pc # "idle" => handler[h].row \in Row
  /\ \A h \in Handlers : handler[h].pc \in {"update", "groups"} =>
       handler[h].id \in DeviceIds /\ handler[h].id <= issued
  /\ \A id \in DeviceIds : devices[id] # NoDevice => id <= issued

Distinct(written) ==
  \A i, j \in DeviceIds : i # j /\ written[i] # NoDevice /\ written[j] # NoDevice /\ i \notin chosen /\ j \notin chosen =>
    written[i].port # written[j].port

\* A port that was given out, and is not yet a row's, is above those of the
\* other devices; a row that is written back has the port it was read with.
PortsAbove ==
  \A h \in Handlers : handler[h].pc = "createAuto" =>
    \A id \in DeviceIds : devices[id] # NoDevice /\ id \notin chosen => devices[id].port < handler[h].row.port
PortsKept ==
  \A h \in Handlers : handler[h].pc = "update" /\ handler[h].id \notin chosen /\ devices[handler[h].id] # NoDevice =>
    handler[h].row.port = devices[handler[h].id].port

StoreInv == StoreTypes /\ Distinct(devices) /\ PortsAbove /\ PortsKept

WorkerTypes ==
  /\ listed \in Table \cup {NoDevice} /\ synced \in Table
  /\ servers \in [DeviceIds -> Nat] /\ server \in Seq(ServerRec)
  /\ \A id \in DeviceIds : servers[id] # 0 => servers[id] \in DOMAIN server /\ server[servers[id]].id = id

\* The servers are those of the rows that the last sync applied.
Follows ==
  \A id \in DeviceIds : IF id \in Desired(synced) THEN servers[id] # 0 /\ server[servers[id]].port = synced[id].port
                        ELSE servers[id] = 0

Snapshots == Distinct(synced) /\ (listed # NoDevice => Distinct(listed))

WorkerInv == WorkerTypes /\ NoLeakedListener /\ Follows /\ Snapshots /\ RefusedByRival

-----------------------------------------------------------------------------
(* Largest elements, and numbers. *)

\* A finite set of numbers has a largest one: a smallest set without one would
\* have one without any of its elements.
LEMMA LargestExists ==
  ASSUME NEW Numbers \in SUBSET Nat, IsFiniteSet(Numbers), Numbers # {}
  PROVE  \E m \in Numbers : \A x \in Numbers : x <= m
<1> DEFINE HasLargest(U) == \E m \in U : \A x \in U : x <= m
           Bad == {U \in FiniteSubsetsOf(Numbers) : U # {} /\ ~HasLargest(U)}
<1> SUFFICES ASSUME ~HasLargest(Numbers) PROVE FALSE
  OBVIOUS
<1>1. Numbers \in Bad
  BY DEF FiniteSubsetsOf
<1>2. PICK U \in Bad : \A W \in Bad : <<W, U>> \notin StrictSubsetOrdering(Numbers)
  <2>1. IsWellFoundedOn(StrictSubsetOrdering(Numbers), FiniteSubsetsOf(Numbers))
    BY FS_StrictSubsetOrderingWellFounded
  <2>2. Bad \subseteq FiniteSubsetsOf(Numbers) /\ Bad # {}
    BY <1>1
  <2> QED BY <2>1, <2>2, WFMin
<1>3. U \subseteq Numbers /\ IsFiniteSet(U) /\ U # {} /\ ~HasLargest(U)
  BY DEF FiniteSubsetsOf
<1>4. PICK x \in U : TRUE
  BY <1>3
<1> DEFINE W == U \ {x}
<1>5. IsFiniteSet(W) /\ W \subseteq Numbers /\ W # U /\ W \subseteq U
  BY <1>3, <1>4, FS_RemoveElement
<1>6. W \notin Bad
  BY <1>2, <1>3, <1>5 DEF StrictSubsetOrdering
<1>7. W = {} \/ HasLargest(W)
  BY <1>5, <1>6 DEF FiniteSubsetsOf
<1>8. W # {}
  BY <1>3, <1>4
<1>9. PICK m \in W : \A y \in W : y <= m
  BY <1>7, <1>8
<1>10. x \in Nat /\ m \in Nat /\ m \in U
  BY <1>3, <1>4, <1>5, <1>9
<1>11. CASE m <= x
  <2>1. \A y \in U : y <= x
    BY <1>3, <1>9, <1>10, <1>11
  <2> QED BY <2>1, <1>3, <1>4
<1>12. CASE x <= m
  BY <1>3, <1>9, <1>10, <1>12
<1> QED BY <1>10, <1>11, <1>12

\* The port that is given out is above the ports of all rows.
LEMMA NextPortAbove ==
  ASSUME TunerAssumption, devices \in Table
  PROVE  /\ NextAvailablePort(DeviceRows) \in Nat
         /\ \A id \in DeviceIds : devices[id] # NoDevice => devices[id].port < NextAvailablePort(DeviceRows)
<1> DEFINE g == [id \in DeviceIds |-> IF devices[id] = NoDevice THEN BasePort ELSE devices[id].port + 1]
           G == {g[id] : id \in DeviceIds}
           Ports == {BasePort} \cup {d.port + 1 : d \in DeviceRows}
<1>1. g \in [DeviceIds -> Nat]
  BY DEF TunerAssumption, Table, Row
<1>2. IsFiniteSet(G)
  <2>1. g \in Surjection(DeviceIds, G)
    BY <1>1 DEF Surjection
  <2> QED BY <2>1, FS_Surjection DEF TunerAssumption
<1>3. Ports = G \cup {BasePort} /\ Ports \subseteq Nat
  BY <1>1 DEF DeviceRows, TunerAssumption, Table, Row
<1>4. IsFiniteSet(Ports)
  BY <1>2, <1>3, FS_AddElement
<1>5. \E m \in Ports : \A x \in Ports : x <= m
  BY <1>3, <1>4, LargestExists
<1>6. Max(Ports) \in Ports /\ \A x \in Ports : Max(Ports) >= x
  BY <1>3, <1>5 DEF Max
<1>7. NextAvailablePort(DeviceRows) = Max(Ports)
  BY DEF NextAvailablePort
<1>8. ASSUME NEW id \in DeviceIds, devices[id] # NoDevice
      PROVE  devices[id].port < NextAvailablePort(DeviceRows)
  <2>1. devices[id].port \in Nat /\ devices[id].port + 1 \in Ports
    BY <1>8 DEF DeviceRows, Table, Row
  <2>2. Max(Ports) \in Nat /\ Max(Ports) >= devices[id].port + 1
    BY <2>1, <1>3, <1>6
  <2> QED BY <2>1, <2>2, <1>7
<1> QED BY <1>3, <1>6, <1>7, <1>8

\* The servers that a sync starts are numbered one after the other.
LEMMA Numbering ==
  ASSUME NEW start \in SUBSET Nat, IsFiniteSet(start)
  PROVE  LET rank(id) == Cardinality({j \in start : j <= id})
         IN  /\ Cardinality(start) \in Nat
             /\ \A id \in start : rank(id) \in 1..Cardinality(start)
             /\ \A i, j \in start : rank(i) = rank(j) => i = j
             /\ \A n \in 1..Cardinality(start) : \E id \in start : rank(id) = n
<1> DEFINE upto(id) == {j \in start : j <= id}
           k == Cardinality(start)
           r == [id \in start |-> Cardinality(upto(id))]
<1>1. k \in Nat
  BY FS_CardinalityType
<1>2. \A id \in start : IsFiniteSet(upto(id)) /\ Cardinality(upto(id)) \in Nat /\ Cardinality(upto(id)) <= k
  <2> TAKE id \in start
  <2>1. upto(id) \in SUBSET start
    OBVIOUS
  <2>2. IsFiniteSet(upto(id)) /\ Cardinality(upto(id)) <= k
    BY <2>1, FS_Subset
  <2> QED BY <2>2, FS_CardinalityType
<1>3. \A id \in start : Cardinality(upto(id)) # 0
  <2> TAKE id \in start
  <2>1. id \in upto(id)
    OBVIOUS
  <2> QED BY <2>1, <1>2, FS_EmptySet
<1>4. r \in [start -> 1..k]
  BY <1>1, <1>2, <1>3
<1>5. ASSUME NEW i \in start, NEW j \in start, i < j
      PROVE  Cardinality(upto(i)) # Cardinality(upto(j))
  <2>1. i \in Nat /\ j \in Nat /\ \A x \in start : x \in Nat
    OBVIOUS
  <2>2. j \in upto(j) /\ j \notin upto(i) /\ \A x \in start : x <= i => x <= j
    BY <1>5, <2>1
  <2>3. upto(i) \in SUBSET upto(j)
    BY <2>2
  <2> QED BY <2>2, <2>3, <1>2, FS_Subset
<1>6. \A i, j \in start : Cardinality(upto(i)) = Cardinality(upto(j)) => i = j
  <2> SUFFICES ASSUME NEW i \in start, NEW j \in start, i # j PROVE Cardinality(upto(i)) # Cardinality(upto(j))
    OBVIOUS
  <2>1. i < j \/ j < i
    OBVIOUS
  <2> QED BY <2>1, <1>5
<1>7. r \in Injection(start, 1..k)
  BY <1>4, <1>6 DEF Injection, IsInjective
<1>8. IsFiniteSet(1..k) /\ Cardinality(1..k) = k
  BY <1>1, FS_Interval
<1>9. r \in Surjection(start, 1..k)
  BY <1>7, <1>8, FS_Injection
<1>10. \A n \in 1..k : \E id \in start : r[id] = n
  BY <1>9 DEF Surjection
<1> QED BY <1>1, <1>4, <1>6, <1>10

-----------------------------------------------------------------------------
(* The rows: requests and what they write *)

StoreStep ==
  \/ \E h \in Handlers : CreateDevice(h) \/ UpdateDevice(h) \/ SetChannelGroups(h)
  \/ \E h \in Handlers, port \in UserPorts \cup {0}, enabled \in BOOLEAN, g \in GroupSets :
       CreateRequest(h, port, enabled, g) \/ \E id \in DeviceIds : UpdateRequest(h, id, port, enabled, g)
  \/ \E id \in DeviceIds : DeleteDevice(id)

\* At first there is neither a row nor a request.
LEMMA StoreStart == TunerAssumption /\ DevicesInit => StoreInv
<1> SUFFICES ASSUME TunerAssumption, DevicesInit PROVE StoreInv
  OBVIOUS
<1>1. \A id \in DeviceIds : devices[id] = NoDevice
  BY DEF DevicesInit, NoDevices
<1>2. \A h \in Handlers : handler[h] = NoRequest /\ handler[h].pc = "idle"
  BY DEF DevicesInit, NoRequest
<1>3. devices \in Table /\ issued = 0 /\ chosen = {} /\ handler \in [Handlers -> DeviceRequest]
  BY DEF DevicesInit, NoDevices, NoRequest, DeviceRequest, Table, Groups
<1>4. StoreTypes
  BY <1>1, <1>2, <1>3 DEF StoreTypes
<1> QED BY <1>1, <1>2, <1>4 DEF StoreInv, Distinct, PortsAbove, PortsKept

\* The port is given out when the request is made, above all rows there are.
LEMMA CreateRequestKeeps ==
  ASSUME TunerAssumption, StoreInv, NEW h \in Handlers, NEW port \in UserPorts \cup {0}, NEW enabled \in BOOLEAN,
         NEW g \in GroupSets, CreateRequest(h, port, enabled, g)
  PROVE  StoreInv' /\ chosen \subseteq chosen'
<1> DEFINE r == [pc |-> IF port = 0 THEN "createAuto" ELSE "create", id |-> NoDevice, groups |-> g,
                 row |-> [port |-> IF port = 0 THEN NextAvailablePort(DeviceRows) ELSE port,
                          enabled |-> enabled, groups |-> {}]]
<1>1. /\ handler' = [handler EXCEPT ![h] = r]
      /\ devices' = devices /\ issued' = issued /\ chosen' = chosen
  BY DEF CreateRequest
<1>2. /\ NextAvailablePort(DeviceRows) \in Nat /\ port \in Nat
      /\ \A id \in DeviceIds : devices[id] # NoDevice => devices[id].port < NextAvailablePort(DeviceRows)
  BY NextPortAbove DEF StoreInv, StoreTypes, TunerAssumption
<1>3. r \in DeviceRequest /\ r.row \in Row
  BY <1>2 DEF DeviceRequest, Row, Groups
<1>4. r.pc = (IF port = 0 THEN "createAuto" ELSE "create") /\ (r.pc = "createAuto" => r.row.port = NextAvailablePort(DeviceRows))
  OBVIOUS
<1> HIDE DEF r
<1>5. \A k \in Handlers : handler'[k] = IF k = h THEN r ELSE handler[k]
  BY <1>1 DEF StoreInv, StoreTypes
<1>6. StoreTypes'
  BY <1>1, <1>3, <1>4, <1>5 DEF StoreInv, StoreTypes
<1>7. Distinct(devices)'
  BY <1>1 DEF StoreInv, Distinct
<1>8. PortsAbove'
  BY <1>1, <1>2, <1>4, <1>5 DEF StoreInv, PortsAbove
<1>9. PortsKept'
  BY <1>1, <1>4, <1>5 DEF StoreInv, PortsKept
<1> QED BY <1>1, <1>6, <1>7, <1>8, <1>9 DEF StoreInv

\* A port that is asked for is remembered with the device.
LEMMA UpdateRequestKeeps ==
  ASSUME TunerAssumption, StoreInv, NEW h \in Handlers, NEW port \in UserPorts \cup {0}, NEW enabled \in BOOLEAN,
         NEW g \in GroupSets, NEW id \in DeviceIds, UpdateRequest(h, id, port, enabled, g)
  PROVE  StoreInv' /\ chosen \subseteq chosen'
<1> DEFINE row == [devices[id] EXCEPT !.enabled = enabled, !.port = IF port = 0 THEN @ ELSE port]
           r == [pc |-> "update", id |-> id, groups |-> g, row |-> row]
<1>1. /\ handler' = [handler EXCEPT ![h] = r] /\ devices[id] # NoDevice
      /\ devices' = devices /\ issued' = issued /\ chosen' = IF port = 0 THEN chosen ELSE chosen \cup {id}
  BY DEF UpdateRequest
<1>2. devices[id] \in Row /\ id <= issued /\ port \in Nat /\ g \in Groups
  BY <1>1 DEF StoreInv, StoreTypes, Table, TunerAssumption, Groups
<1>3. row \in Row /\ (port = 0 => row.port = devices[id].port)
  <2>1. CASE port = 0
    BY <2>1, <1>2 DEF Row
  <2>2. CASE port # 0
    BY <2>2, <1>2 DEF Row
  <2> QED BY <2>1, <2>2
<1> HIDE DEF row
<1>4. r \in DeviceRequest /\ r.row = row /\ r.id = id /\ r.pc = "update"
  BY <1>2, <1>3 DEF DeviceRequest
<1> HIDE DEF r
<1>5. \A k \in Handlers : handler'[k] = IF k = h THEN r ELSE handler[k]
  BY <1>1 DEF StoreInv, StoreTypes
<1>6. chosen \subseteq chosen' /\ chosen' \subseteq DeviceIds /\ (port # 0 => id \in chosen')
  BY <1>1 DEF StoreInv, StoreTypes
<1>7. StoreTypes'
  BY <1>1, <1>2, <1>3, <1>4, <1>5, <1>6 DEF StoreInv, StoreTypes
<1>8. Distinct(devices)'
  BY <1>1, <1>6 DEF StoreInv, Distinct
<1>9. PortsAbove'
  BY <1>1, <1>4, <1>5, <1>6 DEF StoreInv, PortsAbove
<1>10. PortsKept'
  BY <1>1, <1>3, <1>4, <1>5, <1>6 DEF StoreInv, PortsKept
<1> QED BY <1>6, <1>7, <1>8, <1>9, <1>10 DEF StoreInv

\* A device that is not among the chosen is created while nobody else is at
\* it, so the port it was given is still above the others.
LEMMA CreateDeviceKeeps ==
  ASSUME TunerAssumption, StoreInv, NEW h \in Handlers, CreateDevice(h)
  PROVE  StoreInv' /\ chosen \subseteq chosen'
<1> DEFINE id == issued + 1
           auto == handler[h].pc = "createAuto" /\ \A k \in Handlers \ {h} : handler[k].pc \notin {"create", "createAuto"}
           row == handler[h].row
           r == IF handler[h].groups = {} THEN NoRequest ELSE [handler[h] EXCEPT !.pc = "groups", !.id = id]
<1>1. /\ handler[h].pc \in {"create", "createAuto"} /\ id \in DeviceIds /\ issued' = id
      /\ devices' = [devices EXCEPT ![id] = row]
      /\ handler' = [handler EXCEPT ![h] = r]
      /\ chosen' = IF auto THEN chosen ELSE chosen \cup {id}
  BY DEF CreateDevice
<1>2. issued \in Nat /\ id \in Nat /\ issued < id /\ row \in Row /\ handler[h] \in DeviceRequest
  BY <1>1 DEF StoreInv, StoreTypes
<1>3. row # NoDevice
  BY <1>2 DEF TunerAssumption
<1>4. r \in DeviceRequest /\ r.pc \in {"idle", "groups"} /\ (r.pc = "groups" => r.id = id /\ r.row \in Row)
  BY <1>1, <1>2 DEF DeviceRequest, NoRequest, Groups
<1>a. ~auto => id \in chosen'
  BY <1>1
<1>b. auto => handler[h].pc = "createAuto" /\ \A k \in Handlers \ {h} : handler[k].pc # "createAuto"
  OBVIOUS
<1>c. chosen \subseteq chosen' /\ chosen' \subseteq DeviceIds /\ chosen' \subseteq chosen \cup {id}
  BY <1>1 DEF StoreInv, StoreTypes
<1> HIDE DEF r, auto
<1>5. \A k \in Handlers : handler'[k] = IF k = h THEN r ELSE handler[k]
  BY <1>1 DEF StoreInv, StoreTypes
<1>6. \A i \in DeviceIds : devices'[i] = IF i = id THEN row ELSE devices[i]
  BY <1>1 DEF StoreInv, StoreTypes, Table
<1>7. \A k \in Handlers \ {h} : handler[k].pc \in {"update", "groups"} => handler[k].id # id
  BY <1>2 DEF StoreInv, StoreTypes, TunerAssumption
<1>8. StoreTypes'
  <2>1. devices' \in Table
    BY <1>1, <1>2 DEF StoreInv, StoreTypes, Table
  <2>2. handler' \in [Handlers -> DeviceRequest] /\ \A k \in Handlers : handler'[k].pc # "idle" => handler'[k].row \in Row
    BY <1>1, <1>4, <1>5 DEF StoreInv, StoreTypes
  <2>3. \A k \in Handlers : handler'[k].pc \in {"update", "groups"} => handler'[k].id \in DeviceIds /\ handler'[k].id <= issued'
    <3> TAKE k \in Handlers
    <3>1. CASE k = h
      BY <3>1, <1>1, <1>2, <1>4, <1>5
    <3>2. CASE k # h
      <4>1. handler'[k] = handler[k]
        BY <3>2, <1>5
      <4>2. handler[k].pc \in {"update", "groups"} => handler[k].id \in DeviceIds /\ handler[k].id <= issued
        BY DEF StoreInv, StoreTypes
      <4>3. \A x \in DeviceIds : x <= issued => x <= issued'
        <5>1. DeviceIds \subseteq Nat
          BY DEF TunerAssumption
        <5>2. issued \in Nat /\ issued' = issued + 1
          BY <1>1, <1>2
        <5> QED BY <5>1, <5>2
      <4> QED BY <4>1, <4>2, <4>3
    <3> QED BY <3>1, <3>2
  <2>4. \A i \in DeviceIds : devices'[i] # NoDevice => i <= issued'
    BY <1>1, <1>2, <1>6 DEF StoreInv, StoreTypes, TunerAssumption
  <2> QED BY <1>1, <1>2, <1>c, <2>1, <2>2, <2>3, <2>4 DEF StoreTypes
<1>9. ASSUME NEW i \in DeviceIds, i # id, devices[i] # NoDevice, i \notin chosen', id \notin chosen'
      PROVE  devices[i].port \in Nat /\ row.port \in Nat /\ devices[i].port < row.port
  <2>1. devices[i].port \in Nat /\ row.port \in Nat
    BY <1>9, <1>2 DEF StoreInv, StoreTypes, Table, Row
  <2> QED BY <2>1, <1>9, <1>a, <1>b, <1>c DEF StoreInv, PortsAbove
<1>10. Distinct(devices)'
  <2> SUFFICES ASSUME NEW i \in DeviceIds, NEW j \in DeviceIds, i # j, devices'[i] # NoDevice, devices'[j] # NoDevice,
                      i \notin chosen', j \notin chosen'
               PROVE  devices'[i].port # devices'[j].port
    BY DEF Distinct
  <2>1. CASE i = id
    BY <2>1, <1>6, <1>9
  <2>2. CASE j = id
    BY <2>2, <1>6, <1>9
  <2>3. CASE i # id /\ j # id
    BY <2>3, <1>6, <1>c DEF StoreInv, Distinct
  <2> QED BY <2>1, <2>2, <2>3
<1>11. PortsAbove'
  <2> SUFFICES ASSUME NEW k \in Handlers, handler'[k].pc = "createAuto",
                      NEW i \in DeviceIds, devices'[i] # NoDevice, i \notin chosen'
               PROVE  devices'[i].port < handler'[k].row.port
    BY DEF PortsAbove
  <2>1. k # h /\ handler'[k] = handler[k]
    BY <1>4, <1>5
  <2>2. i # id
    BY <2>1, <1>a, <1>b
  <2> QED BY <2>1, <2>2, <1>6, <1>c DEF StoreInv, PortsAbove
<1>12. PortsKept'
  <2> SUFFICES ASSUME NEW k \in Handlers, handler'[k].pc = "update", handler'[k].id \notin chosen', devices'[handler'[k].id] # NoDevice
               PROVE  handler'[k].row.port = devices'[handler'[k].id].port
    BY DEF PortsKept
  <2>1. k # h /\ handler'[k] = handler[k]
    BY <1>4, <1>5
  <2>2. handler[k].id # id /\ handler[k].id \in DeviceIds
    BY <2>1, <1>7 DEF StoreInv, StoreTypes
  <2> QED BY <2>1, <2>2, <1>6, <1>c DEF StoreInv, PortsKept
<1> QED BY <1>8, <1>10, <1>11, <1>12, <1>c DEF StoreInv

\* The row that is written has the port that the row has, unless it was asked
\* for.
LEMMA UpdateDeviceKeeps ==
  ASSUME TunerAssumption, StoreInv, NEW h \in Handlers, UpdateDevice(h)
  PROVE  StoreInv' /\ chosen \subseteq chosen'
<1> DEFINE id == handler[h].id
           row == handler[h].row
           found == devices[id] # NoDevice
           r == IF devices[id] = NoDevice THEN NoRequest ELSE [handler[h] EXCEPT !.pc = "groups"]
<1>1. /\ handler[h].pc = "update" /\ issued' = issued /\ chosen' = chosen
      /\ devices' = IF devices[id] = NoDevice THEN devices ELSE [devices EXCEPT ![id] = row]
      /\ handler' = [handler EXCEPT ![h] = r]
  BY DEF UpdateDevice
<1>2. id \in DeviceIds /\ id <= issued /\ row \in Row /\ handler[h] \in DeviceRequest
  BY <1>1 DEF StoreInv, StoreTypes
<1>3. r \in DeviceRequest /\ r.pc \in {"idle", "groups"} /\ (r.pc = "groups" => r.id = id /\ r.row \in Row)
  BY <1>1, <1>2 DEF DeviceRequest, NoRequest, Groups
<1>4. found /\ id \notin chosen => row.port = devices[id].port
  BY <1>1, <1>2 DEF StoreInv, PortsKept
<1> HIDE DEF r
<1>5. \A k \in Handlers : handler'[k] = IF k = h THEN r ELSE handler[k]
  BY <1>1 DEF StoreInv, StoreTypes
<1>6. \A i \in DeviceIds : devices'[i] = IF i = id /\ found THEN row ELSE devices[i]
  BY <1>1 DEF StoreInv, StoreTypes, Table
<1>7. devices' \in Table
  BY <1>1, <1>2 DEF StoreInv, StoreTypes, Table
<1>8. \A i \in DeviceIds : /\ devices'[i] # NoDevice => devices[i] # NoDevice
                           /\ devices'[i] # NoDevice /\ i \notin chosen => devices'[i].port = devices[i].port
  BY <1>4, <1>6
<1>9. StoreTypes'
  BY <1>1, <1>2, <1>3, <1>5, <1>7, <1>8 DEF StoreInv, StoreTypes
<1>10. Distinct(devices)'
  BY <1>1, <1>8 DEF StoreInv, Distinct
<1>11. PortsAbove'
  BY <1>1, <1>3, <1>5, <1>8 DEF StoreInv, PortsAbove
<1>12. PortsKept'
  <2> SUFFICES ASSUME NEW k \in Handlers, handler'[k].pc = "update", handler'[k].id \notin chosen', devices'[handler'[k].id] # NoDevice
               PROVE  handler'[k].row.port = devices'[handler'[k].id].port
    BY DEF PortsKept
  <2>1. k # h /\ handler'[k] = handler[k]
    BY <1>3, <1>5
  <2>2. handler[k].id \in DeviceIds
    BY <2>1 DEF StoreInv, StoreTypes
  <2> QED BY <2>1, <2>2, <1>1, <1>8 DEF StoreInv, PortsKept
<1> QED BY <1>1, <1>9, <1>10, <1>11, <1>12 DEF StoreInv

\* The groups are no part of the ports.
LEMMA SetChannelGroupsKeeps ==
  ASSUME TunerAssumption, StoreInv, NEW h \in Handlers, SetChannelGroups(h)
  PROVE  StoreInv' /\ chosen \subseteq chosen'
<1> DEFINE id == handler[h].id
           g == handler[h].groups
           found == devices[id] # NoDevice
<1>1. /\ handler[h].pc = "groups" /\ issued' = issued /\ chosen' = chosen
      /\ devices' = IF devices[id] = NoDevice THEN devices ELSE [devices EXCEPT ![id].groups = g]
      /\ handler' = [handler EXCEPT ![h] = NoRequest]
  BY DEF SetChannelGroups
<1>2. id \in DeviceIds /\ g \in Groups
  BY <1>1 DEF StoreInv, StoreTypes, DeviceRequest
<1>3. NoRequest \in DeviceRequest /\ NoRequest.pc = "idle"
  BY DEF DeviceRequest, NoRequest, Groups
<1>4. \A k \in Handlers : handler'[k] = IF k = h THEN NoRequest ELSE handler[k]
  BY <1>1 DEF StoreInv, StoreTypes
<1>5. found => devices[id] \in Row
  BY <1>2 DEF StoreInv, StoreTypes, Table
<1>6. found => /\ [devices[id] EXCEPT !.groups = g] \in Row
               /\ [devices[id] EXCEPT !.groups = g].port = devices[id].port
  BY <1>2, <1>5 DEF Row, Groups
<1>7. \A i \in DeviceIds : devices'[i] = IF i = id /\ found THEN [devices[id] EXCEPT !.groups = g] ELSE devices[i]
  BY <1>1 DEF StoreInv, StoreTypes, Table
<1>8. devices' \in Table
  <2>1. devices' = [i \in DeviceIds |-> devices'[i]]
    BY <1>1 DEF StoreInv, StoreTypes, Table
  <2>2. \A i \in DeviceIds : devices'[i] \in Row \cup {NoDevice}
    BY <1>6, <1>7 DEF StoreInv, StoreTypes, Table
  <2> QED BY <2>1, <2>2 DEF Table
<1>9. \A i \in DeviceIds : /\ devices'[i] # NoDevice => devices[i] # NoDevice
                           /\ devices'[i] # NoDevice => devices'[i].port = devices[i].port
  BY <1>6, <1>7
<1>10. StoreTypes'
  BY <1>1, <1>3, <1>4, <1>8, <1>9 DEF StoreInv, StoreTypes
<1>11. Distinct(devices)'
  BY <1>1, <1>9 DEF StoreInv, Distinct
<1>12. PortsAbove'
  BY <1>1, <1>3, <1>4, <1>9 DEF StoreInv, PortsAbove
<1>13. PortsKept'
  BY <1>1, <1>3, <1>4, <1>9 DEF StoreInv, StoreTypes, PortsKept
<1> QED BY <1>1, <1>10, <1>11, <1>12, <1>13 DEF StoreInv

\* A row that is gone is no rival.
LEMMA DeleteDeviceKeeps ==
  ASSUME TunerAssumption, StoreInv, NEW id \in DeviceIds, DeleteDevice(id)
  PROVE  StoreInv' /\ chosen \subseteq chosen'
<1>1. /\ devices' = [devices EXCEPT ![id] = NoDevice]
      /\ issued' = issued /\ chosen' = chosen /\ handler' = handler
  BY DEF DeleteDevice
<1>2. \A i \in DeviceIds : devices'[i] = IF i = id THEN NoDevice ELSE devices[i]
  BY <1>1 DEF StoreInv, StoreTypes, Table
<1>3. devices' \in Table
  BY <1>1 DEF StoreInv, StoreTypes, Table
<1>4. StoreTypes'
  BY <1>1, <1>2, <1>3 DEF StoreInv, StoreTypes
<1>5. Distinct(devices)'
  BY <1>1, <1>2 DEF StoreInv, Distinct
<1>6. PortsAbove'
  BY <1>1, <1>2 DEF StoreInv, PortsAbove
<1>7. PortsKept'
  BY <1>1, <1>2 DEF StoreInv, StoreTypes, PortsKept
<1> QED BY <1>1, <1>4, <1>5, <1>6, <1>7 DEF StoreInv

WorkerStep == sync \/ SyncApply \/ \E n \in DOMAIN server : ListenAndServe(n)

\* The worker writes no row, and a restart forgets the requests.
LEMMA StoreKept ==
  ASSUME TunerAssumption, StoreInv, WorkerStep \/ DevicesRestart \/ UNCHANGED deviceVars
  PROVE  StoreInv' /\ chosen' = chosen
<1>1. CASE WorkerStep \/ UNCHANGED deviceVars
  <2>1. UNCHANGED <<devices, issued, handler, chosen>>
    BY <1>1 DEF WorkerStep, sync, SyncApply, ListenAndServe, deviceVars
  <2> QED BY <2>1 DEF StoreInv, StoreTypes, Distinct, PortsAbove, PortsKept
<1>2. CASE DevicesRestart
  <2>1. UNCHANGED <<devices, issued, chosen>> /\ handler' = [h \in Handlers |-> NoRequest]
    BY <1>2 DEF DevicesRestart
  <2>2. NoRequest \in DeviceRequest /\ NoRequest.pc = "idle"
    BY DEF DeviceRequest, NoRequest, Groups
  <2> QED BY <2>1, <2>2 DEF StoreInv, StoreTypes, Distinct, PortsAbove, PortsKept
<1> QED BY <1>1, <1>2

-----------------------------------------------------------------------------
(* The servers *)

\* At first there is no server.
LEMMA WorkerStart == TunerAssumption /\ DevicesInit => WorkerInv
<1> SUFFICES ASSUME TunerAssumption, DevicesInit PROVE WorkerInv
  OBVIOUS
<1>1. /\ listed = NoDevice /\ synced = NoDevices /\ server = <<>>
      /\ servers = [id \in DeviceIds |-> 0] /\ \A id \in DeviceIds : servers[id] = 0
  BY DEF DevicesInit
<1>2. \A id \in DeviceIds : synced[id] = NoDevice
  BY <1>1 DEF NoDevices
<1>3. WorkerTypes
  BY <1>1 DEF WorkerTypes, NoDevices, Table
<1>4. DOMAIN server = {}
  BY <1>1
<1>5. Follows
  BY <1>1, <1>2 DEF Follows, Desired
<1> QED BY <1>1, <1>2, <1>3, <1>4, <1>5 DEF WorkerInv, NoLeakedListener, Snapshots, Distinct, RefusedByRival

\* A request, which touches no server, makes nothing of this wrong.
LEMMA WorkerKept ==
  ASSUME WorkerInv, UNCHANGED <<listed, synced, servers, server>>, chosen \subseteq chosen'
  PROVE  WorkerInv'
<1>1. WorkerTypes' /\ NoLeakedListener' /\ Follows'
  BY DEF WorkerInv, WorkerTypes, NoLeakedListener, Follows, Desired
<1>2. Snapshots'
  BY DEF WorkerInv, Snapshots, Distinct
<1>3. RefusedByRival'
  BY DEF WorkerInv, RefusedByRival
<1> QED BY <1>1, <1>2, <1>3 DEF WorkerInv

\* What is listed are the rows of now.
LEMMA SyncKeeps ==
  ASSUME TunerAssumption, StoreInv, WorkerInv, sync
  PROVE  WorkerInv'
<1>1. listed' = devices /\ UNCHANGED <<synced, servers, server, chosen>>
  BY DEF sync
<1>2. WorkerTypes'
  BY <1>1 DEF WorkerInv, WorkerTypes, StoreInv, StoreTypes
<1>3. NoLeakedListener' /\ Follows' /\ RefusedByRival'
  BY <1>1 DEF WorkerInv, NoLeakedListener, Follows, Desired, RefusedByRival
<1>4. Snapshots'
  BY <1>1 DEF WorkerInv, Snapshots, StoreInv, Distinct
<1> QED BY <1>2, <1>3, <1>4 DEF WorkerInv

\* A server that cannot listen has a rival that listens: another device's, of
\* the same rows, with the same port.
LEMMA ListenAndServeKeeps ==
  ASSUME TunerAssumption, WorkerInv, NEW n \in DOMAIN server, ListenAndServe(n)
  PROVE  WorkerInv'
<1> DEFINE st == IF PortTaken(server[n].port) THEN "failed" ELSE "listening"
<1>1. /\ server[n].state = "starting" /\ server' = [server EXCEPT ![n].state = st]
      /\ UNCHANGED <<listed, synced, servers, chosen>>
  BY DEF ListenAndServe
<1>2. st \in {"failed", "listening"} /\ (st = "failed" => PortTaken(server[n].port))
  OBVIOUS
<1> HIDE DEF st
<1>3. server \in Seq(ServerRec) /\ server[n] \in ServerRec
  BY DEF WorkerInv, WorkerTypes
<1>4. DOMAIN server' = DOMAIN server
  BY <1>1
<1>5. \A m \in DOMAIN server : server[m] \in ServerRec
  BY <1>3
<1>6. \A m \in DOMAIN server :
        /\ server'[m].id = server[m].id /\ server'[m].port = server[m].port
        /\ server'[m].state = IF m = n THEN st ELSE server[m].state
        /\ server'[m] \in ServerRec
  BY <1>1, <1>2, <1>5 DEF ServerRec
<1>7. server' \in Seq(ServerRec)
  BY <1>1, <1>3, <1>4, <1>6
<1>8. WorkerTypes'
  BY <1>1, <1>4, <1>6, <1>7 DEF WorkerInv, WorkerTypes
<1>9. NoLeakedListener'
  BY <1>1, <1>4, <1>6 DEF WorkerInv, NoLeakedListener
<1>10. Follows'
  BY <1>1, <1>6 DEF WorkerInv, WorkerTypes, Follows, Desired
<1>11. Snapshots'
  BY <1>1 DEF WorkerInv, Snapshots, Distinct
<1>12. ASSUME PortTaken(server[n].port)
       PROVE  \E m \in DOMAIN server : m # n /\ server[m].port = server[n].port /\ {server[m].id, server[n].id} \cap chosen # {}
  <2>1. PICK m \in DOMAIN server : server[m].state = "listening" /\ server[m].port = server[n].port
    BY <1>12 DEF PortTaken
  <2>2. m # n /\ server[m].id \in DeviceIds /\ server[n].id \in DeviceIds
    BY <2>1, <1>1, <1>5 DEF ServerRec
  <2>3. servers[server[m].id] = m /\ servers[server[n].id] = n
    BY <2>1, <1>1 DEF WorkerInv, NoLeakedListener
  <2>4. server[m].id # server[n].id
    BY <2>2, <2>3
  <2>5. m # 0 /\ n # 0
    BY <1>3
  <2>6. /\ server[m].id \in Desired(synced) /\ synced[server[m].id].port = server[m].port
        /\ server[n].id \in Desired(synced) /\ synced[server[n].id].port = server[n].port
    BY <2>2, <2>3, <2>5 DEF WorkerInv, Follows
  <2>7. server[m].id \in chosen \/ server[n].id \in chosen
    BY <2>1, <2>2, <2>4, <2>6 DEF WorkerInv, Snapshots, Distinct, Desired
  <2> QED BY <2>1, <2>2, <2>7
<1>13. RefusedByRival'
  <2> SUFFICES ASSUME NEW k \in DOMAIN server, server'[k].state = "failed"
               PROVE  \E m \in DOMAIN server : m # k /\ server[m].port = server[k].port /\ {server[m].id, server[k].id} \cap chosen # {}
    BY <1>1, <1>4, <1>6 DEF RefusedByRival
  <2>1. CASE k = n
    BY <2>1, <1>2, <1>6, <1>12
  <2>2. CASE k # n
    BY <2>2, <1>6 DEF WorkerInv, RefusedByRival
  <2> QED BY <2>1, <2>2
<1> QED BY <1>8, <1>9, <1>10, <1>11, <1>13 DEF WorkerInv

\* All servers of the last run are closed, and none is registered.
LEMMA DevicesRestartKeeps ==
  ASSUME TunerAssumption, WorkerInv, DevicesRestart
  PROVE  WorkerInv'
<1>1. /\ listed' = NoDevice /\ synced' = NoDevices /\ chosen' = chosen
      /\ servers' = [id \in DeviceIds |-> 0]
      /\ server' = [n \in DOMAIN server |-> [server[n] EXCEPT !.state = "closed"]]
  BY DEF DevicesRestart
<1>2. server \in Seq(ServerRec) /\ DOMAIN server' = DOMAIN server
  BY <1>1 DEF WorkerInv, WorkerTypes
<1>3. \A n \in DOMAIN server : server'[n] \in ServerRec /\ server'[n].state = "closed"
  <2> TAKE n \in DOMAIN server
  <2>1. server[n] \in ServerRec
    BY <1>2
  <2> QED BY <2>1, <1>1 DEF ServerRec
<1>4. server' \in Seq(ServerRec)
  <2>1. DOMAIN server = 1..Len(server) /\ Len(server) \in Nat
    BY <1>2
  <2> QED BY <2>1, <1>1, <1>2, <1>3
<1>5. \A id \in DeviceIds : servers'[id] = 0 /\ synced'[id] = NoDevice
  BY <1>1 DEF NoDevices
<1>6. WorkerTypes'
  BY <1>1, <1>4, <1>5 DEF WorkerTypes, NoDevices, Table
<1>7. NoLeakedListener' /\ RefusedByRival'
  BY <1>2, <1>3 DEF NoLeakedListener, RefusedByRival
<1>8. Follows'
  BY <1>5 DEF Follows, Desired
<1>9. Snapshots'
  BY <1>1, <1>5 DEF Snapshots, Distinct
<1> QED BY <1>6, <1>7, <1>8, <1>9 DEF WorkerInv

\* What a sync stops it also forgets, and what it starts it registers: each
\* enabled device of the list has then its server, with the listed port.
LEMMA SyncApplyKeeps ==
  ASSUME TunerAssumption, WorkerInv, SyncApply
  PROVE  WorkerInv'
<1> DEFINE stop == ToStop(listed)
           start == {id \in Desired(listed) : servers[id] = 0 \/ id \in stop}
           base == Len(server)
           k == Cardinality(start)
           rank(id) == Cardinality({j \in start : j <= id})
           nth(id) == base + rank(id)
           byNumber(n) == CHOOSE id \in start : nth(id) = n
           new(id) == [id |-> id, port |-> listed[id].port, groups |-> listed[id].groups, state |-> "starting"]
<1>1. /\ listed # NoDevice /\ synced' = listed /\ listed' = NoDevice /\ chosen' = chosen
      /\ servers' = [id \in DeviceIds |-> IF id \in start THEN nth(id) ELSE IF id \in stop THEN 0 ELSE servers[id]]
      /\ server' = [n \in 1..(base + k) |->
           IF n <= base THEN [server[n] EXCEPT !.state = Closed(server[n], stop)]
           ELSE [id |-> byNumber(n), port |-> listed[byNumber(n)].port, groups |-> listed[byNumber(n)].groups, state |-> "starting"]]
  BY DEF SyncApply
<1>2. listed \in Table /\ server \in Seq(ServerRec) /\ base \in Nat /\ DOMAIN server = 1..base
  BY <1>1 DEF WorkerInv, WorkerTypes
<1>3. \A id \in DeviceIds : id \in Desired(listed) => listed[id] \in Row
  BY <1>2 DEF Desired, Table
<1>4. start \subseteq DeviceIds /\ start \in SUBSET Nat /\ IsFiniteSet(start) /\ stop \subseteq DeviceIds
  <2>1. start \subseteq DeviceIds /\ stop \subseteq DeviceIds
    BY DEF Desired, ToStop
  <2> QED BY <2>1, FS_Subset DEF TunerAssumption
<1>5. \A id \in DeviceIds : id \in start <=> id \in Desired(listed) /\ (servers[id] = 0 \/ id \in stop)
  BY DEF Desired
<1>6. \A id \in DeviceIds : id \in stop <=> servers[id] # 0 /\ (id \notin Desired(listed) \/ listed[id].port # server[servers[id]].port)
  BY DEF ToStop
<1> HIDE DEF stop, start
<1>7. /\ k \in Nat
      /\ \A id \in start : rank(id) \in 1..k
      /\ \A i, j \in start : rank(i) = rank(j) => i = j
      /\ \A n \in 1..k : \E id \in start : rank(id) = n
  BY <1>4, Numbering
<1> HIDE DEF k, rank
<1>8. \A id \in start : nth(id) \in 1..(base + k) /\ nth(id) > base /\ byNumber(nth(id)) = id
  <2> TAKE id \in start
  <2>1. rank(id) \in Nat /\ rank(id) >= 1 /\ rank(id) <= k
    BY <1>7
  <2>2. nth(id) \in 1..(base + k) /\ nth(id) > base
    BY <2>1, <1>2, <1>7
  <2>3. \A j \in start : nth(j) = nth(id) => j = id
    <3> TAKE j \in start
    <3>1. rank(j) \in Nat
      BY <1>7
    <3>2. nth(j) = nth(id) => rank(j) = rank(id)
      BY <3>1, <2>1, <1>2
    <3> QED BY <3>2, <1>7
  <2>4. byNumber(nth(id)) \in start /\ nth(byNumber(nth(id))) = nth(id)
    BY <1>2
  <2> QED BY <2>2, <2>3, <2>4
<1>9. \A n \in 1..(base + k) : n > base => \E id \in start : n = nth(id)
  <2> TAKE n \in 1..(base + k)
  <2> HAVE n > base
  <2>1. n - base \in 1..k
    BY <1>2, <1>7
  <2>2. PICK id \in start : rank(id) = n - base
    BY <2>1, <1>7
  <2> QED BY <2>2, <1>2
<1>10. DOMAIN server' = 1..(base + k)
  BY <1>1
<1>11. ASSUME NEW id \in start
       PROVE  /\ nth(id) \in DOMAIN server' /\ server'[nth(id)] \in ServerRec
              /\ server'[nth(id)].id = id /\ server'[nth(id)].port = listed[id].port
              /\ server'[nth(id)].state = "starting"
  <2>1. nth(id) \in 1..(base + k) /\ ~(nth(id) <= base) /\ byNumber(nth(id)) = id
    <3>1. nth(id) \in Nat
      BY <1>8
    <3> QED BY <3>1, <1>2, <1>8
  <2> HIDE DEF nth, byNumber
  <2>2. server'[nth(id)] = new(id)
    BY <2>1, <1>1
  <2>3. listed[id] \in Row /\ id \in DeviceIds
    BY <1>3, <1>4, <1>5
  <2> QED BY <2>1, <2>2, <2>3, <1>10 DEF Row, ServerRec, Groups
<1> HIDE DEF byNumber
<1>12. ASSUME NEW n \in DOMAIN server
       PROVE  /\ n \in DOMAIN server' /\ server'[n].id = server[n].id /\ server'[n].port = server[n].port
              /\ server'[n].state = (IF server[n].id \in stop THEN "closed" ELSE server[n].state)
              /\ server'[n] \in ServerRec
  <2>1. n \in 1..(base + k) /\ n <= base /\ server[n] \in ServerRec
    BY <1>2, <1>7
  <2>2. server'[n] = [server[n] EXCEPT !.state = Closed(server[n], stop)]
    BY <2>1, <1>1
  <2>3. Closed(server[n], stop) = (IF server[n].id \in stop THEN "closed" ELSE server[n].state)
    BY DEF Closed
  <2> QED BY <2>1, <2>2, <2>3, <1>10 DEF ServerRec
<1>13. ASSUME NEW n \in DOMAIN server'
       PROVE  n \in DOMAIN server \/ \E id \in start : n = nth(id)
  BY <1>2, <1>7, <1>9, <1>10
<1>14. \A id \in DeviceIds :
         servers'[id] = IF id \in start THEN nth(id) ELSE IF id \in stop THEN 0 ELSE servers[id]
  BY <1>1
<1>15. \A id \in start : nth(id) \in Nat /\ nth(id) # 0
  BY <1>2, <1>8
<1> HIDE DEF nth
<1>16. WorkerTypes'
  <2>1. server' \in Seq(ServerRec)
    <3>1. \A n \in DOMAIN server' : server'[n] \in ServerRec
      BY <1>11, <1>12, <1>13
    <3>2. server' = [n \in 1..(base + k) |-> server'[n]] /\ base + k \in Nat
      BY <1>1, <1>2, <1>7
    <3> QED BY <3>1, <3>2, <1>10
  <2>2. servers' \in [DeviceIds -> Nat]
    BY <1>1, <1>15 DEF WorkerInv, WorkerTypes
  <2>3. \A id \in DeviceIds : servers'[id] # 0 => servers'[id] \in DOMAIN server' /\ server'[servers'[id]].id = id
    <3> TAKE id \in DeviceIds
    <3>1. CASE id \in start
      BY <3>1, <1>11, <1>14
    <3>2. CASE id \notin start
      BY <3>2, <1>12, <1>14 DEF WorkerInv, WorkerTypes
    <3> QED BY <3>1, <3>2
  <2> QED BY <1>1, <1>2, <2>1, <2>2, <2>3 DEF WorkerTypes
<1>17. NoLeakedListener'
  <2> SUFFICES ASSUME NEW n \in DOMAIN server', server'[n].state \in {"starting", "listening"}
               PROVE  servers'[server'[n].id] = n
    BY DEF NoLeakedListener
  <2>1. ASSUME n \in DOMAIN server PROVE servers'[server'[n].id] = n
    <3>1. server'[n].id = server[n].id /\ server[n].id \notin stop /\ server'[n].state = server[n].state
      BY <2>1, <1>12
    <3>2. servers[server[n].id] = n
      BY <2>1, <3>1 DEF WorkerInv, NoLeakedListener
    <3>3. server[n].id \in DeviceIds /\ n # 0
      <4>1. server[n] \in ServerRec /\ n \in 1..base
        BY <2>1, <1>2
      <4> QED BY <4>1, <1>2 DEF ServerRec
    <3>4. server[n].id \notin start
      BY <3>1, <3>2, <3>3, <1>5
    <3> QED BY <3>1, <3>2, <3>3, <3>4, <1>14
  <2>2. ASSUME NEW id \in start, n = nth(id) PROVE servers'[server'[n].id] = n
    BY <2>2, <1>4, <1>11, <1>14
  <2> QED BY <2>1, <2>2, <1>13
<1>18. Follows'
  <2>1. Desired(synced)' = Desired(listed)
    BY <1>1 DEF Desired
  <2> SUFFICES ASSUME NEW id \in DeviceIds
               PROVE  IF id \in Desired(listed) THEN servers'[id] # 0 /\ server'[servers'[id]].port = listed[id].port
                      ELSE servers'[id] = 0
    BY <2>1, <1>1 DEF Follows
  <2>2. CASE id \in start
    BY <2>2, <1>5, <1>11, <1>14, <1>15
  <2>3. CASE id \notin start /\ id \in Desired(listed)
    <3>1. servers[id] # 0 /\ id \notin stop /\ listed[id].port = server[servers[id]].port
      BY <2>3, <1>5, <1>6
    <3>2. servers[id] \in DOMAIN server
      BY <3>1 DEF WorkerInv, WorkerTypes
    <3> QED BY <2>3, <3>1, <3>2, <1>12, <1>14
  <2>4. CASE id \notin Desired(listed)
    BY <2>4, <1>5, <1>6, <1>14
  <2> QED BY <2>2, <2>3, <2>4
<1>19. Snapshots'
  BY <1>1 DEF WorkerInv, Snapshots, Distinct
<1>20. RefusedByRival'
  <2> SUFFICES ASSUME NEW n \in DOMAIN server', server'[n].state = "failed"
               PROVE  \E m \in DOMAIN server' : /\ m # n /\ server'[m].port = server'[n].port
                                                /\ {server'[m].id, server'[n].id} \cap chosen # {}
    BY <1>1 DEF RefusedByRival
  <2>1. n \in DOMAIN server /\ server[n].state = "failed"
    BY <1>11, <1>12, <1>13
  <2>2. PICK m \in DOMAIN server : m # n /\ server[m].port = server[n].port /\ {server[m].id, server[n].id} \cap chosen # {}
    BY <2>1 DEF WorkerInv, RefusedByRival
  <2> QED BY <2>1, <2>2, <1>12
<1> QED BY <1>16, <1>17, <1>18, <1>19, <1>20 DEF WorkerInv

-----------------------------------------------------------------------------

\* Each step of the emulation keeps the invariant.
LEMMA DevicesKeep ==
  ASSUME TunerAssumption, StoreInv, WorkerInv, [DevicesSteps \/ DevicesRequests]_deviceVars
  PROVE  StoreInv' /\ WorkerInv'
<1>1. CASE StoreStep
  <2>1. StoreInv' /\ chosen \subseteq chosen'
    BY <1>1, CreateRequestKeeps, UpdateRequestKeeps, CreateDeviceKeeps, UpdateDeviceKeeps, SetChannelGroupsKeeps,
       DeleteDeviceKeeps DEF StoreStep
  <2>2. UNCHANGED <<listed, synced, servers, server>>
    BY <1>1 DEF StoreStep, CreateRequest, UpdateRequest, CreateDevice, UpdateDevice, SetChannelGroups, DeleteDevice
  <2> QED BY <2>1, <2>2, WorkerKept
<1>2. CASE WorkerStep
  BY <1>2, StoreKept, SyncKeeps, SyncApplyKeeps, ListenAndServeKeeps DEF WorkerStep
<1>3. CASE DevicesRestart
  BY <1>3, StoreKept, DevicesRestartKeeps
<1>4. CASE UNCHANGED deviceVars
  <2>1. UNCHANGED <<listed, synced, servers, server, chosen>>
    BY <1>4 DEF deviceVars
  <2> QED BY <1>4, <2>1, StoreKept, WorkerKept
<1>5. DevicesSteps \/ DevicesRequests => StoreStep \/ WorkerStep \/ DevicesRestart
  BY DEF DevicesSteps, DevicesRequests, StoreStep, WorkerStep
<1> QED BY <1>1, <1>2, <1>3, <1>4, <1>5

\* The promises of the emulation are part of the invariant.
LEMMA DevicesPromise == StoreInv /\ WorkerInv => TunersServed
<1> SUFFICES ASSUME StoreInv, WorkerInv PROVE TunersServed
  OBVIOUS
<1>1. ServersFollowDevices
  BY DEF WorkerInv, Follows, ServersFollowDevices
<1>2. AutoPortsDistinct
  BY DEF StoreInv, Distinct, AutoPortsDistinct
<1> QED BY <1>1, <1>2 DEF TunersServed, WorkerInv

\* In every reachable state no listener is left behind, the servers follow the
\* rows, ports given out by themselves differ, and only a port that was asked
\* for is refused.
THEOREM TunersAreServed == DevicesSpec => []TunersServed
<1>1. DevicesInit => StoreInv /\ WorkerInv
  BY TunerAssumption, StoreStart, WorkerStart
<1>2. (StoreInv /\ WorkerInv) /\ [DevicesSteps \/ DevicesRequests]_deviceVars => (StoreInv /\ WorkerInv)'
  BY TunerAssumption, DevicesKeep
<1>3. StoreInv /\ WorkerInv => TunersServed
  BY DevicesPromise
<1> QED BY <1>1, <1>2, <1>3, PTL DEF DevicesSpec

-----------------------------------------------------------------------------
(***************************************************************************)
(* The schedule's file (ScheduleFile).  A booking survives because one     *)
(* save at a time is past its encoding and whoever changed a row since     *)
(* still has to encode it; bookings do not overlap because a request that  *)
(* checked before a row was created is marked, and because the file and    *)
(* what is being written to it have no overlap either.                     *)
(***************************************************************************)

\* A row of the schedule, and rows of which no two live ones overlap.
Bookings == [id : Nat, slot : Nat \X Nat, status : {"pending", "recording", "completed", "failed"}, session : Nat]
Apart(r) ==
  \A i, j \in DOMAIN r : i # j /\ C!Live(r[i]) /\ C!Live(r[j]) =>
    r[i].slot[2] <= r[j].slot[1] \/ r[j].slot[2] <= r[i].slot[1]

Saves == [pc : {"idle", "create", "marshal", "truncate", "write"}, slot : Nat \X Nat,
  fresh : BOOLEAN, data : Seq(Bookings), clean : BOOLEAN, reset : BOOLEAN]

Locks(h) == scheduleHandler[h].pc \in {"marshal", "truncate", "write"} /\ ~scheduleHandler[h].reset

ScheduleTypes ==
  /\ rows \in Seq(Bookings) /\ made \in Nat
  /\ scheduleFile \in [torn : BOOLEAN, rows : Seq(Bookings)]
  /\ scheduleHandler \in [Handlers -> Saves]
  /\ raced \in BOOLEAN /\ mixed \in BOOLEAN /\ cut \in BOOLEAN /\ scheduleLoaded \in BOOLEAN

\* Who saves holds the lock, a reset excepted.
Locked ==
  \A h \in Handlers :
    /\ Locks(h) <=> lock = h
    /\ scheduleHandler[h].pc = "create" => ~scheduleHandler[h].reset

\* One save at a time is past its encoding, its data is what the file will
\* hold, and what is not saved yet somebody still has to encode.
Unmixed ==
  /\ \A g, h \in Handlers : scheduleHandler[g].pc \in {"truncate", "write"} /\ scheduleHandler[h].pc \in {"truncate", "write"} => g = h
  /\ \A h \in Handlers : scheduleHandler[h].pc = "write" => scheduleHandler[h].clean /\ scheduleFile = C!Torn
  /\ \/ \E h \in Handlers : scheduleHandler[h].pc = "marshal"
     \/ \E h \in Handlers : scheduleHandler[h].pc \in {"truncate", "write"} /\ scheduleHandler[h].data = rows
     \/ /\ \A h \in Handlers : scheduleHandler[h].pc \notin {"truncate", "write"}
        /\ scheduleFile = C!Whole(rows)
  /\ scheduleFile.torn => \E h \in Handlers : scheduleHandler[h].pc = "write"

\* Memory, the file and what is being saved have no overlap, and a request
\* that still can create its row will make none.
Unraced ==
  /\ Apart(rows) /\ Apart(scheduleFile.rows)
  /\ \A h \in Handlers : Apart(scheduleHandler[h].data)
  /\ \A h \in Handlers : scheduleHandler[h].pc = "create" /\ scheduleHandler[h].fresh =>
       \A i \in DOMAIN rows : C!Live(rows[i]) =>
         rows[i].slot[2] <= scheduleHandler[h].slot[1] \/ scheduleHandler[h].slot[2] <= rows[i].slot[1]

ScheduleFileInv ==
  /\ ScheduleTypes
  /\ scheduleLoaded => Locked
  /\ scheduleLoaded /\ ~mixed => Unmixed
  /\ ~raced => Unraced
  /\ scheduleLoaded \/ cut \/ mixed

\* What RemoveAt leaves of a sequence.
LEMMA Removed ==
  ASSUME NEW T, NEW s \in Seq(T), NEW i \in DOMAIN s
  PROVE  LET left == SubSeq(s, 1, i - 1) \o SubSeq(s, i + 1, Len(s)) IN
         /\ left \in Seq(T) /\ Len(left) = Len(s) - 1
         /\ \A j \in DOMAIN left : left[j] = s[IF j < i THEN j ELSE j + 1]
<1> DEFINE a == SubSeq(s, 1, i - 1)  b == SubSeq(s, i + 1, Len(s))
<1>1. Len(s) \in Nat /\ i \in 1..Len(s)
  OBVIOUS
<1>2. a \in Seq(T) /\ Len(a) = i - 1 /\ \A j \in 1..(i - 1) : a[j] = s[j]
  BY <1>1
<1>3. b \in Seq(T) /\ Len(b) = Len(s) - i /\ \A j \in 1..(Len(s) - i) : b[j] = s[i + j]
  BY <1>1
<1> HIDE DEF a, b
<1>4. a \o b \in Seq(T) /\ Len(a \o b) = Len(s) - 1
  BY <1>1, <1>2, <1>3
<1>5. ASSUME NEW j \in DOMAIN (a \o b) PROVE (a \o b)[j] = s[IF j < i THEN j ELSE j + 1]
  <2>1. j \in 1..(Len(s) - 1)
    BY <1>4, <1>5
  <2>2. CASE j < i
    <3>1. (a \o b)[j] = a[j]
      BY <1>1, <1>2, <1>3, <2>1, <2>2
    <3> QED BY <1>1, <1>2, <2>1, <2>2, <3>1
  <2>3. CASE ~(j < i)
    <3>1. (a \o b)[j] = b[j - (i - 1)]
      BY <1>1, <1>2, <1>3, <2>1, <2>3
    <3>2. j - (i - 1) \in 1..(Len(s) - i)
      BY <1>1, <2>1, <2>3
    <3>3. b[j - (i - 1)] = s[i + (j - (i - 1))] /\ i + (j - (i - 1)) = j + 1
      BY <1>1, <1>3, <2>1, <3>2
    <3> QED BY <2>3, <3>1, <3>3
  <2> QED BY <2>2, <2>3
<1> QED BY <1>4, <1>5 DEF a, b

\* No row lost its place to an overlapping one, whatever row went.
LEMMA RemovedApart ==
  ASSUME NEW s \in Seq(Bookings), NEW i \in DOMAIN s, Apart(s)
  PROVE  Apart(C!RemoveAt(s, i))
<1> DEFINE left == C!RemoveAt(s, i)
<1>1. /\ left \in Seq(Bookings) /\ Len(left) = Len(s) - 1
      /\ \A j \in DOMAIN left : left[j] = s[IF j < i THEN j ELSE j + 1]
  BY Removed DEF C!RemoveAt
<1> HIDE DEF left
<1>2. SUFFICES ASSUME NEW j \in DOMAIN left, NEW k \in DOMAIN left, j # k, C!Live(left[j]), C!Live(left[k])
               PROVE  left[j].slot[2] <= left[k].slot[1] \/ left[k].slot[2] <= left[j].slot[1]
  BY DEF Apart, left
<1> DEFINE at(n) == IF n < i THEN n ELSE n + 1
<1>3. at(j) \in DOMAIN s /\ at(k) \in DOMAIN s /\ at(j) # at(k)
  BY <1>1, <1>2
<1>4. left[j] = s[at(j)] /\ left[k] = s[at(k)]
  BY <1>1
<1> HIDE DEF at
<1> QED BY <1>2, <1>3, <1>4 DEF Apart

LEMMA NoSave == C!NoHandler \in Saves /\ C!NoHandler = [pc |-> "idle", slot |-> <<0, 0>>, fresh |-> TRUE, data |-> << >>, clean |-> TRUE, reset |-> FALSE]
<1>1. << >> \in Seq(Bookings) /\ <<0, 0>> \in Nat \X Nat
  OBVIOUS
<1> QED BY <1>1 DEF C!NoHandler, Saves

LEMMA FileTypes ==
  /\ C!Torn \in [torn : BOOLEAN, rows : Seq(Bookings)] /\ C!Torn.torn /\ C!Torn.rows = << >>
  /\ \A r \in Seq(Bookings) :
       /\ C!Whole(r) \in [torn : BOOLEAN, rows : Seq(Bookings)]
       /\ ~C!Whole(r).torn /\ C!Whole(r).rows = r
  BY DEF C!Torn, C!Whole

LEMMA ScheduleStart == C!ScheduleInit => ScheduleFileInv
<1> SUFFICES ASSUME C!ScheduleInit PROVE ScheduleFileInv
  OBVIOUS
<1> USE FilesAssumption DEF C!ScheduleInit
<1>1. \A h \in Handlers : scheduleHandler[h] = C!NoHandler
  OBVIOUS
<1>2. ScheduleTypes
  BY NoSave, FileTypes DEF ScheduleTypes
<1>3. Locked
  BY <1>1 DEF Locked, Locks, C!NoHandler
<1>4. Unmixed
  BY <1>1 DEF Unmixed, C!NoHandler, C!Whole
<1>5. Unraced
  BY <1>1 DEF Unraced, Apart, C!NoHandler, C!Whole
<1> QED BY <1>2, <1>3, <1>4, <1>5 DEF ScheduleFileInv

-----------------------------------------------------------------------------
\* A handler that takes another step keeps the types.
LEMMA ScheduleTypesKept == ScheduleTypes /\ (C!ScheduleSteps \/ C!ScheduleRequests) => ScheduleTypes'
<1> SUFFICES ASSUME ScheduleTypes, C!ScheduleSteps \/ C!ScheduleRequests PROVE ScheduleTypes'
  OBVIOUS
<1> USE DEF ScheduleTypes
<1>0. \A g \in Handlers : scheduleHandler[g] \in Saves
  OBVIOUS
<1>1. ASSUME NEW h \in Handlers, NEW slot \in Slots, C!Schedule(h, slot) PROVE ScheduleTypes'
  <2>1. [C!NoHandler EXCEPT !.pc = "create", !.slot = slot] \in Saves
    BY NoSave, FilesAssumption DEF Saves
  <2> QED BY <1>1, <2>1 DEF C!Schedule, C!Goto
<1>2. ASSUME NEW h \in Handlers, C!Create(h) PROVE ScheduleTypes'
  <2>1. [id |-> made + 1, slot |-> scheduleHandler[h].slot, status |-> "pending", session |-> 0] \in Bookings
    BY <1>0 DEF Saves, Bookings
  <2>2. \A g \in Handlers : [scheduleHandler[g] EXCEPT !.pc = "marshal"] \in Saves /\ [scheduleHandler[g] EXCEPT !.fresh = FALSE] \in Saves
    BY <1>0, ZenonT(40) DEF Saves
  <2>3. rows' \in Seq(Bookings) /\ made' \in Nat
    BY <1>2, <2>1 DEF C!Create
  <2>4. scheduleHandler' \in [Handlers -> Saves]
    BY <1>2, <2>2 DEF C!Create
  <2> QED BY <1>2, <2>3, <2>4 DEF C!Create
<1>3. [C!NoHandler EXCEPT !.pc = "marshal"] \in Saves /\ [C!NoHandler EXCEPT !.pc = "marshal", !.reset = TRUE] \in Saves
  BY NoSave DEF Saves
<1>4. ASSUME NEW h \in Handlers, NEW i \in DOMAIN rows, NEW row \in Bookings, C!updateField(h, i, row) PROVE ScheduleTypes'
  BY <1>3, <1>4 DEF C!updateField, C!Goto
<1>5. ASSUME NEW h \in Handlers, NEW i \in DOMAIN rows, C!UpdateStatus(h, i) \/ C!UpdateRecordingState(h, i) PROVE ScheduleTypes'
  <2>1. rows[i] \in Bookings
    OBVIOUS
  <2>2. PICK row : C!updateField(h, i, row) /\ ((\E st \in C!Follows[rows[i].status] : row = [rows[i] EXCEPT !.status = st]) \/ row = [rows[i] EXCEPT !.session = 1])
    BY <1>5 DEF C!UpdateStatus, C!UpdateRecordingState
  <2>3. C!Follows[rows[i].status] \subseteq {"recording", "completed", "failed"}
    BY <2>1 DEF C!Follows, Bookings
  <2>4. row \in Bookings
    <3>1. [rows[i] EXCEPT !.session = 1] \in Bookings
      BY <2>1 DEF Bookings
    <3>2. ASSUME NEW st \in {"recording", "completed", "failed"} PROVE [rows[i] EXCEPT !.status = st] \in Bookings
      BY <2>1 DEF Bookings
    <3> QED BY <2>2, <2>3, <3>1, <3>2
  <2> QED BY <1>4, <2>2, <2>4
<1>6. ASSUME NEW h \in Handlers, NEW i \in DOMAIN rows, C!Delete(h, i) PROVE ScheduleTypes'
  <2>1. rows' \in Seq(Bookings)
    BY <1>6, Removed DEF C!Delete, C!RemoveAt
  <2> QED BY <1>3, <1>6, <2>1 DEF C!Delete, C!Goto
<1>7. ASSUME NEW h \in Handlers, C!ClearAndSave(h) PROVE ScheduleTypes'
  BY <1>3, <1>7 DEF C!ClearAndSave, C!Goto
<1>8. ASSUME NEW h \in Handlers, C!Marshal(h) PROVE ScheduleTypes'
  <2>1. [scheduleHandler[h] EXCEPT !.pc = "truncate", !.data = rows] \in Saves
    BY <1>0 DEF Saves
  <2>2. mixed' \in BOOLEAN
    BY <1>8 DEF C!Marshal
  <2> QED BY <1>8, <2>1, <2>2 DEF C!Marshal, C!Goto
<1>9. ASSUME NEW h \in Handlers, C!Truncate(h) PROVE ScheduleTypes'
  <2>1. \A g \in Handlers : [scheduleHandler[g] EXCEPT !.pc = "write", !.clean = TRUE] \in Saves /\ [scheduleHandler[g] EXCEPT !.clean = FALSE] \in Saves
    BY <1>0, ZenonT(40) DEF Saves
  <2>2. scheduleHandler' \in [Handlers -> Saves]
    BY <1>9, <2>1 DEF C!Truncate
  <2>3. mixed' \in BOOLEAN /\ scheduleFile' \in [torn : BOOLEAN, rows : Seq(Bookings)]
    BY <1>9 DEF C!Truncate, C!Torn
  <2> QED BY <1>9, <2>2, <2>3 DEF C!Truncate
<1>10. ASSUME NEW h \in Handlers, C!Write(h) PROVE ScheduleTypes'
  <2>1. scheduleFile' \in {C!Whole(scheduleHandler[h].data), C!Torn}
    BY <1>10 DEF C!Write
  <2>2. scheduleHandler[h].data \in Seq(Bookings)
    BY <1>0 DEF Saves
  <2>3. scheduleFile' \in [torn : BOOLEAN, rows : Seq(Bookings)]
    BY <2>1, <2>2, FileTypes
  <2> QED BY <1>10, <2>3, NoSave DEF C!Write, C!Goto
<1>11. ASSUME C!Restart PROVE ScheduleTypes'
  <2>1. cut' \in BOOLEAN /\ scheduleLoaded' \in BOOLEAN
    BY <1>11 DEF C!Restart
  <2>2. rows' \in Seq(Bookings)
    BY <1>11 DEF C!Restart
  <2> QED BY <1>11, <2>1, <2>2, NoSave DEF C!Restart
<1> QED BY <1>1, <1>2, <1>5, <1>6, <1>7, <1>8, <1>9, <1>10, <1>11 DEF C!ScheduleSteps, C!ScheduleRequests

LEMMA LockedKept == ScheduleTypes /\ Locked /\ (C!ScheduleSteps \/ C!ScheduleRequests) => Locked'
<1> SUFFICES ASSUME ScheduleTypes, Locked, C!ScheduleSteps \/ C!ScheduleRequests PROVE Locked'
  OBVIOUS
<1>0. \A g \in Handlers : scheduleHandler[g] \in Saves
  BY DEF ScheduleTypes
<1>1. scheduleHandler = [g \in Handlers |-> scheduleHandler[g]]
  BY DEF ScheduleTypes
<1> USE FilesAssumption, NoSave DEF Locked, Locks
<1>2. ASSUME NEW h \in Handlers, NEW slot \in Slots, C!Schedule(h, slot) PROVE Locked'
  BY <1>0, <1>1, <1>2 DEF C!Schedule, C!Goto
<1>3. ASSUME NEW h \in Handlers, C!Create(h) PROVE Locked'
  <2>1. \A g \in Handlers : scheduleHandler'[g].reset = scheduleHandler[g].reset
    BY <1>0, <1>3 DEF C!Create, Saves
  <2>2. scheduleHandler'[h].pc = "marshal" /\ \A g \in Handlers \ {h} : scheduleHandler'[g].pc = scheduleHandler[g].pc
    BY <1>0, <1>3 DEF C!Create, Saves
  <2>3. scheduleHandler[h].pc = "create" /\ lock = None /\ lock' = h
    BY <1>3 DEF C!Create
  <2> QED BY <2>1, <2>2, <2>3
<1>4. ASSUME NEW h \in Handlers, NEW i \in DOMAIN rows, C!UpdateStatus(h, i) \/ C!UpdateRecordingState(h, i) PROVE Locked'
  BY <1>0, <1>1, <1>4 DEF C!UpdateStatus, C!UpdateRecordingState, C!updateField, C!Goto
<1>5. ASSUME NEW h \in Handlers, NEW i \in DOMAIN rows, C!Delete(h, i) PROVE Locked'
  BY <1>0, <1>1, <1>5 DEF C!Delete, C!Goto
<1>6. ASSUME NEW h \in Handlers, C!ClearAndSave(h) PROVE Locked'
  BY <1>0, <1>1, <1>6 DEF C!ClearAndSave, C!Goto
<1>7. ASSUME NEW h \in Handlers, C!Marshal(h) PROVE Locked'
  BY <1>0, <1>1, <1>7 DEF C!Marshal, C!Goto, Saves
<1>8. ASSUME NEW h \in Handlers, C!Truncate(h) PROVE Locked'
  BY <1>0, <1>1, <1>8 DEF C!Truncate, Saves
<1>9. ASSUME NEW h \in Handlers, C!Write(h) PROVE Locked'
  BY <1>0, <1>1, <1>9 DEF C!Write, C!Goto
<1>10. ASSUME C!Restart PROVE Locked'
  BY <1>10 DEF C!Restart
<1> QED BY <1>2, <1>3, <1>4, <1>5, <1>6, <1>7, <1>8, <1>9, <1>10 DEF C!ScheduleSteps, C!ScheduleRequests

\* Two requests that are saving where neither is a reset would both hold the
\* lock.
LEMMA SavesApart ==
  ASSUME ScheduleTypes, Locked, NEW g \in C!Saving, NEW h \in C!Saving, g # h
  PROVE  C!NextToReset(h)
<1>1. g \in Handlers /\ h \in Handlers
  BY DEF C!Saving
<1>2. scheduleHandler[g] \in Saves /\ scheduleHandler[h] \in Saves
  BY <1>1 DEF ScheduleTypes
<1> QED BY <1>1, <1>2, FilesAssumption DEF Locked, Locks, C!Saving, C!NextToReset, Saves

\* What everybody but h does stays as it is.
OthersSame(h) == \A g \in Handlers \ {h} : scheduleHandler'[g] = scheduleHandler[g]

LEMMA UnmixedKept ==
  ASSUME ScheduleTypes, Locked, ~mixed => Unmixed, C!ScheduleSteps \/ C!ScheduleRequests, ~mixed', scheduleLoaded'
  PROVE  Unmixed'
<1>0. \A g \in Handlers : scheduleHandler[g] \in Saves
  BY DEF ScheduleTypes
<1>1. scheduleHandler = [g \in Handlers |-> scheduleHandler[g]]
  BY DEF ScheduleTypes
<1>2. ASSUME NEW h \in Handlers, NEW slot \in Slots, C!Schedule(h, slot) PROVE Unmixed'
  <2>1. Unmixed
    BY <1>2 DEF C!Schedule
  <2>2. scheduleHandler[h].pc = "idle" /\ scheduleHandler'[h].pc = "create" /\ OthersSame(h)
    BY <1>1, <1>2, NoSave DEF C!Schedule, C!Goto, OthersSame
  <2>3. UNCHANGED <<rows, scheduleFile>>
    BY <1>2 DEF C!Schedule
  <2> QED BY <2>1, <2>2, <2>3 DEF Unmixed, OthersSame
\* A changed row waits for its encoding.
<1>3. ASSUME NEW h \in Handlers, UNCHANGED <<mixed, scheduleFile>>,
             scheduleHandler[h].pc \notin {"truncate", "write"}, scheduleHandler'[h].pc = "marshal",
             \A g \in Handlers \ {h} : scheduleHandler'[g].pc = scheduleHandler[g].pc /\ scheduleHandler'[g].clean = scheduleHandler[g].clean
      PROVE  Unmixed'
  <2>1. Unmixed
    BY <1>3
  <2>2. \A g \in Handlers : scheduleHandler'[g].pc \in {"truncate", "write"} <=> scheduleHandler[g].pc \in {"truncate", "write"}
    BY <1>3
  <2>3. \A g \in Handlers : scheduleHandler'[g].pc = "write" <=> scheduleHandler[g].pc = "write"
    BY <1>3
  <2> QED BY <1>3, <2>1, <2>2, <2>3 DEF Unmixed, C!Torn
<1>4. ASSUME NEW h \in Handlers, C!Create(h) PROVE Unmixed'
  <2>1. scheduleHandler[h].pc = "create" /\ scheduleHandler'[h].pc = "marshal" /\ UNCHANGED <<mixed, scheduleFile>>
    BY <1>0, <1>4 DEF C!Create, Saves
  <2>2. \A g \in Handlers \ {h} : scheduleHandler'[g].pc = scheduleHandler[g].pc /\ scheduleHandler'[g].clean = scheduleHandler[g].clean
    BY <1>0, <1>4 DEF C!Create, Saves
  <2> QED BY <1>3, <2>1, <2>2
<1>5. ASSUME NEW h \in Handlers,
             C!ClearAndSave(h) \/ \E i \in DOMAIN rows : C!UpdateStatus(h, i) \/ C!UpdateRecordingState(h, i) \/ C!Delete(h, i)
      PROVE  Unmixed'
  <2>1. /\ scheduleHandler[h].pc = "idle" /\ UNCHANGED <<mixed, scheduleFile>>
        /\ \E w \in {[C!NoHandler EXCEPT !.pc = "marshal"], [C!NoHandler EXCEPT !.pc = "marshal", !.reset = TRUE]} : scheduleHandler' = [scheduleHandler EXCEPT ![h] = w]
    BY <1>5 DEF C!ClearAndSave, C!UpdateStatus, C!UpdateRecordingState, C!updateField, C!Delete, C!Goto
  <2>2. scheduleHandler'[h].pc = "marshal" /\ OthersSame(h)
    BY <1>1, <2>1, NoSave, ZenonT(60) DEF OthersSame
  <2> QED BY <1>3, <2>1, <2>2 DEF OthersSame
<1>6. ASSUME NEW h \in Handlers, C!Marshal(h) PROVE Unmixed'
  <2>1. Unmixed /\ scheduleHandler[h].pc = "marshal" /\ ~C!NextToReset(h) /\ UNCHANGED <<rows, scheduleFile>>
    BY <1>6 DEF C!Marshal, C!Goto
  <2>2. \A g \in C!Saving : g = h
    BY <2>1, SavesApart DEF C!Saving
  <2>3. scheduleHandler'[h].pc = "truncate" /\ scheduleHandler'[h].data = rows /\ OthersSame(h)
    BY <1>0, <1>1, <1>6 DEF C!Marshal, C!Goto, OthersSame, Saves
  <2> QED BY <2>1, <2>2, <2>3 DEF Unmixed, OthersSame, C!Saving
<1>7. ASSUME NEW h \in Handlers, C!Truncate(h) PROVE Unmixed'
  <2>1. Unmixed /\ scheduleHandler[h].pc = "truncate" /\ ~C!NextToReset(h) /\ rows' = rows /\ scheduleFile' = C!Torn
    BY <1>7 DEF C!Truncate
  <2>2. \A g \in C!Saving : g = h
    BY <2>1, SavesApart DEF C!Saving
  <2>3. /\ scheduleHandler'[h].pc = "write" /\ scheduleHandler'[h].clean /\ scheduleHandler'[h].data = scheduleHandler[h].data
        /\ \A g \in Handlers \ {h} : scheduleHandler'[g].pc = scheduleHandler[g].pc
    BY <1>0, <1>7 DEF C!Truncate, Saves
  <2>4. scheduleHandler[h].data = rows
    BY <2>1, <2>2, FileTypes DEF Unmixed, C!Saving, C!Torn, C!Whole
  <2> QED BY <2>1, <2>2, <2>3, <2>4, FileTypes DEF Unmixed, C!Saving, C!Torn
<1>8. ASSUME NEW h \in Handlers, C!Write(h) PROVE Unmixed'
  <2>1. Unmixed /\ scheduleHandler[h].pc = "write" /\ rows' = rows
    BY <1>8 DEF C!Write, C!Goto
  <2>2. scheduleFile' = C!Whole(scheduleHandler[h].data)
    BY <1>8, <2>1 DEF C!Write, Unmixed
  <2>3. scheduleHandler'[h].pc = "idle" /\ OthersSame(h)
    BY <1>1, <1>8, NoSave DEF C!Write, C!Goto, OthersSame
  <2>4. scheduleFile.torn /\ ~scheduleFile'.torn
    BY <1>0, <2>1, <2>2, FileTypes DEF Unmixed, Saves
  <2> QED BY <2>1, <2>2, <2>3, <2>4, FileTypes DEF Unmixed, OthersSame
<1>9. ASSUME C!Restart PROVE Unmixed'
  <2>1. ~scheduleFile.torn /\ rows' = scheduleFile.rows /\ scheduleFile' = scheduleFile
    BY <1>9 DEF C!Restart
  <2>2. \A h \in Handlers : scheduleHandler'[h].pc = "idle"
    BY <1>9, NoSave DEF C!Restart
  <2>3. scheduleFile = C!Whole(scheduleFile.rows)
    BY <2>1 DEF ScheduleTypes, C!Whole
  <2> QED BY <2>1, <2>2, <2>3 DEF Unmixed, C!Torn
<1> QED BY <1>2, <1>4, <1>5, <1>6, <1>7, <1>8, <1>9 DEF C!ScheduleSteps, C!ScheduleRequests

\* What a request that has passed its check may rely on.
Free(slot, r) == \A i \in DOMAIN r : C!Live(r[i]) => r[i].slot[2] <= slot[1] \/ slot[2] <= r[i].slot[1]

LEMMA UnracedKept ==
  ASSUME ScheduleTypes, ~raced => Unraced, C!ScheduleSteps \/ C!ScheduleRequests, ~raced'
  PROVE  Unraced'
<1>0. \A g \in Handlers : scheduleHandler[g] \in Saves
  BY DEF ScheduleTypes
<1>1. scheduleHandler = [g \in Handlers |-> scheduleHandler[g]] /\ rows \in Seq(Bookings)
  BY DEF ScheduleTypes
<1>e. Apart(<< >>) /\ Apart(C!NoHandler.data) /\ Apart(C!Torn.rows) /\ \A slot : Free(slot, << >>)
  BY NoSave, FileTypes DEF Apart, Free
<1>f. Unraced <=> /\ Apart(rows) /\ Apart(scheduleFile.rows)
                  /\ \A h \in Handlers : Apart(scheduleHandler[h].data)
                  /\ \A h \in Handlers : scheduleHandler[h].pc = "create" /\ scheduleHandler[h].fresh => Free(scheduleHandler[h].slot, rows)
  BY DEF Unraced, Free
<1>g. Unraced' <=> /\ Apart(rows') /\ Apart(scheduleFile'.rows)
                   /\ \A h \in Handlers : Apart(scheduleHandler'[h].data)
                   /\ \A h \in Handlers : scheduleHandler'[h].pc = "create" /\ scheduleHandler'[h].fresh => Free(scheduleHandler'[h].slot, rows')
  BY DEF Unraced, Free, Apart
<1>2. ASSUME NEW h \in Handlers, NEW slot \in Slots, C!Schedule(h, slot) PROVE Unraced'
  <2>1. Unraced /\ UNCHANGED <<rows, scheduleFile>> /\ OthersSame(h)
    BY <1>1, <1>2 DEF C!Schedule, C!Goto, OthersSame
  <2>2. scheduleHandler'[h].slot = slot /\ scheduleHandler'[h].data = << >>
    BY <1>1, <1>2, NoSave DEF C!Schedule, C!Goto
  <2>3. Free(slot, rows)
    <3> SUFFICES ASSUME NEW i \in DOMAIN rows, C!Live(rows[i]) PROVE rows[i].slot[2] <= slot[1] \/ slot[2] <= rows[i].slot[1]
      BY DEF Free
    <3>1. rows[i] \in C!ToSet(rows) /\ rows[i] \in Bookings
      BY <1>1 DEF C!ToSet
    <3>2. ~(rows[i].slot[1] < slot[2] /\ rows[i].slot[2] > slot[1])
      BY <1>2, <3>1 DEF C!Schedule, C!ListByChannelAndTimeRange
    <3>3. rows[i].slot[1] \in Nat /\ rows[i].slot[2] \in Nat /\ slot[1] \in Nat /\ slot[2] \in Nat
      BY <3>1, FilesAssumption DEF Bookings
    <3> QED BY <3>2, <3>3
  <2> QED BY <1>e, <1>f, <1>g, <2>1, <2>2, <2>3 DEF OthersSame
<1>3. ASSUME NEW h \in Handlers, C!Create(h) PROVE Unraced'
  <2>1. Unraced /\ scheduleHandler[h].fresh /\ scheduleHandler[h].pc = "create" /\ UNCHANGED scheduleFile
    BY <1>3 DEF C!Create
  <2>2. \A g \in Handlers : scheduleHandler'[g].data = scheduleHandler[g].data /\ ~(scheduleHandler'[g].pc = "create" /\ scheduleHandler'[g].fresh)
    BY <1>0, <1>3 DEF C!Create, Saves
  <2> DEFINE row == [id |-> made + 1, slot |-> scheduleHandler[h].slot, status |-> "pending", session |-> 0]
  <2>3. rows' = Append(rows, row)
    BY <1>3 DEF C!Create
  <2>4. Free(row.slot, rows) /\ Apart(rows)
    BY <1>f, <2>1
  <2>5. Apart(rows')
    <3>1. Len(rows) \in Nat /\ DOMAIN rows = 1..Len(rows) /\ DOMAIN rows' = 1..(Len(rows) + 1)
      BY <1>1, <2>3
    <3>2. rows'[Len(rows) + 1] = row /\ \A i \in DOMAIN rows : rows'[i] = rows[i]
      BY <1>1, <2>3
    <3> HIDE DEF row
    <3>3. SUFFICES ASSUME NEW i \in DOMAIN rows', NEW j \in DOMAIN rows', i # j, C!Live(rows'[i]), C!Live(rows'[j])
                   PROVE  rows'[i].slot[2] <= rows'[j].slot[1] \/ rows'[j].slot[2] <= rows'[i].slot[1]
      BY DEF Apart
    <3>4. CASE i \in DOMAIN rows /\ j \in DOMAIN rows
      BY <2>4, <3>2, <3>3, <3>4 DEF Apart
    <3>5. CASE i \notin DOMAIN rows
      <4>1. i = Len(rows) + 1 /\ j \in DOMAIN rows
        BY <3>1, <3>3, <3>5
      <4> QED BY <2>4, <3>2, <3>3, <4>1 DEF Free
    <3>6. CASE j \notin DOMAIN rows
      <4>1. j = Len(rows) + 1 /\ i \in DOMAIN rows
        BY <3>1, <3>3, <3>6
      <4> QED BY <2>4, <3>2, <3>3, <4>1 DEF Free
    <3> QED BY <3>4, <3>5, <3>6
  <2> QED BY <1>f, <1>g, <2>1, <2>2, <2>5
<1>4. ASSUME NEW h \in Handlers, scheduleHandler'[h].data = << >>, scheduleHandler'[h].pc # "create", OthersSame(h),
             Apart(rows'), UNCHANGED <<scheduleFile, raced>>, \A slot : Free(slot, rows) => Free(slot, rows')
      PROVE  Unraced'
  BY <1>e, <1>f, <1>g, <1>4 DEF OthersSame
<1>5. ASSUME NEW h \in Handlers, NEW i \in DOMAIN rows, C!UpdateStatus(h, i) \/ C!UpdateRecordingState(h, i) PROVE Unraced'
  <2>1. PICK row : /\ C!updateField(h, i, row)
                   /\ (\E st \in C!Follows[rows[i].status] : row = [rows[i] EXCEPT !.status = st]) \/ row = [rows[i] EXCEPT !.session = 1]
    BY <1>5 DEF C!UpdateStatus, C!UpdateRecordingState
  <2>2. row.slot = rows[i].slot /\ (C!Live(row) => C!Live(rows[i]))
    <3>1. rows[i] \in Bookings
      BY <1>1
    <3>2. CASE rows[i].status \in {"completed", "failed"}
      <4>1. C!Follows[rows[i].status] = {}
        BY <3>2 DEF C!Follows
      <4> QED BY <2>1, <3>1, <4>1 DEF Bookings, C!Live
    <3>3. CASE rows[i].status \in {"pending", "recording"}
      BY <2>1, <3>1, <3>3 DEF Bookings, C!Live
    <3> QED BY <3>1, <3>2, <3>3 DEF Bookings
  <2>3. rows' = [rows EXCEPT ![i] = row] /\ UNCHANGED <<scheduleFile, raced>> /\ OthersSame(h)
    BY <1>1, <2>1 DEF C!updateField, C!Goto, OthersSame
  <2>4. scheduleHandler'[h].data = << >> /\ scheduleHandler'[h].pc = "marshal"
    BY <1>1, <2>1, NoSave DEF C!updateField, C!Goto
  <2>5. DOMAIN rows' = DOMAIN rows /\ \A j \in DOMAIN rows : rows'[j].slot = rows[j].slot /\ (C!Live(rows'[j]) => C!Live(rows[j]))
    BY <1>1, <2>2, <2>3
  <2>6. Apart(rows')
    BY <1>5, <1>f, <2>3, <2>5 DEF Apart
  <2>7. \A slot : Free(slot, rows) => Free(slot, rows')
    BY <2>5 DEF Free
  <2> QED BY <1>4, <2>3, <2>4, <2>6, <2>7
<1>6. ASSUME NEW h \in Handlers, NEW i \in DOMAIN rows, C!Delete(h, i) PROVE Unraced'
  <2>1. rows' = C!RemoveAt(rows, i) /\ UNCHANGED <<scheduleFile, raced>> /\ OthersSame(h)
    BY <1>1, <1>6 DEF C!Delete, C!Goto, OthersSame
  <2>2. scheduleHandler'[h].data = << >> /\ scheduleHandler'[h].pc = "marshal"
    BY <1>1, <1>6, NoSave DEF C!Delete, C!Goto
  <2>3. Apart(rows')
    BY <1>1, <1>f, <2>1, RemovedApart
  <2>4. \A j \in DOMAIN rows' : \E k \in DOMAIN rows : rows'[j] = rows[k]
    <3>1. /\ rows' \in Seq(Bookings) /\ Len(rows') = Len(rows) - 1
          /\ \A j \in DOMAIN rows' : rows'[j] = rows[IF j < i THEN j ELSE j + 1]
      BY <1>1, <2>1, Removed DEF C!RemoveAt
    <3>2. \A j \in DOMAIN rows' : (IF j < i THEN j ELSE j + 1) \in DOMAIN rows
      BY <1>1, <3>1
    <3> QED BY <3>1, <3>2
  <2>5. \A slot : Free(slot, rows) => Free(slot, rows')
    BY <2>4 DEF Free
  <2> QED BY <1>4, <2>1, <2>2, <2>3, <2>5
<1>7. ASSUME NEW h \in Handlers, C!ClearAndSave(h) PROVE Unraced'
  <2>1. rows' = << >> /\ UNCHANGED <<scheduleFile, raced>> /\ OthersSame(h)
    BY <1>1, <1>7 DEF C!ClearAndSave, C!Goto, OthersSame
  <2>2. scheduleHandler'[h].data = << >> /\ scheduleHandler'[h].pc = "marshal"
    BY <1>1, <1>7, NoSave DEF C!ClearAndSave, C!Goto
  <2> QED BY <1>4, <1>e, <2>1, <2>2
<1>8. ASSUME NEW h \in Handlers, C!Marshal(h) PROVE Unraced'
  <2>1. Unraced /\ UNCHANGED <<rows, scheduleFile>> /\ OthersSame(h)
    BY <1>1, <1>8 DEF C!Marshal, C!Goto, OthersSame
  <2>2. scheduleHandler'[h].data = rows /\ scheduleHandler'[h].pc = "truncate"
    BY <1>0, <1>1, <1>8 DEF C!Marshal, C!Goto, Saves
  <2> QED BY <1>f, <1>g, <2>1, <2>2 DEF OthersSame
<1>9. ASSUME NEW h \in Handlers, C!Truncate(h) PROVE Unraced'
  <2>1. Unraced /\ rows' = rows /\ scheduleFile' = C!Torn
    BY <1>9 DEF C!Truncate
  <2>2. \A g \in Handlers :
          /\ scheduleHandler'[g].data = scheduleHandler[g].data /\ scheduleHandler'[g].slot = scheduleHandler[g].slot
          /\ scheduleHandler'[g].fresh = scheduleHandler[g].fresh
          /\ scheduleHandler'[g].pc = "create" => scheduleHandler[g].pc = "create"
    BY <1>0, <1>9 DEF C!Truncate, Saves
  <2> QED BY <1>e, <1>f, <1>g, <2>1, <2>2
<1>10. ASSUME NEW h \in Handlers, C!Write(h) PROVE Unraced'
  <2>1. Unraced /\ rows' = rows /\ OthersSame(h) /\ scheduleHandler'[h] = C!NoHandler
    BY <1>1, <1>10 DEF C!Write, C!Goto, OthersSame
  <2>2. scheduleFile' \in {C!Whole(scheduleHandler[h].data), C!Torn}
    BY <1>10 DEF C!Write
  <2>3. Apart(scheduleFile'.rows)
    BY <1>e, <1>f, <2>1, <2>2 DEF C!Whole
  <2> QED BY <1>e, <1>f, <1>g, <2>1, <2>3, NoSave DEF OthersSame
<1>11. ASSUME C!Restart PROVE Unraced'
  <2>1. Unraced /\ rows' = scheduleFile.rows /\ scheduleFile' = scheduleFile /\ \A h \in Handlers : scheduleHandler'[h] = C!NoHandler
    BY <1>11 DEF C!Restart
  <2> QED BY <1>e, <1>f, <1>g, <2>1, NoSave
<1> QED BY <1>2, <1>3, <1>5, <1>6, <1>7, <1>8, <1>9, <1>10, <1>11 DEF C!ScheduleSteps, C!ScheduleRequests

LEMMA ScheduleKeeps == ScheduleFileInv /\ (C!ScheduleSteps \/ C!ScheduleRequests) => ScheduleFileInv'
<1> SUFFICES ASSUME ScheduleFileInv, C!ScheduleSteps \/ C!ScheduleRequests PROVE ScheduleFileInv'
  OBVIOUS
<1>1. scheduleLoaded /\ ScheduleTypes /\ Locked
  BY DEF ScheduleFileInv, C!ScheduleSteps, C!ScheduleRequests
<1>2. ScheduleTypes' /\ Locked'
  BY <1>1, ScheduleTypesKept, LockedKept
<1>3. scheduleLoaded' /\ ~mixed' => Unmixed'
  BY <1>1, UnmixedKept DEF ScheduleFileInv
<1>4. ~raced' => Unraced'
  BY <1>1, UnracedKept, SMTT(30) DEF ScheduleFileInv
<1>5. scheduleLoaded' \/ cut' \/ mixed'
  <2>1. CASE C!Restart
    <3>1. scheduleFile.torn => mixed \/ \E h \in Handlers : scheduleHandler[h].pc = "write"
      BY <1>1 DEF ScheduleFileInv, Unmixed
    <3> QED BY <2>1, <3>1 DEF C!Restart
  <2>2. CASE scheduleLoaded' = scheduleLoaded
    BY <1>1, <2>2
  <2> QED BY <2>1, <2>2 DEF C!ScheduleSteps, C!ScheduleRequests, C!Schedule, C!Create, C!UpdateStatus, C!UpdateRecordingState,
             C!updateField, C!Delete, C!ClearAndSave, C!Marshal, C!Truncate, C!Write
<1> QED BY <1>2, <1>3, <1>4, <1>5 DEF ScheduleFileInv

LEMMA ScheduleFileSound == ScheduleFileInv => C!LoadsUnlessCut /\ C!BookingsSaved /\ C!NoDoubleBooking
<1> SUFFICES ASSUME ScheduleFileInv PROVE C!LoadsUnlessCut /\ C!BookingsSaved /\ C!NoDoubleBooking
  OBVIOUS
<1>1. C!LoadsUnlessCut
  BY DEF ScheduleFileInv, C!LoadsUnlessCut
<1>2. C!BookingsSaved
  BY DEF ScheduleFileInv, C!BookingsSaved, Unmixed, C!Saving
<1>3. C!NoDoubleBooking
  BY DEF ScheduleFileInv, C!NoDoubleBooking, Unraced, Apart
<1> QED BY <1>1, <1>2, <1>3

-----------------------------------------------------------------------------
(***************************************************************************)
(* The HDHomeRun sources and their file (HdhrSources).  The file is never  *)
(* the one that is being written, because who opens the temporary file     *)
(* finds an inode that nobody has (FreeInode), and while no two saves      *)
(* overlap the temporary file is what the one save has written.            *)
(***************************************************************************)

SourceRows == [id : Nat, name : SourceNames \cup {None, "HDHomeRun"}, devices : Seq(Tuners)]
SourceFiles == [torn : BOOLEAN, rows : Seq(SourceRows)]
Changes == [pc : {"idle", "create", "update", "snap", "open", "write", "rename", "remove", "link"},
            todo : {None, "link", "auto"}, row : SourceRows, seen : Seq(SourceRows), snap : Seq(SourceRows),
            node : H!Inodes, alone : BOOLEAN]

HdhrTypes ==
  /\ hdhrSources \in Seq(SourceRows) /\ ids \in Nat
  /\ disk \in [file : H!Inodes \ {0}, tmp : H!Inodes] /\ content \in [H!Inodes -> SourceFiles]
  /\ hdhrHandler \in [Handlers -> Changes]
  /\ crossed \in BOOLEAN /\ hdhrLoaded \in BOOLEAN

\* The temporary file is never the file, and only who writes to an inode
\* knows it.
NodesApart ==
  /\ disk.tmp # disk.file
  /\ \A h \in Handlers : hdhrHandler[h].pc \notin {"write", "rename", "remove"} => hdhrHandler[h].node = 0

\* One save at a time: what it has written is in the temporary file, and what
\* it has not saved yet somebody else still has to take a snapshot of.
Uncrossed ==
  /\ ~content[disk.file].torn
  /\ \A g, h \in H!Saving : g = h
  /\ \A h \in Handlers :
       /\ hdhrHandler[h].pc # "remove"
       /\ hdhrHandler[h].pc \in {"write", "rename"} => disk.tmp # 0 /\ hdhrHandler[h].node = disk.tmp
       /\ hdhrHandler[h].pc = "write" => hdhrHandler[h].alone /\ content[disk.tmp] = H!Torn
       /\ hdhrHandler[h].pc = "rename" => content[disk.tmp] = H!Whole(hdhrHandler[h].snap)
  /\ \/ \E h \in Handlers : hdhrHandler[h].pc = "snap"
     \/ \E h \in H!Saving : hdhrHandler[h].snap = hdhrSources
     \/ H!Saving = {} /\ content[disk.file].rows = hdhrSources

HdhrInv == HdhrTypes /\ NodesApart /\ (~crossed => hdhrLoaded /\ Uncrossed)

LEMMA SameCardinality == \A set : H!Cardinality(set) = Cardinality(set)
  BY DEF H!Cardinality, Cardinality

LEMMA HdhrBasics ==
  /\ Cardinality(Handlers) \in Nat /\ H!Inodes = 0..(Cardinality(Handlers) + 1) /\ 0 \in H!Inodes /\ 1 \in H!Inodes
  /\ H!NoSource \in SourceRows
  /\ H!NoHandler \in Changes /\ H!NoHandler.pc = "idle" /\ H!NoHandler.node = 0
  /\ \A r \in Seq(SourceRows) : H!Whole(r) \in SourceFiles /\ ~H!Whole(r).torn /\ H!Whole(r).rows = r
  /\ H!Torn \in SourceFiles /\ H!Torn.torn
<1>1. Cardinality(Handlers) \in Nat
  BY FilesAssumption, FS_CardinalityType
<1>2. H!Inodes = 0..(Cardinality(Handlers) + 1) /\ 0 \in H!Inodes /\ 1 \in H!Inodes
  <2>1. H!Inodes = 0..(Cardinality(Handlers) + 1)
    BY SameCardinality DEF H!Inodes
  <2> QED BY <1>1, <2>1
<1>3. << >> \in Seq(SourceRows) /\ << >> \in Seq(Tuners)
  OBVIOUS
<1>4. H!NoSource \in SourceRows
  BY <1>3 DEF H!NoSource, SourceRows
<1>5. H!NoHandler \in Changes /\ H!NoHandler.pc = "idle" /\ H!NoHandler.node = 0
  BY <1>2, <1>3, <1>4 DEF H!NoHandler, Changes
<1>6. \A r \in Seq(SourceRows) : H!Whole(r) \in SourceFiles /\ ~H!Whole(r).torn /\ H!Whole(r).rows = r
  BY DEF H!Whole, SourceFiles
<1>7. H!Torn \in SourceFiles /\ H!Torn.torn
  BY <1>3 DEF H!Torn, SourceFiles
<1> QED BY <1>1, <1>2, <1>4, <1>5, <1>6, <1>7

LEMMA HdhrInit == H!HdhrInit => HdhrInv
<1> SUFFICES ASSUME H!HdhrInit PROVE HdhrInv
  OBVIOUS
<1>1. << >> \in Seq(SourceRows)
  OBVIOUS
<1>2. \A h \in Handlers : hdhrHandler[h] = H!NoHandler
  BY DEF H!HdhrInit
<1>3. /\ hdhrSources = << >> /\ ids = 0 /\ disk = [file |-> 1, tmp |-> 0] /\ content = [n \in H!Inodes |-> H!Whole(<< >>)]
      /\ hdhrHandler = [h \in Handlers |-> H!NoHandler] /\ crossed = FALSE /\ hdhrLoaded = TRUE
  BY DEF H!HdhrInit
<1>4. HdhrTypes
  <2>1. disk \in [file : H!Inodes \ {0}, tmp : H!Inodes]
    BY <1>3, HdhrBasics
  <2>2. content \in [H!Inodes -> SourceFiles] /\ hdhrHandler \in [Handlers -> Changes]
    BY <1>1, <1>3, HdhrBasics
  <2> QED BY <1>1, <1>3, <2>1, <2>2 DEF HdhrTypes
<1>5. NodesApart
  BY <1>2, <1>3, HdhrBasics DEF NodesApart
<1>6. Uncrossed
  BY <1>1, <1>2, <1>3, HdhrBasics DEF Uncrossed, H!Saving
<1> QED BY <1>3, <1>4, <1>5, <1>6 DEF HdhrInv

\* There is an inode that is neither the file nor anybody's, because who opens
\* the temporary file has none.
LEMMA FreeInode ==
  ASSUME HdhrTypes, NEW h \in Handlers, hdhrHandler[h].node = 0
  PROVE  \E n \in H!Inodes \ {0} : n \notin {disk.file} \cup {hdhrHandler[g].node : g \in Handlers}
<1> DEFINE N == Cardinality(Handlers)
           owner(n) == IF n = disk.file THEN h ELSE CHOOSE g \in Handlers : hdhrHandler[g].node = n
           f == [n \in 1..(N + 1) |-> owner(n)]
<1>1. N \in Nat /\ H!Inodes \ {0} = 1..(N + 1)
  BY HdhrBasics
<1> SUFFICES ASSUME \A n \in 1..(N + 1) : n = disk.file \/ \E g \in Handlers : hdhrHandler[g].node = n
             PROVE  FALSE
  BY <1>1
<1>2. \A n \in 1..(N + 1) : owner(n) \in Handlers /\ (n # disk.file => hdhrHandler[owner(n)].node = n)
  OBVIOUS
<1>3. f \in [1..(N + 1) -> Handlers] /\ \A n \in 1..(N + 1) : f[n] = owner(n)
  BY <1>2
<1>4. IsFiniteSet(1..(N + 1)) /\ Cardinality(1..(N + 1)) = N + 1
  BY <1>1, FS_Interval
<1>5. N < N + 1
  BY <1>1
<1> HIDE DEF f, N
<1>6. \A x, y \in 1..(N + 1) : f[x] = f[y] => x = y
  <2>1. \A x \in 1..(N + 1) : x # 0
    BY <1>1
  <2> QED BY <1>2, <1>3, <2>1
<1> DEFINE D == 1..(N + 1)
<1>7. f \in Injection(D, Handlers)
  BY <1>3, <1>6 DEF Injection, IsInjective
<1>8. Cardinality(D) <= Cardinality(Handlers)
  <2> HIDE DEF D
  <2> QED BY <1>7, FilesAssumption, FS_Injection
<1> QED BY <1>1, <1>4, <1>5, <1>8 DEF N

\* What a change of one handler leaves as it is.
HandlerIs(h, w) == hdhrHandler' = [hdhrHandler EXCEPT ![h] = w]

LEMMA HandlerKept ==
  ASSUME HdhrTypes, NEW h \in Handlers, NEW w \in Changes, HandlerIs(h, w)
  PROVE  hdhrHandler' \in [Handlers -> Changes] /\ hdhrHandler'[h] = w /\ \A g \in Handlers \ {h} : hdhrHandler'[g] = hdhrHandler[g]
  BY DEF HdhrTypes, HandlerIs

LEMMA Orders == ASSUME NEW found \in SUBSET Tuners, NEW order \in H!SetToSeqs(found) PROVE order \in Seq(Tuners)
<1>1. IsFiniteSet(found)
  BY FilesAssumption, FS_Subset
<1>2. Cardinality(found) \in Nat
  BY <1>1, FS_CardinalityType
<1>3. order \in [1..Cardinality(found) -> found]
  BY SameCardinality DEF H!SetToSeqs
<1>4. order \in [1..Cardinality(found) -> Tuners]
  BY <1>3
<1> QED BY <1>2, <1>4

\* The requests, before the store or the disk is touched: what they become.
Asks(h) ==
  \/ \E n \in SourceNames : H!CreateSource(h, n)
  \/ H!autoLinkDevices(h) \/ H!CreateFails(h) \/ H!UpdateFails(h)
  \/ \E d \in Tuners : H!AddDevice(h, d)

LEMMA AsksAre ==
  ASSUME HdhrTypes, NEW h \in Handlers, Asks(h)
  PROVE  /\ UNCHANGED <<hdhrSources, ids, disk, content, crossed, hdhrLoaded>>
         /\ hdhrHandler[h].pc \in {"idle", "link", "create", "update"}
         /\ \E w \in Changes : /\ HandlerIs(h, w) /\ w.pc \in {"idle", "create", "update"}
                               /\ w.node \in {0, hdhrHandler[h].node}
<1>0. hdhrHandler[h] \in Changes
  BY DEF HdhrTypes
<1>1. ASSUME NEW n \in SourceNames, H!CreateSource(h, n) PROVE \E w \in Changes : HandlerIs(h, w) /\ w.pc = "create" /\ w.node = 0
  <2>1. [H!NoSource EXCEPT !.name = n] \in SourceRows
    BY HdhrBasics DEF SourceRows
  <2> DEFINE w == [H!NoHandler EXCEPT !.pc = "create", !.todo = "link", !.row = [H!NoSource EXCEPT !.name = n]]
  <2>2. w \in Changes /\ w.pc = "create" /\ w.node = 0
    BY <2>1, HdhrBasics DEF Changes
  <2> QED BY <1>1, <2>2 DEF H!CreateSource, H!Goto, HandlerIs
<1>2. ASSUME H!autoLinkDevices(h) PROVE \E w \in Changes : HandlerIs(h, w) /\ w.pc \in {"idle", "update"} /\ w.node = hdhrHandler[h].node
  <2>0. PICK found \in SUBSET (Tuners \ H!Linked) : \E order \in H!SetToSeqs(found) :
          HandlerIs(h, [hdhrHandler[h] EXCEPT !.pc = IF found = {} THEN "idle" ELSE "update", !.todo = "auto", !.row.devices = order])
    BY <1>2 DEF H!autoLinkDevices, H!Goto, HandlerIs
  <2>1. PICK order \in H!SetToSeqs(found) :
          HandlerIs(h, [hdhrHandler[h] EXCEPT !.pc = IF found = {} THEN "idle" ELSE "update", !.todo = "auto", !.row.devices = order])
    BY <2>0
  <2>2. order \in Seq(Tuners)
    BY Orders
  <2>3. [hdhrHandler[h].row EXCEPT !.devices = order] \in SourceRows
    BY <1>0, <2>2 DEF Changes, SourceRows
  <2> DEFINE w == [hdhrHandler[h] EXCEPT !.pc = IF found = {} THEN "idle" ELSE "update", !.todo = "auto", !.row.devices = order]
  <2>4. w = [hdhrHandler[h] EXCEPT !.pc = IF found = {} THEN "idle" ELSE "update", !.todo = "auto", !.row = [hdhrHandler[h].row EXCEPT !.devices = order]]
    BY <1>0 DEF Changes
  <2>5. w \in Changes /\ w.pc \in {"idle", "update"} /\ w.node = hdhrHandler[h].node
    BY <1>0, <2>3, <2>4 DEF Changes
  <2> QED BY <2>1, <2>5
<1>3. ASSUME NEW d \in Tuners, H!AddDevice(h, d) PROVE \E w \in Changes : HandlerIs(h, w) /\ w.pc \in {"create", "update"} /\ w.node = 0
  <2>1. CASE hdhrSources = << >>
    <3>1. << d >> \in Seq(Tuners)
      OBVIOUS
    <3>2. [H!NoSource EXCEPT !.name = "HDHomeRun", !.devices = << d >>] \in SourceRows
      BY <3>1, HdhrBasics DEF SourceRows
    <3> DEFINE w == [H!NoHandler EXCEPT !.pc = "create", !.row = [H!NoSource EXCEPT !.name = "HDHomeRun", !.devices = << d >>]]
    <3>3. w \in Changes /\ w.pc = "create" /\ w.node = 0
      BY <3>2, HdhrBasics DEF Changes
    <3> QED BY <1>3, <2>1, <3>3 DEF H!AddDevice, HandlerIs
  <2>2. CASE hdhrSources # << >>
    <3>1. hdhrSources \in Seq(SourceRows) /\ hdhrSources[1] \in SourceRows
      BY <2>2 DEF HdhrTypes
    <3>2. Append(hdhrSources[1].devices, d) \in Seq(Tuners)
      BY <3>1 DEF SourceRows
    <3>3. [hdhrSources[1] EXCEPT !.devices = Append(@, d)] \in SourceRows
      BY <3>1, <3>2 DEF SourceRows
    <3> DEFINE w == [H!NoHandler EXCEPT !.pc = "update", !.seen = hdhrSources, !.row = [hdhrSources[1] EXCEPT !.devices = Append(@, d)]]
    <3>4. w \in Changes /\ w.pc = "update" /\ w.node = 0
      BY <3>1, <3>3, HdhrBasics DEF Changes
    <3> QED BY <1>3, <2>2, <3>4 DEF H!AddDevice, HandlerIs
  <2> QED BY <2>1, <2>2
<1>4. ASSUME H!CreateFails(h) \/ H!UpdateFails(h) PROVE HandlerIs(h, H!NoHandler)
  BY <1>4, SMTT(40) DEF H!CreateFails, H!UpdateFails, H!Goto, HandlerIs
<1>5. /\ UNCHANGED <<hdhrSources, ids, disk, content, crossed, hdhrLoaded>>
      /\ hdhrHandler[h].pc \in {"idle", "link", "create", "update"}
  BY Zenon DEF Asks, H!CreateSource, H!autoLinkDevices, H!CreateFails, H!UpdateFails, H!AddDevice, H!Goto
<1> QED BY <1>1, <1>2, <1>3, <1>4, <1>5, HdhrBasics DEF Asks

\* The changes of the store.
Changing(h) == H!Create(h) \/ H!Update(h) \/ \E i \in 1..MaxSources : H!Delete(h, i)

LEMMA ChangingIs ==
  ASSUME HdhrTypes, NEW h \in Handlers, Changing(h)
  PROVE  /\ UNCHANGED <<disk, content, crossed, hdhrLoaded>> /\ hdhrSources' \in Seq(SourceRows) /\ ids' \in Nat
         /\ hdhrHandler[h].pc \in {"idle", "create", "update"}
         /\ \E w \in Changes : HandlerIs(h, w) /\ w.pc = "snap" /\ w.node \in {0, hdhrHandler[h].node}
<1>0. hdhrHandler[h] \in Changes /\ hdhrSources \in Seq(SourceRows) /\ ids \in Nat
  BY DEF HdhrTypes
<1>1. ASSUME H!Create(h)
      PROVE  hdhrSources' \in Seq(SourceRows) /\ \E w \in Changes : HandlerIs(h, w) /\ w.pc = "snap" /\ w.node = hdhrHandler[h].node
  <2>1. [hdhrHandler[h].row EXCEPT !.id = ids + 1] \in SourceRows
    <3>1. hdhrHandler[h].row \in SourceRows /\ ids + 1 \in Nat
      BY <1>0 DEF Changes
    <3> QED BY <3>1 DEF SourceRows
  <2>2. hdhrSources' = Append(hdhrSources, [hdhrHandler[h].row EXCEPT !.id = ids + 1])
    BY <1>1 DEF H!Create
  <2>3. hdhrSources' \in Seq(SourceRows)
    BY <1>0, <2>1, <2>2
  <2> DEFINE w == [hdhrHandler[h] EXCEPT !.pc = "snap", !.row.id = ids + 1, !.seen = hdhrSources']
  <2>4. w = [hdhrHandler[h] EXCEPT !.pc = "snap", !.row = [hdhrHandler[h].row EXCEPT !.id = ids + 1], !.seen = hdhrSources']
    BY <1>0 DEF Changes
  <2>5. w \in Changes /\ w.pc = "snap" /\ w.node = hdhrHandler[h].node
    BY <1>0, <2>1, <2>3, <2>4 DEF Changes
  <2> QED BY <1>1, <2>3, <2>5 DEF H!Create, H!Goto, HandlerIs
<1>2. ASSUME H!Update(h)
      PROVE  hdhrSources' \in Seq(SourceRows) /\ \E w \in Changes : HandlerIs(h, w) /\ w.pc = "snap" /\ w.node = hdhrHandler[h].node
  <2>1. hdhrHandler[h].row \in SourceRows
    BY <1>0 DEF Changes
  <2>2. hdhrSources' = [i \in DOMAIN hdhrSources |-> IF hdhrSources[i].id = hdhrHandler[h].row.id THEN hdhrHandler[h].row ELSE hdhrSources[i]]
    BY <1>2 DEF H!Update
  <2>3. hdhrSources' \in [1..Len(hdhrSources) -> SourceRows] /\ Len(hdhrSources) \in Nat
    BY <1>0, <2>1, <2>2
  <2> DEFINE w == [hdhrHandler[h] EXCEPT !.pc = "snap"]
  <2>4. w \in Changes /\ w.pc = "snap" /\ w.node = hdhrHandler[h].node
    BY <1>0 DEF Changes
  <2>5. hdhrSources' \in Seq(SourceRows)
    BY <2>3
  <2>6. HandlerIs(h, w)
    BY <1>2 DEF H!Update, H!Goto, HandlerIs
  <2> QED BY <2>4, <2>5, <2>6
<1>3. ASSUME NEW i \in 1..MaxSources, H!Delete(h, i)
      PROVE  hdhrSources' \in Seq(SourceRows) /\ \E w \in Changes : HandlerIs(h, w) /\ w.pc = "snap" /\ w.node = 0
  <2>1. i \in DOMAIN hdhrSources /\ hdhrSources' = H!RemoveAt(hdhrSources, i) /\ HandlerIs(h, [H!NoHandler EXCEPT !.pc = "snap"])
    BY <1>3 DEF H!Delete, H!Goto, HandlerIs
  <2>2. hdhrSources' \in Seq(SourceRows)
    BY <1>0, <2>1, Removed DEF H!RemoveAt
  <2>3. [H!NoHandler EXCEPT !.pc = "snap"] \in Changes /\ [H!NoHandler EXCEPT !.pc = "snap"].node = 0 /\ [H!NoHandler EXCEPT !.pc = "snap"].pc = "snap"
    BY HdhrBasics DEF Changes
  <2> QED BY <2>1, <2>2, <2>3
<1>4. /\ UNCHANGED <<disk, content, crossed, hdhrLoaded>> /\ ids' \in Nat
      /\ hdhrHandler[h].pc \in {"idle", "create", "update"}
  BY <1>0 DEF Changing, H!Create, H!Update, H!Delete, H!Goto
<1> QED BY <1>1, <1>2, <1>3, <1>4 DEF Changing

\* The steps of a save.
SavesOn(h) ==
  \/ H!Snapshot(h) \/ H!OpenTmp(h) \/ H!Write(h) \/ H!Rename(h) \/ H!RenameFails(h) \/ H!RemoveTmp(h)

HdhrSteps ==
  hdhrLoaded /\ \/ \E h \in Handlers : Asks(h) \/ Changing(h) \/ SavesOn(h)
                \/ H!Restart

LEMMA StepsAre == H!HdhrSteps \/ H!HdhrRequests <=> HdhrSteps
  BY DEF H!HdhrSteps, H!HdhrRequests, HdhrSteps, Asks, Changing, SavesOn

LEMMA SnapshotIs ==
  ASSUME HdhrTypes, NEW h \in Handlers, H!Snapshot(h)
  PROVE  /\ UNCHANGED <<hdhrSources, ids, disk, content, hdhrLoaded>>
         /\ crossed' = (crossed \/ H!Saving # {})
         /\ hdhrHandler[h].pc = "snap"
         /\ hdhrHandler' \in [Handlers -> Changes] /\ \A g \in Handlers \ {h} : hdhrHandler'[g] = hdhrHandler[g]
         /\ hdhrHandler'[h].pc = "open" /\ hdhrHandler'[h].snap = hdhrSources /\ hdhrHandler'[h].node = hdhrHandler[h].node
<1> DEFINE w == [hdhrHandler[h] EXCEPT !.pc = "open", !.snap = hdhrSources]
<1>1. hdhrHandler[h] \in Changes /\ hdhrSources \in Seq(SourceRows)
  BY DEF HdhrTypes
<1>2. w \in Changes /\ w.pc = "open" /\ w.snap = hdhrSources /\ w.node = hdhrHandler[h].node
  BY <1>1 DEF Changes
<1>3. HandlerIs(h, w) /\ hdhrHandler[h].pc = "snap" /\ crossed' = (crossed \/ H!Saving # {}) /\ UNCHANGED <<hdhrSources, ids, disk, content, hdhrLoaded>>
  BY DEF H!Snapshot, H!Goto, HandlerIs
<1> HIDE DEF w
<1> QED BY <1>2, <1>3, HandlerKept

LEMMA OpenIs ==
  ASSUME HdhrTypes, NodesApart, NEW h \in Handlers, H!OpenTmp(h)
  PROVE  /\ UNCHANGED <<hdhrSources, ids, crossed, hdhrLoaded>>
         /\ hdhrHandler[h].pc = "open"
         /\ disk' \in [file : H!Inodes \ {0}, tmp : H!Inodes] /\ disk'.file = disk.file /\ disk'.tmp # disk.file /\ disk'.tmp # 0
         /\ content' \in [H!Inodes -> SourceFiles] /\ content'[disk'.tmp] = H!Torn /\ content'[disk.file] = content[disk.file]
         /\ hdhrHandler' \in [Handlers -> Changes]
         /\ \A g \in Handlers \ {h} : hdhrHandler'[g].pc = hdhrHandler[g].pc /\ hdhrHandler'[g].snap = hdhrHandler[g].snap /\ hdhrHandler'[g].node = hdhrHandler[g].node
         /\ hdhrHandler'[h].pc = "write" /\ hdhrHandler'[h].alone /\ hdhrHandler'[h].snap = hdhrHandler[h].snap /\ hdhrHandler'[h].node = disk'.tmp
<1> DEFINE used2 == {disk.file} \cup {hdhrHandler[g].node : g \in Handlers}
           node == IF disk.tmp # 0 THEN disk.tmp ELSE CHOOSE n \in H!Inodes \ {0} : n \notin used2
           w(g) == IF g = h THEN [hdhrHandler[h] EXCEPT !.pc = "write", !.node = node, !.alone = TRUE]
                   ELSE IF hdhrHandler[g].node = node THEN [hdhrHandler[g] EXCEPT !.alone = FALSE] ELSE hdhrHandler[g]
<1>1. /\ hdhrHandler[h].pc = "open" /\ hdhrHandler' = [g \in Handlers |-> w(g)]
      /\ disk' = [disk EXCEPT !.tmp = node] /\ content' = [content EXCEPT ![node] = H!Torn]
      /\ UNCHANGED <<hdhrSources, ids, crossed, hdhrLoaded>>
  BY DEF H!OpenTmp
<1>2. /\ disk \in [file : H!Inodes \ {0}, tmp : H!Inodes] /\ content \in [H!Inodes -> SourceFiles]
      /\ \A g \in Handlers : hdhrHandler[g] \in Changes
  BY DEF HdhrTypes
<1>3. hdhrHandler[h].node = 0
  BY <1>1 DEF NodesApart
<1>4. node \in H!Inodes /\ node # 0 /\ node # disk.file
  <2>1. CASE disk.tmp # 0
    BY <1>2, <2>1 DEF NodesApart
  <2>2. CASE disk.tmp = 0
    <3>1. \E n \in H!Inodes \ {0} : n \notin used2
      BY <1>3, FreeInode
    <3> HIDE DEF used2
    <3>2. node \in H!Inodes \ {0} /\ node \notin used2
      BY <2>2, <3>1
    <3> QED BY <3>2 DEF used2
  <2> QED BY <2>1, <2>2
<1> HIDE DEF node
<1>5. /\ disk' \in [file : H!Inodes \ {0}, tmp : H!Inodes] /\ disk'.file = disk.file /\ disk'.tmp = node
      /\ content' \in [H!Inodes -> SourceFiles] /\ content'[node] = H!Torn /\ content'[disk.file] = content[disk.file]
  BY <1>1, <1>2, <1>4, HdhrBasics
<1>6. /\ w(h) \in Changes /\ w(h).pc = "write" /\ w(h).alone /\ w(h).snap = hdhrHandler[h].snap /\ w(h).node = node
  BY <1>2, <1>4 DEF Changes
<1>7. \A g \in Handlers \ {h} : w(g) \in Changes /\ w(g).pc = hdhrHandler[g].pc /\ w(g).snap = hdhrHandler[g].snap /\ w(g).node = hdhrHandler[g].node
  BY <1>2, ZenonT(60) DEF Changes
<1>8. \A g \in Handlers : w(g) \in Changes /\ hdhrHandler'[g] = w(g)
  BY <1>1, <1>6, <1>7
<1>9. hdhrHandler' \in [Handlers -> Changes]
  BY <1>1, <1>8
<1> HIDE DEF w
<1> QED BY <1>1, <1>4, <1>5, <1>6, <1>7, <1>8, <1>9

LEMMA WriteIs ==
  ASSUME HdhrTypes, NEW h \in Handlers, H!Write(h)
  PROVE  /\ UNCHANGED <<hdhrSources, ids, disk, crossed, hdhrLoaded>>
         /\ hdhrHandler[h].pc = "write"
         /\ content' \in [H!Inodes -> SourceFiles] /\ \A n \in H!Inodes \ {hdhrHandler[h].node} : content'[n] = content[n]
         /\ hdhrHandler[h].alone /\ content[hdhrHandler[h].node] = H!Torn => content'[hdhrHandler[h].node] = H!Whole(hdhrHandler[h].snap)
         /\ hdhrHandler' \in [Handlers -> Changes] /\ \A g \in Handlers \ {h} : hdhrHandler'[g] = hdhrHandler[g]
         /\ hdhrHandler'[h].pc = "rename" /\ hdhrHandler'[h].snap = hdhrHandler[h].snap /\ hdhrHandler'[h].node = hdhrHandler[h].node
<1> DEFINE w == [hdhrHandler[h] EXCEPT !.pc = "rename"]  node == hdhrHandler[h].node
<1>1. hdhrHandler[h] \in Changes /\ content \in [H!Inodes -> SourceFiles]
  BY DEF HdhrTypes
<1>2. w \in Changes /\ w.pc = "rename" /\ w.snap = hdhrHandler[h].snap /\ w.node = hdhrHandler[h].node
  BY <1>1 DEF Changes
<1>3. /\ hdhrHandler[h].pc = "write" /\ UNCHANGED <<hdhrSources, ids, disk, crossed, hdhrLoaded>>
      /\ hdhrHandler' = [hdhrHandler EXCEPT ![h].pc = "rename"]
  BY DEF H!Write
<1>4. PICK c \in {H!Whole(hdhrHandler[h].snap), H!Torn} :
        /\ content' = [content EXCEPT ![node] = c]
        /\ hdhrHandler[h].alone /\ content[node] = H!Torn => c = H!Whole(hdhrHandler[h].snap)
  BY DEF H!Write
<1>5. HandlerIs(h, w)
  BY <1>3 DEF HandlerIs
<1>6. c \in SourceFiles /\ node \in H!Inodes
  BY <1>1, HdhrBasics DEF Changes
<1> HIDE DEF w
<1>7. hdhrHandler' \in [Handlers -> Changes] /\ hdhrHandler'[h] = w /\ \A g \in Handlers \ {h} : hdhrHandler'[g] = hdhrHandler[g]
  BY <1>2, <1>5, HandlerKept
<1>8. content' \in [H!Inodes -> SourceFiles] /\ content'[node] = c /\ \A n \in H!Inodes \ {node} : content'[n] = content[n]
  BY <1>1, <1>4, <1>6
<1> QED BY <1>2, <1>3, <1>4, <1>7, <1>8

LEMMA RenameIs ==
  ASSUME HdhrTypes, NodesApart, NEW h \in Handlers, H!Rename(h)
  PROVE  /\ UNCHANGED <<hdhrSources, ids, content, crossed, hdhrLoaded>>
         /\ hdhrHandler[h].pc = "rename" /\ disk.tmp # 0
         /\ disk' = [file |-> disk.tmp, tmp |-> 0] /\ disk' \in [file : H!Inodes \ {0}, tmp : H!Inodes]
         /\ hdhrHandler' \in [Handlers -> Changes] /\ \A g \in Handlers \ {h} : hdhrHandler'[g] = hdhrHandler[g]
         /\ hdhrHandler'[h].pc \in {"link", "idle"} /\ hdhrHandler'[h].node = 0
<1>1. hdhrHandler[h] \in Changes /\ disk \in [file : H!Inodes \ {0}, tmp : H!Inodes]
  BY DEF HdhrTypes
<1>2. [hdhrHandler[h] EXCEPT !.pc = "link", !.node = 0] \in Changes
  BY <1>1, HdhrBasics DEF Changes
<1>3. H!After(h) \in Changes /\ H!After(h).pc \in {"link", "idle"} /\ H!After(h).node = 0
  <2>1. CASE hdhrHandler[h].todo = "link"
    BY <1>1, <1>2, <2>1 DEF H!After, Changes
  <2>2. CASE hdhrHandler[h].todo # "link"
    BY <2>2, HdhrBasics DEF H!After
  <2> QED BY <2>1, <2>2
<1>4. /\ HandlerIs(h, H!After(h)) /\ hdhrHandler[h].pc = "rename" /\ disk.tmp # 0 /\ disk' = [file |-> disk.tmp, tmp |-> 0]
      /\ UNCHANGED <<hdhrSources, ids, content, crossed, hdhrLoaded>>
  BY DEF H!Rename, H!Goto, HandlerIs
<1>5. disk' \in [file : H!Inodes \ {0}, tmp : H!Inodes]
  BY <1>1, <1>4, HdhrBasics
<1> QED BY <1>3, <1>4, <1>5, HandlerKept

LEMMA GivesUpIs ==
  ASSUME HdhrTypes, NEW h \in Handlers, H!RenameFails(h) \/ H!RemoveTmp(h)
  PROVE  /\ UNCHANGED <<hdhrSources, ids, content, crossed, hdhrLoaded>>
         /\ (hdhrHandler[h].pc = "rename" /\ disk.tmp = 0) \/ hdhrHandler[h].pc = "remove"
         /\ disk' \in [file : H!Inodes \ {0}, tmp : H!Inodes] /\ disk'.file = disk.file /\ disk'.tmp \in {0, disk.tmp}
         /\ hdhrHandler' \in [Handlers -> Changes] /\ \A g \in Handlers \ {h} : hdhrHandler'[g] = hdhrHandler[g]
         /\ hdhrHandler'[h].pc = "remove" \/ hdhrHandler'[h].node = 0
<1>1. hdhrHandler[h] \in Changes /\ disk \in [file : H!Inodes \ {0}, tmp : H!Inodes]
  BY DEF HdhrTypes
<1>2. [hdhrHandler[h] EXCEPT !.pc = "remove"] \in Changes /\ [hdhrHandler[h] EXCEPT !.pc = "remove"].pc = "remove"
  BY <1>1 DEF Changes
<1>3. PICK w \in Changes : HandlerIs(h, w) /\ (w.pc = "remove" \/ w.node = 0)
  BY <1>2, HdhrBasics DEF H!RenameFails, H!RemoveTmp, H!Goto, HandlerIs
<1>4. disk' \in [file : H!Inodes \ {0}, tmp : H!Inodes] /\ disk'.file = disk.file /\ disk'.tmp \in {0, disk.tmp}
  BY <1>1, HdhrBasics DEF H!RenameFails, H!RemoveTmp
<1>5. /\ UNCHANGED <<hdhrSources, ids, content, crossed, hdhrLoaded>>
      /\ (hdhrHandler[h].pc = "rename" /\ disk.tmp = 0) \/ hdhrHandler[h].pc = "remove"
  BY DEF H!RenameFails, H!RemoveTmp, H!Goto
<1> QED BY <1>3, <1>4, <1>5, HandlerKept

LEMMA RestartIs ==
  ASSUME HdhrTypes, H!Restart
  PROVE  /\ UNCHANGED <<ids, disk, content>> /\ \A h \in Handlers : hdhrHandler'[h] = H!NoHandler
         /\ hdhrHandler' \in [Handlers -> Changes]
         /\ hdhrLoaded' = ~content[disk.file].torn /\ hdhrLoaded' \in BOOLEAN
         /\ hdhrSources' = content[disk.file].rows /\ hdhrSources' \in Seq(SourceRows)
         /\ crossed' = (crossed /\ content[disk.file].torn) /\ crossed' \in BOOLEAN
<1>1. content[disk.file] \in SourceFiles
  BY DEF HdhrTypes
<1>2. /\ UNCHANGED <<ids, disk, content>> /\ hdhrHandler' = [h \in Handlers |-> H!NoHandler] /\ hdhrLoaded' = ~content[disk.file].torn
      /\ hdhrSources' = content[disk.file].rows /\ crossed' = (crossed /\ content[disk.file].torn)
  BY DEF H!Restart
<1>3. hdhrSources' \in Seq(SourceRows)
  BY <1>1, <1>2 DEF SourceFiles
<1> QED BY <1>2, <1>3, HdhrBasics

LEMMA HdhrTypesKept == HdhrTypes /\ NodesApart /\ HdhrSteps => HdhrTypes' /\ NodesApart'
<1> SUFFICES ASSUME HdhrTypes, NodesApart, HdhrSteps PROVE HdhrTypes' /\ NodesApart'
  OBVIOUS
<1>1. ASSUME NEW h \in Handlers, Asks(h) \/ Changing(h) PROVE HdhrTypes' /\ NodesApart'
  <2>1. /\ UNCHANGED <<disk, content, crossed, hdhrLoaded>> /\ hdhrSources' \in Seq(SourceRows) /\ ids' \in Nat
        /\ hdhrHandler[h].pc \in {"idle", "link", "create", "update"}
    BY <1>1, AsksAre, ChangingIs DEF HdhrTypes
  <2>2. PICK w \in Changes : HandlerIs(h, w) /\ w.pc \in {"idle", "create", "update", "snap"} /\ w.node \in {0, hdhrHandler[h].node}
    BY <1>1, AsksAre, ChangingIs
  <2>3. hdhrHandler' \in [Handlers -> Changes] /\ hdhrHandler'[h] = w /\ \A g \in Handlers \ {h} : hdhrHandler'[g] = hdhrHandler[g]
    BY <2>2, HandlerKept
  <2>4. hdhrHandler[h].node = 0
    BY <2>1 DEF NodesApart
  <2>5. HdhrTypes'
    BY <2>1, <2>3 DEF HdhrTypes
  <2>6. NodesApart'
    BY <2>1, <2>2, <2>3, <2>4 DEF NodesApart
  <2> QED BY <2>5, <2>6
<1>2. ASSUME NEW h \in Handlers, H!Snapshot(h) PROVE HdhrTypes' /\ NodesApart'
  <2>1. HdhrTypes'
    BY <1>2, SnapshotIs DEF HdhrTypes
  <2>2. NodesApart'
    BY <1>2, SnapshotIs DEF NodesApart
  <2> QED BY <2>1, <2>2
<1>3. ASSUME NEW h \in Handlers, H!OpenTmp(h) PROVE HdhrTypes' /\ NodesApart'
  <2>1. HdhrTypes'
    BY <1>3, OpenIs DEF HdhrTypes
  <2>2. NodesApart'
    BY <1>3, OpenIs DEF NodesApart
  <2> QED BY <2>1, <2>2
<1>4. ASSUME NEW h \in Handlers, H!Write(h) PROVE HdhrTypes' /\ NodesApart'
  <2>1. HdhrTypes'
    BY <1>4, WriteIs DEF HdhrTypes
  <2>2. NodesApart'
    BY <1>4, WriteIs DEF NodesApart
  <2> QED BY <2>1, <2>2
<1>5. ASSUME NEW h \in Handlers, H!Rename(h) PROVE HdhrTypes' /\ NodesApart'
  <2>1. HdhrTypes'
    BY <1>5, RenameIs DEF HdhrTypes
  <2>2. NodesApart'
    BY <1>5, RenameIs DEF NodesApart
  <2> QED BY <2>1, <2>2
<1>6. ASSUME NEW h \in Handlers, H!RenameFails(h) \/ H!RemoveTmp(h) PROVE HdhrTypes' /\ NodesApart'
  <2>1. HdhrTypes'
    BY <1>6, GivesUpIs DEF HdhrTypes
  <2>2. disk'.tmp # disk'.file
    BY <1>6, GivesUpIs DEF NodesApart, HdhrTypes
  <2>3. NodesApart'
    BY <1>6, <2>2, GivesUpIs DEF NodesApart
  <2> QED BY <2>1, <2>3
<1>7. ASSUME H!Restart PROVE HdhrTypes' /\ NodesApart'
  <2>1. HdhrTypes'
    BY <1>7, RestartIs DEF HdhrTypes
  <2>2. NodesApart'
    BY <1>7, RestartIs, HdhrBasics DEF NodesApart
  <2> QED BY <2>1, <2>2
<1> QED BY <1>1, <1>2, <1>3, <1>4, <1>5, <1>6, <1>7 DEF HdhrSteps, SavesOn

LEMMA UncrossedKept ==
  ASSUME HdhrTypes, NodesApart, ~crossed => Uncrossed, HdhrSteps, ~crossed'
  PROVE  hdhrLoaded' /\ Uncrossed'
<1>1. ASSUME NEW h \in Handlers, Asks(h) PROVE hdhrLoaded' /\ Uncrossed'
  <2>1. /\ UNCHANGED <<hdhrSources, disk, content, crossed, hdhrLoaded>>
        /\ hdhrHandler[h].pc \in {"idle", "link", "create", "update"}
    BY <1>1, AsksAre
  <2>2. PICK w \in Changes : HandlerIs(h, w) /\ w.pc \in {"idle", "create", "update"}
    BY <1>1, AsksAre
  <2>3. hdhrHandler'[h] = w /\ \A g \in Handlers \ {h} : hdhrHandler'[g] = hdhrHandler[g]
    BY <2>2, HandlerKept
  <2>4. Uncrossed /\ hdhrLoaded
    BY <2>1 DEF HdhrSteps
  <2>5. H!Saving' = H!Saving /\ h \notin H!Saving
    BY <2>1, <2>2, <2>3 DEF H!Saving
  <2> QED BY <2>1, <2>2, <2>3, <2>4, <2>5 DEF Uncrossed, H!Saving
<1>2. ASSUME NEW h \in Handlers, Changing(h) PROVE hdhrLoaded' /\ Uncrossed'
  <2>1. /\ UNCHANGED <<disk, content, crossed, hdhrLoaded>>
        /\ hdhrHandler[h].pc \in {"idle", "create", "update"}
    BY <1>2, ChangingIs
  <2>2. PICK w \in Changes : HandlerIs(h, w) /\ w.pc = "snap"
    BY <1>2, ChangingIs
  <2>3. hdhrHandler'[h] = w /\ \A g \in Handlers \ {h} : hdhrHandler'[g] = hdhrHandler[g]
    BY <2>2, HandlerKept
  <2>4. Uncrossed /\ hdhrLoaded
    BY <2>1 DEF HdhrSteps
  <2>5. H!Saving' = H!Saving /\ h \notin H!Saving
    BY <2>1, <2>2, <2>3 DEF H!Saving
  <2> QED BY <2>1, <2>2, <2>3, <2>4, <2>5 DEF Uncrossed, H!Saving
<1>3. ASSUME NEW h \in Handlers, H!Snapshot(h) PROVE hdhrLoaded' /\ Uncrossed'
  <2>1. /\ UNCHANGED <<hdhrSources, disk, content, hdhrLoaded>> /\ ~crossed /\ H!Saving = {} /\ hdhrHandler[h].pc = "snap"
        /\ \A g \in Handlers \ {h} : hdhrHandler'[g] = hdhrHandler[g]
        /\ hdhrHandler'[h].pc = "open" /\ hdhrHandler'[h].snap = hdhrSources
    BY <1>3, SnapshotIs DEF HdhrTypes
  <2>2. Uncrossed /\ hdhrLoaded
    BY <2>1 DEF HdhrSteps
  <2>3. H!Saving' = {h}
    BY <2>1 DEF H!Saving
  <2> QED BY <2>1, <2>2, <2>3 DEF Uncrossed, H!Saving
\* The one who saves goes on; the others do not.
<1>4. ASSUME NEW h \in Handlers, hdhrHandler[h].pc \in {"open", "write", "rename", "remove"}, ~crossed
      PROVE  Uncrossed /\ hdhrLoaded /\ H!Saving = {h} /\ \A g \in Handlers \ {h} : hdhrHandler[g].pc \notin {"open", "write", "rename", "remove"}
  BY <1>4 DEF Uncrossed, H!Saving, HdhrSteps
<1>5. ASSUME NEW h \in Handlers, H!OpenTmp(h) PROVE hdhrLoaded' /\ Uncrossed'
  <2>1. /\ UNCHANGED <<hdhrSources, crossed, hdhrLoaded>> /\ hdhrHandler[h].pc = "open"
        /\ disk'.file = disk.file /\ disk'.tmp # 0
        /\ content'[disk'.tmp] = H!Torn /\ content'[disk.file] = content[disk.file]
        /\ \A g \in Handlers \ {h} : hdhrHandler'[g].pc = hdhrHandler[g].pc /\ hdhrHandler'[g].snap = hdhrHandler[g].snap /\ hdhrHandler'[g].node = hdhrHandler[g].node
        /\ hdhrHandler'[h].pc = "write" /\ hdhrHandler'[h].alone /\ hdhrHandler'[h].snap = hdhrHandler[h].snap /\ hdhrHandler'[h].node = disk'.tmp
    BY <1>5, OpenIs
  <2>2. Uncrossed /\ hdhrLoaded /\ H!Saving = {h} /\ \A g \in Handlers \ {h} : hdhrHandler[g].pc \notin {"open", "write", "rename", "remove"}
    BY <1>4, <2>1
  <2>3. H!Saving' = {h}
    BY <2>1, <2>2 DEF H!Saving
  <2> QED BY <2>1, <2>2, <2>3 DEF Uncrossed
<1>6. ASSUME NEW h \in Handlers, H!Write(h) PROVE hdhrLoaded' /\ Uncrossed'
  <2>1. /\ UNCHANGED <<hdhrSources, disk, crossed, hdhrLoaded>> /\ hdhrHandler[h].pc = "write"
        /\ \A n \in H!Inodes \ {hdhrHandler[h].node} : content'[n] = content[n]
        /\ hdhrHandler[h].alone /\ content[hdhrHandler[h].node] = H!Torn => content'[hdhrHandler[h].node] = H!Whole(hdhrHandler[h].snap)
        /\ \A g \in Handlers \ {h} : hdhrHandler'[g] = hdhrHandler[g]
        /\ hdhrHandler'[h].pc = "rename" /\ hdhrHandler'[h].snap = hdhrHandler[h].snap /\ hdhrHandler'[h].node = hdhrHandler[h].node
    BY <1>6, WriteIs
  <2>2. Uncrossed /\ hdhrLoaded /\ H!Saving = {h} /\ \A g \in Handlers \ {h} : hdhrHandler[g].pc \notin {"open", "write", "rename", "remove"}
    BY <1>4, <2>1
  <2>3. disk.tmp # 0 /\ hdhrHandler[h].node = disk.tmp /\ content'[disk.tmp] = H!Whole(hdhrHandler[h].snap)
    BY <2>1, <2>2 DEF Uncrossed
  <2>4. content'[disk.file] = content[disk.file]
    BY <2>1, <2>3 DEF NodesApart, HdhrTypes
  <2>5. H!Saving' = {h}
    BY <2>1, <2>2 DEF H!Saving
  <2> QED BY <2>1, <2>2, <2>3, <2>4, <2>5 DEF Uncrossed
<1>7. ASSUME NEW h \in Handlers, H!Rename(h) PROVE hdhrLoaded' /\ Uncrossed'
  <2>1. /\ UNCHANGED <<hdhrSources, content, crossed, hdhrLoaded>> /\ hdhrHandler[h].pc = "rename"
        /\ disk' = [file |-> disk.tmp, tmp |-> 0]
        /\ \A g \in Handlers \ {h} : hdhrHandler'[g] = hdhrHandler[g]
        /\ hdhrHandler'[h].pc \in {"link", "idle"}
    BY <1>7, RenameIs
  <2>2. Uncrossed /\ hdhrLoaded /\ H!Saving = {h} /\ \A g \in Handlers \ {h} : hdhrHandler[g].pc \notin {"open", "write", "rename", "remove"}
    BY <1>4, <2>1
  <2>3. content[disk.tmp] = H!Whole(hdhrHandler[h].snap) /\ disk'.file = disk.tmp
    BY <2>1, <2>2 DEF Uncrossed
  <2>4. hdhrHandler[h].snap \in Seq(SourceRows)
    BY DEF HdhrTypes, Changes
  <2>5. ~content'[disk'.file].torn /\ content'[disk'.file].rows = hdhrHandler[h].snap
    BY <2>1, <2>3, <2>4, HdhrBasics
  <2>6. H!Saving' = {} /\ \A g \in Handlers : hdhrHandler'[g].pc \notin {"open", "write", "rename", "remove"}
    BY <2>1, <2>2 DEF H!Saving
  <2>7. \/ \E g \in Handlers : hdhrHandler'[g].pc = "snap"
        \/ content'[disk'.file].rows = hdhrSources'
    BY <2>1, <2>2, <2>5 DEF Uncrossed
  <2> QED BY <2>1, <2>2, <2>5, <2>6, <2>7 DEF Uncrossed
<1>8. ASSUME NEW h \in Handlers, H!RenameFails(h) \/ H!RemoveTmp(h) PROVE hdhrLoaded' /\ Uncrossed'
  <2>1. ((hdhrHandler[h].pc = "rename" /\ disk.tmp = 0) \/ hdhrHandler[h].pc = "remove") /\ ~crossed
    BY <1>8, GivesUpIs
  <2>2. Uncrossed
    BY <2>1
  <2> QED BY <2>1, <2>2 DEF Uncrossed
<1>9. ASSUME H!Restart PROVE hdhrLoaded' /\ Uncrossed'
  <2>1. ~content[disk.file].torn
    <3>1. CASE crossed
      BY <1>9, <3>1, RestartIs
    <3>2. CASE ~crossed
      BY <3>2 DEF Uncrossed
    <3> QED BY <3>1, <3>2
  <2>2. /\ UNCHANGED <<disk, content>> /\ hdhrLoaded' /\ hdhrSources' = content[disk.file].rows
        /\ \A h \in Handlers : hdhrHandler'[h].pc = "idle"
    BY <1>9, <2>1, RestartIs, HdhrBasics
  <2> QED BY <2>1, <2>2 DEF Uncrossed, H!Saving
<1> QED BY <1>1, <1>2, <1>3, <1>5, <1>6, <1>7, <1>8, <1>9 DEF HdhrSteps, SavesOn

LEMMA HdhrStep == HdhrInv /\ (H!HdhrSteps \/ H!HdhrRequests) => HdhrInv'
  BY StepsAre, HdhrTypesKept, UncrossedKept DEF HdhrInv

LEMMA HdhrSound == HdhrInv => H!AlwaysLoads /\ H!FileIsCurrent
<1> SUFFICES ASSUME HdhrInv PROVE H!AlwaysLoads /\ H!FileIsCurrent
  OBVIOUS
<1>1. H!AlwaysLoads
  BY DEF HdhrInv, Uncrossed, H!AlwaysLoads
<1>2. H!FileIsCurrent
  BY DEF HdhrInv, Uncrossed, H!FileIsCurrent, H!Saving
<1> QED BY <1>1, <1>2

-----------------------------------------------------------------------------
(***************************************************************************)
(* Favourites and their readers (Favorites).  The cache and the readers    *)
(* have slices of the same arrays, so the invariant says of each reader    *)
(* which places of its array hold what: an addition writes behind every    *)
(* slice that no removal has shortened, and a removal moves favourites of  *)
(* the reader's time only.                                                 *)
(***************************************************************************)

Slices == [array : Nat, len : Nat]
Readings == [slice : Slices, was : SUBSET Items, since : SUBSET Items, moved : BOOLEAN]

\* A slice of an array that is there.
Valid(s, a) == s \in Slices /\ s.array \in DOMAIN a /\ s.len <= Len(a[s.array])

FavoriteTypes ==
  /\ arrays \in Seq(Seq(Items))
  /\ favoritesFile \in [torn : BOOLEAN, list : Seq(Items)]
  /\ wanted \subseteq Items /\ unsaved \in BOOLEAN /\ lost \in BOOLEAN
  /\ cache # None => Valid(cache, arrays)
  /\ reader \in [Readers -> Readings \cup {None}]
  /\ \A r \in Readers : reader[r] # None => cache # None /\ Valid(reader[r].slice, arrays)

\* What the reader r is going to copy. Until an item is removed its slice is
\* no longer than the cache's on the same array, and as it was; an addition
\* writes behind both. After a removal every place of the two slices holds a
\* favourite of then or since.
Reading(r) ==
  LET s == reader[r].slice
      a == arrays[s.array] IN
  /\ ~reader[r].moved =>
       /\ \A i, j \in 1..s.len : a[i] = a[j] => i = j
       /\ {a[i] : i \in 1..s.len} = reader[r].was
       /\ s.array = cache.array => s.len <= cache.len
  /\ \A i \in 1..s.len : a[i] \in reader[r].was \cup reader[r].since
  /\ s.array = cache.array => \A i \in 1..cache.len : a[i] \in reader[r].was \cup reader[r].since

FavoritesInv ==
  /\ FavoriteTypes
  /\ F!FileIsCache /\ F!FavoritesKept
  /\ cache = None => ~unsaved
  /\ \A r \in Readers : reader[r] # None => Reading(r)
  /\ F!ListsFavorites

LEMMA ContentIs ==
  ASSUME NEW a \in Seq(Seq(Items)), a = arrays, NEW s, Valid(s, a)
  PROVE  /\ F!Content(s) \in Seq(Items) /\ Len(F!Content(s)) = s.len /\ s.len \in Nat
         /\ \A i \in 1..s.len : F!Content(s)[i] = arrays[s.array][i]
<1>1. a[s.array] \in Seq(Items) /\ s.len \in Nat /\ s.len <= Len(a[s.array])
  BY DEF Valid, Slices
<1> QED BY <1>1, SMTT(40) DEF F!Content

LEMMA FavoritesInit == F!FavoritesInit => FavoritesInv
<1> SUFFICES ASSUME F!FavoritesInit PROVE FavoritesInv
  OBVIOUS
<1>1. favoritesFile = [torn |-> FALSE, list |-> <<>>]
  BY DEF F!FavoritesInit, F!Whole
<1>2. FavoriteTypes
  <2>1. /\ <<>> \in Seq(Items)
        /\ <<>> \in Seq(Seq(Items))
    OBVIOUS
  <2>2. favoritesFile \in [torn : BOOLEAN, list : Seq(Items)]
    <3> DEFINE nothing == <<>>
    <3> HIDE DEF nothing
    <3>1. favoritesFile = [torn |-> FALSE, list |-> nothing] /\ nothing \in Seq(Items)
      BY <1>1, <2>1 DEF nothing
    <3> QED BY <3>1
  <2> QED BY <2>1, <2>2 DEF F!FavoritesInit, FavoriteTypes
<1>3. F!FileIsCache
  BY <1>1 DEF F!FavoritesInit, F!FileIsCache, F!IsInjective
<1>4. F!FavoritesKept
  BY <1>1 DEF F!FavoritesInit, F!FavoritesKept, F!ToSet
<1> QED BY <1>2, <1>3, <1>4 DEF F!FavoritesInit, FavoritesInv, F!ListsFavorites

\* An array that stays as it is keeps what is known of it.
LEMMA ValidKept ==
  ASSUME NEW a \in Seq(Seq(Items)), NEW b \in Seq(Seq(Items)), Len(a) <= Len(b), \A i \in DOMAIN a : Len(a[i]) <= Len(b[i]),
         NEW s, Valid(s, a)
  PROVE  Valid(s, b)
<1>1. s.array \in DOMAIN b
  BY DEF Valid
<1>2. a[s.array] \in Seq(Items) /\ b[s.array] \in Seq(Items) /\ s.len \in Nat
  BY <1>1 DEF Valid, Slices
<1> QED BY <1>1, <1>2 DEF Valid

\* A slice is known by its items.
LEMMA SliceIs ==
  ASSUME NEW a \in Seq(Seq(Items)), NEW s, Valid(s, a), NEW list \in Seq(Items), Len(list) = s.len,
         \A i \in 1..s.len : a[s.array][i] = list[i]
  PROVE  SubSeq(a[s.array], 1, s.len) = list
<1>1. a[s.array] \in Seq(Items) /\ s.len \in Nat /\ s.len <= Len(a[s.array])
  BY DEF Valid, Slices
<1> QED BY <1>1, SMTT(40)

\* The list that a change leaves is written, wholly, in part or not at all.
LEMMA SaveKeeps ==
  ASSUME FavoritesInv, NEW list \in Seq(Items), F!IsInjective(list), F!save(list),
         cache' # None, F!Content(cache)' = list,
         wanted' \subseteq Items, ~lost => wanted' = F!ToSet(list)
  PROVE  /\ favoritesFile' \in [torn : BOOLEAN, list : Seq(Items)]
         /\ unsaved' \in BOOLEAN /\ lost' \in BOOLEAN
         /\ F!FileIsCache' /\ F!FavoritesKept'
<1>1. lost' = lost /\ lost \in BOOLEAN
  BY DEF F!save, FavoritesInv, FavoriteTypes
<1>2. CASE favoritesFile' = F!Whole(list) /\ unsaved' = FALSE
  <2>1. favoritesFile' = [torn |-> FALSE, list |-> list]
    BY <1>2 DEF F!Whole
  <2>2. /\ favoritesFile'.list = list /\ favoritesFile'.torn = FALSE
        /\ favoritesFile' \in [torn : BOOLEAN, list : Seq(Items)]
    BY <2>1
  <2>3. F!FileIsCache'
    BY <2>2 DEF F!FileIsCache
  <2>4. F!FavoritesKept'
    BY <1>1, <2>2 DEF F!FavoritesKept
  <2>5. unsaved' \in BOOLEAN /\ lost' \in BOOLEAN
    BY <1>1, <1>2
  <2> QED BY <2>2, <2>3, <2>4, <2>5
<1>3. CASE favoritesFile' \in {favoritesFile, F!Torn} /\ unsaved' = TRUE
  <2>1. F!Torn \in [torn : BOOLEAN, list : Seq(Items)] /\ F!Torn.list = <<>>
    BY DEF F!Torn
  <2>2. F!IsInjective(favoritesFile.list) /\ F!IsInjective(F!Torn.list)
    BY <2>1 DEF FavoritesInv, F!FileIsCache, F!IsInjective
  <2>3. favoritesFile' \in [torn : BOOLEAN, list : Seq(Items)] /\ F!IsInjective(favoritesFile'.list)
    BY <1>3, <2>1, <2>2 DEF FavoritesInv, FavoriteTypes
  <2>4. F!FileIsCache'
    BY <1>3, <2>3 DEF F!FileIsCache
  <2>5. F!FavoritesKept'
    BY <1>1, <1>3 DEF F!FavoritesKept
  <2> QED BY <1>1, <1>3, <2>3, <2>4, <2>5
<1> QED BY <1>2, <1>3 DEF F!save

LEMMA LoadKeeps == FavoritesInv /\ F!load => FavoritesInv'
<1> SUFFICES ASSUME FavoritesInv, F!load PROVE FavoritesInv'
  OBVIOUS
<1> DEFINE list == favoritesFile.list
<1>1. /\ cache = None /\ arrays' = Append(arrays, list)
      /\ cache' = [array |-> Len(arrays) + 1, len |-> Len(list)]
      /\ UNCHANGED <<favoritesFile, reader, answers, wanted, unsaved, lost>>
  BY DEF F!load
<1>2. /\ arrays \in Seq(Seq(Items)) /\ list \in Seq(Items) /\ Len(arrays) \in Nat /\ Len(list) \in Nat
      /\ F!IsInjective(list)
  BY DEF FavoritesInv, FavoriteTypes, F!FileIsCache
<1>3. arrays' \in Seq(Seq(Items)) /\ arrays'[Len(arrays) + 1] = list /\ Len(arrays') = Len(arrays) + 1
  BY <1>1, <1>2
<1>4. Valid(cache', arrays') /\ cache'.array = Len(arrays) + 1 /\ cache'.len = Len(list) /\ cache' \in Slices
  BY <1>1, <1>2, <1>3 DEF Valid, Slices
<1>5. \A r \in Readers : reader'[r] = None
  BY <1>1 DEF FavoritesInv, FavoriteTypes
<1>6. FavoriteTypes'
  BY <1>1, <1>2, <1>3, <1>4, <1>5 DEF FavoritesInv, FavoriteTypes, Valid
<1>7. F!Content(cache)' = list /\ cache' # None
  BY <1>2, <1>3, <1>4, SliceIs, FilesAssumption DEF F!Content, Slices
<1>8. F!ListsFavorites'
  BY <1>1 DEF FavoritesInv, F!ListsFavorites
<1>9. F!FileIsCache' /\ F!FavoritesKept'
  BY <1>1, <1>2, <1>7 DEF FavoritesInv, F!FileIsCache, F!FavoritesKept
<1> QED BY <1>5, <1>6, <1>7, <1>8, <1>9 DEF FavoritesInv

\* The list with an item behind the others.
LEMMA Longer ==
  ASSUME NEW s \in Seq(Items), F!IsInjective(s), NEW x \in Items, ~F!Contains(s, x)
  PROVE  /\ Append(s, x) \in Seq(Items) /\ Len(Append(s, x)) = Len(s) + 1
         /\ \A i \in 1..Len(s) : Append(s, x)[i] = s[i]
         /\ Append(s, x)[Len(s) + 1] = x
         /\ F!IsInjective(Append(s, x)) /\ F!ToSet(Append(s, x)) = F!ToSet(s) \cup {x}
<1>1. /\ Append(s, x) \in Seq(Items) /\ Len(Append(s, x)) = Len(s) + 1 /\ Len(s) \in Nat
      /\ \A i \in 1..Len(s) : Append(s, x)[i] = s[i]
      /\ Append(s, x)[Len(s) + 1] = x
  OBVIOUS
<1>2. \A i \in 1..Len(s) : s[i] # x
  BY DEF F!Contains
<1>3. F!IsInjective(Append(s, x))
  BY <1>1, <1>2 DEF F!IsInjective
<1>4. F!ToSet(Append(s, x)) = F!ToSet(s) \cup {x}
  <2>1. \A i \in 1..Len(s) + 1 : i \in 1..Len(s) \/ i = Len(s) + 1
    BY <1>1
  <2>2. DOMAIN s = 1..Len(s) /\ DOMAIN Append(s, x) = 1..Len(s) + 1
    BY <1>1
  <2>3. \A i \in 1..Len(s) : i \in 1..Len(s) + 1
    BY <1>1
  <2> QED BY <1>1, <2>1, <2>2, <2>3 DEF F!ToSet
<1> QED BY <1>1, <1>3, <1>4

LEMMA AddKeeps == ASSUME NEW item \in Items, FavoritesInv, F!Add(item) PROVE FavoritesInv'
<1> DEFINE c == cache  array == arrays[c.array]  held == F!Content(c)  list == Append(held, item)
           readers == [r \in Readers |-> IF reader[r] = None THEN None ELSE [reader[r] EXCEPT !.since = @ \cup {item}]]
<1>1. c # None /\ ~F!Contains(held, item)
  BY DEF F!Add
<1>2. list = Append(held, item) /\ F!save(list) /\ wanted' = wanted \cup {item} /\ answers' = answers /\ reader' = readers
  BY DEF F!Add
<1>3. /\ arrays \in Seq(Seq(Items)) /\ held \in Seq(Items) /\ F!IsInjective(held)
      /\ Valid(c, arrays) /\ Len(held) = c.len /\ \A i \in 1..c.len : array[i] = held[i]
  BY <1>1, ContentIs DEF FavoritesInv, FavoriteTypes, F!FileIsCache
<1>4. /\ list \in Seq(Items) /\ Len(list) = c.len + 1 /\ F!IsInjective(list)
      /\ \A i \in 1..c.len : list[i] = held[i]
      /\ list[c.len + 1] = item /\ F!ToSet(list) = F!ToSet(held) \cup {item}
  BY <1>1, <1>2, <1>3, Longer
<1>5. c.array \in DOMAIN arrays /\ c.len \in Nat /\ array \in Seq(Items) /\ c.len <= Len(array) /\ Len(array) \in Nat
  BY <1>3 DEF Valid, Slices
\* The slice after the addition, and the arrays.
<1>6. /\ arrays' \in Seq(Seq(Items)) /\ Len(arrays) <= Len(arrays') /\ \A k \in DOMAIN arrays : Len(arrays[k]) <= Len(arrays'[k])
      /\ cache' \in Slices /\ cache'.len = c.len + 1
      /\ Valid(cache', arrays')
      /\ \A i \in 1..c.len : arrays'[cache'.array][i] = array[i]
      /\ arrays'[cache'.array][c.len + 1] = item
      /\ \A k \in DOMAIN arrays : k # c.array => arrays'[k] = arrays[k]
      /\ \A i \in 1..Len(array) : i # c.len + 1 => arrays'[c.array][i] = array[i]
      /\ \/ cache'.array = c.array
         \/ cache'.array \notin DOMAIN arrays /\ arrays'[c.array] = array
  <2>1. CASE /\ arrays' = [arrays EXCEPT ![c.array] = IF c.len < Len(array) THEN [array EXCEPT ![c.len + 1] = item] ELSE Append(array, item)]
             /\ cache' = [c EXCEPT !.len = @ + 1]
    <3> DEFINE new == IF c.len < Len(array) THEN [array EXCEPT ![c.len + 1] = item] ELSE Append(array, item)
    <3>1. /\ new \in Seq(Items) /\ Len(new) >= Len(array) /\ c.len + 1 <= Len(new) /\ new[c.len + 1] = item
          /\ \A i \in 1..Len(array) : i # c.len + 1 => new[i] = array[i]
      <4>1. CASE c.len < Len(array)
        <5>1. new = [array EXCEPT ![c.len + 1] = item] /\ c.len + 1 \in 1..Len(array)
          BY <1>5, <4>1
        <5>2. /\ new \in Seq(Items) /\ Len(new) = Len(array) /\ new[c.len + 1] = item
              /\ \A i \in 1..Len(array) : i # c.len + 1 => new[i] = array[i]
          BY <1>5, <5>1
        <5> QED BY <1>5, <4>1, <5>2
      <4>2. CASE ~(c.len < Len(array))
        <5>1. new = Append(array, item) /\ c.len = Len(array)
          BY <1>5, <4>2
        <5> QED BY <1>5, <5>1
      <4> QED BY <4>1, <4>2
    <3> HIDE DEF new
    <3>2. /\ arrays' \in Seq(Seq(Items)) /\ Len(arrays') = Len(arrays) /\ arrays'[c.array] = new
          /\ \A k \in DOMAIN arrays : k # c.array => arrays'[k] = arrays[k]
      BY <1>3, <1>5, <2>1, <3>1 DEF new
    <3>3. cache' \in Slices /\ cache'.len = c.len + 1 /\ cache'.array = c.array
      <4>1. c \in Slices
        BY <1>3 DEF Valid
      <4> HIDE DEF c
      <4> QED BY <2>1, <4>1 DEF Slices
    <3>4. \A k \in DOMAIN arrays : Len(arrays[k]) <= Len(arrays'[k])
      <4> SUFFICES ASSUME NEW k \in DOMAIN arrays PROVE Len(arrays[k]) <= Len(arrays'[k])
        OBVIOUS
      <4>1. arrays[k] \in Seq(Items)
        BY <1>3
      <4>2. CASE k = c.array
        BY <3>1, <3>2, <4>2
      <4>3. CASE k # c.array
        BY <3>2, <4>1, <4>3
      <4> QED BY <4>2, <4>3
    <3>5. Valid(cache', arrays')
      BY <1>5, <3>1, <3>2, <3>3 DEF Valid
    <3>6. \A i \in 1..c.len : arrays'[cache'.array][i] = array[i]
      <4>1. \A i \in 1..c.len : i \in 1..Len(array) /\ i # c.len + 1
        BY <1>5
      <4> QED BY <3>1, <3>2, <3>3, <4>1
    <3>7. arrays'[cache'.array][c.len + 1] = item
      BY <3>1, <3>2, <3>3
    <3>8. \A i \in 1..Len(array) : i # c.len + 1 => arrays'[c.array][i] = array[i]
      BY <3>1, <3>2
    <3>9. Len(arrays) <= Len(arrays')
      BY <1>3, <3>2
    <3> QED BY <3>2, <3>3, <3>4, <3>5, <3>6, <3>7, <3>8, <3>9
  <2>2. CASE /\ c.len = Len(array)
             /\ arrays' = Append(arrays, Append(held, item))
             /\ cache' = [array |-> Len(arrays) + 1, len |-> c.len + 1]
    <3>1. /\ arrays' \in Seq(Seq(Items)) /\ Len(arrays') = Len(arrays) + 1 /\ arrays'[Len(arrays) + 1] = list
          /\ \A k \in DOMAIN arrays : arrays'[k] = arrays[k]
      BY <1>2, <1>3, <1>4, <2>2
    <3>2. cache' \in Slices /\ cache'.array = Len(arrays) + 1 /\ cache'.len = c.len + 1 /\ cache'.array \notin DOMAIN arrays
      BY <1>3, <1>5, <2>2 DEF Slices
    <3>3. Valid(cache', arrays')
      BY <1>3, <1>4, <3>1, <3>2 DEF Valid
    <3>4. \A k \in DOMAIN arrays : Len(arrays[k]) <= Len(arrays'[k])
      BY <1>3, <3>1
    <3>5. arrays'[cache'.array] = list /\ arrays'[c.array] = array
      BY <1>5, <3>1, <3>2
    <3>6. \A i \in 1..c.len : arrays'[cache'.array][i] = array[i]
      BY <1>3, <1>4, <3>5
    <3>7. Len(arrays) <= Len(arrays')
      BY <1>3, <3>1
    <3> HIDE DEF array, c
    <3> QED BY <1>4, <3>1, <3>2, <3>3, <3>4, <3>5, <3>6, <3>7
  <2> QED BY <1>1, <2>1, <2>2 DEF F!Add
<1>16. ~lost => wanted = F!ToSet(held)
  BY <1>1 DEF FavoritesInv, F!FavoritesKept
<1> HIDE DEF array, held, list
<1>7. cache' # None
  BY <1>6, FilesAssumption DEF Slices
<1>8. ASSUME NEW r \in Readers, reader'[r] # None
      PROVE  /\ reader[r] # None /\ reader[r] \in Readings /\ reader'[r] = [reader[r] EXCEPT !.since = @ \cup {item}]
             /\ reader'[r] \in Readings /\ Valid(reader[r].slice, arrays)
  BY <1>2, <1>8 DEF FavoritesInv, FavoriteTypes, Readings
<1>10. Len(list) = cache'.len /\ \A i \in 1..cache'.len : arrays'[cache'.array][i] = list[i]
  <2> HIDE DEF c
  <2>1. \A i \in 1..(c.len + 1) : i \in 1..c.len \/ i = c.len + 1
    BY <1>5
  <2>2. \A i \in 1..c.len : arrays'[cache'.array][i] = list[i]
    BY <1>3, <1>4, <1>6
  <2>3. arrays'[cache'.array][c.len + 1] = list[c.len + 1]
    BY <1>4, <1>6
  <2> QED BY <1>4, <1>6, <2>1, <2>2, <2>3
<1>13. F!Content(cache)' = list
  BY <1>4, <1>6, <1>10, SliceIs DEF F!Content
<1>14. wanted' \subseteq Items /\ (~lost => wanted' = F!ToSet(list))
  BY <1>2, <1>4, <1>16 DEF FavoritesInv, FavoriteTypes
<1>15. /\ favoritesFile' \in [torn : BOOLEAN, list : Seq(Items)] /\ unsaved' \in BOOLEAN /\ lost' \in BOOLEAN
       /\ F!FileIsCache' /\ F!FavoritesKept'
  BY <1>2, <1>4, <1>7, <1>13, <1>14, SaveKeeps
<1>9. FavoriteTypes'
  <2>1. reader' \in [Readers -> Readings \cup {None}]
    BY <1>2, <1>8
  <2>2. \A r \in Readers : reader'[r] # None => Valid(reader'[r].slice, arrays')
    BY <1>3, <1>6, <1>8, ValidKept, ZenonT(60) DEF Readings
  <2> QED BY <1>6, <1>7, <1>14, <1>15, <2>1, <2>2 DEF FavoriteTypes
<1>11. ASSUME NEW r \in Readers, reader'[r] # None PROVE Reading(r)'
  <2> DEFINE s == reader[r].slice  a == arrays[s.array]  known == reader[r].was \cup reader[r].since
  <2>1. Reading(r) /\ reader[r] \in Readings /\ Valid(s, arrays)
    BY <1>8, <1>11 DEF FavoritesInv
  <2>2. /\ reader'[r].slice = s /\ reader'[r].was = reader[r].was /\ reader'[r].moved = reader[r].moved
        /\ reader'[r].was \cup reader'[r].since = known \cup {item}
    <3>1. reader'[r] = [reader[r] EXCEPT !.since = @ \cup {item}]
      BY <1>8, <1>11
    <3>2. /\ reader'[r].slice = s /\ reader'[r].was = reader[r].was /\ reader'[r].moved = reader[r].moved
          /\ reader'[r].since = reader[r].since \cup {item}
      BY <2>1, <3>1 DEF Readings
    <3> QED BY <3>2
  <2>3. s.array \in DOMAIN arrays /\ s.len \in Nat /\ a \in Seq(Items) /\ s.len <= Len(a) /\ Len(a) \in Nat
    BY <1>3, <2>1 DEF Valid, Slices
  <2>4. s.array = c.array \/ arrays'[s.array] = a
    BY <1>6, <2>3
  <2>5. ~reader[r].moved => \A i \in 1..s.len : arrays'[s.array][i] = a[i]
    <3> SUFFICES ASSUME ~reader[r].moved, NEW i \in 1..s.len PROVE arrays'[s.array][i] = a[i]
      OBVIOUS
    <3>1. CASE arrays'[s.array] = a
      BY <3>1
    <3>2. CASE s.array = c.array
      <4>1. s.len <= c.len
        BY <2>1, <3>2 DEF Reading
      <4>2. i \in 1..Len(a) /\ i # c.len + 1 /\ a = array
        BY <1>5, <2>3, <3>2, <4>1 DEF array
      <4> QED BY <1>6, <3>2, <4>2
    <3> QED BY <2>4, <3>1, <3>2
  <2>6. \A i \in 1..s.len : arrays'[s.array][i] \in {a[i], item}
    <3> SUFFICES ASSUME NEW i \in 1..s.len PROVE arrays'[s.array][i] \in {a[i], item}
      OBVIOUS
    <3>1. CASE arrays'[s.array] = a
      BY <3>1
    <3>2. CASE s.array = c.array /\ arrays'[s.array] # a
      <4>1. cache'.array = c.array /\ arrays'[c.array][c.len + 1] = item
        BY <1>6, <3>2 DEF array
      <4>2. a = array /\ i \in 1..Len(array)
        BY <2>3, <3>2 DEF array
      <4>3. CASE i = c.len + 1
        BY <3>2, <4>1, <4>3
      <4>4. CASE i # c.len + 1
        BY <1>6, <3>2, <4>2, <4>4
      <4> QED BY <4>3, <4>4
    <3> QED BY <2>4, <3>1, <3>2
  <2>7. s.array = cache'.array => \A i \in 1..cache'.len : arrays'[s.array][i] \in known \cup {item}
    <3> SUFFICES ASSUME s.array = cache'.array, NEW i \in 1..cache'.len PROVE arrays'[s.array][i] \in known \cup {item}
      OBVIOUS
    <3>1. s.array = c.array
      BY <1>6, <2>3
    <3>2. CASE i = c.len + 1
      BY <1>6, <3>2
    <3>3. CASE i # c.len + 1
      <4>1. i \in 1..c.len
        BY <1>5, <1>6, <3>3, SMTT(30)
      <4> QED BY <1>6, <2>1, <3>1, <4>1 DEF Reading, array
    <3> QED BY <3>2, <3>3
  <2>8. ~reader[r].moved /\ s.array = cache'.array => s.len <= cache'.len
    BY <1>5, <1>6, <2>1, <2>3 DEF Reading
  <2>9. \A i \in 1..s.len : arrays'[s.array][i] \in known \cup {item}
    BY <2>1, <2>6 DEF Reading
  <2>10. ~reader[r].moved =>
           /\ \A i, j \in 1..s.len : arrays'[s.array][i] = arrays'[s.array][j] => i = j
           /\ {arrays'[s.array][i] : i \in 1..s.len} = reader[r].was
    BY <2>1, <2>5 DEF Reading
  <2> HIDE DEF s, known
  <2> QED BY <2>2, <2>7, <2>8, <2>9, <2>10 DEF Reading
<1>12. F!ListsFavorites'
  BY <1>2 DEF FavoritesInv, F!ListsFavorites
<1> QED BY <1>7, <1>9, <1>11, <1>12, <1>15 DEF FavoritesInv

\* The one place of a favourite, and the array from which it was removed.
LEMMA Shifting ==
  ASSUME NEW s \in Seq(Items), F!IsInjective(s), NEW x \in Items, F!SelectInSeq(s, LAMBDA i : i = x) # 0
  PROVE  F!SelectInSeq(s, LAMBDA i : i = x) \in 1..Len(s) /\ s[F!SelectInSeq(s, LAMBDA i : i = x)] = x
<1> DEFINE places == {i \in 1..Len(s) : s[i] = x}
<1>1. F!SelectInSeq(s, LAMBDA i : i = x) = IF places # {} THEN F!Min(places) ELSE 0
  BY DEF F!SelectInSeq
<1>2. PICK i \in places : TRUE
  BY <1>1
<1>3. \A j \in places : j = i
  BY DEF F!IsInjective
<1>4. places = {i}
  BY <1>2, <1>3
<1>5. F!Min(places) = i
  BY <1>4 DEF F!Min
<1> QED BY <1>1, <1>2, <1>5

LEMMA RemoveKeeps == ASSUME NEW item \in Items, FavoritesInv, F!RemoveItem(item) PROVE FavoritesInv'
<1> DEFINE c == cache  array == arrays[c.array]  n == c.len  held == F!Content(c)
           at == F!SelectInSeq(held, LAMBDA i : i = item)
           shifted == [i \in DOMAIN array |-> IF i >= at /\ i < n THEN array[i + 1] ELSE array[i]]
           list == SubSeq(shifted, 1, c.len - 1)
           readers == [r \in Readers |-> IF reader[r] = None THEN None ELSE [reader[r] EXCEPT !.moved = TRUE]]
<1>1. c # None
  BY DEF F!RemoveItem
<1>2. /\ at # 0 /\ arrays' = [arrays EXCEPT ![c.array] = shifted] /\ cache' = [array |-> c.array, len |-> c.len - 1]
      /\ F!save(list) /\ wanted' = wanted \ {item} /\ answers' = answers /\ reader' = readers
  BY <1>1 DEF F!RemoveItem, F!Shortened
<1>3. /\ arrays \in Seq(Seq(Items)) /\ held \in Seq(Items) /\ F!IsInjective(held)
      /\ Valid(c, arrays) /\ Len(held) = c.len /\ \A i \in 1..c.len : array[i] = held[i]
  BY <1>1, ContentIs DEF FavoritesInv, FavoriteTypes, F!FileIsCache
<1>4. c.array \in DOMAIN arrays /\ c.array \in Nat /\ c.len \in Nat /\ array \in Seq(Items) /\ c.len <= Len(array) /\ Len(array) \in Nat
  BY <1>3 DEF Valid, Slices
<1>5. at \in 1..c.len /\ held[at] = item
  BY <1>2, <1>3, Shifting
<1>16. ~lost => wanted = F!ToSet(held)
  BY <1>1 DEF FavoritesInv, F!FavoritesKept
<1> HIDE DEF at, array, held, c
<1>6. /\ DOMAIN array = 1..Len(array) /\ shifted \in Seq(Items) /\ Len(shifted) = Len(array)
      /\ \A i \in 1..Len(array) : shifted[i] = IF i >= at /\ i < n THEN array[i + 1] ELSE array[i]
  <2>1. DOMAIN array = 1..Len(array)
    BY <1>4
  <2>2. \A i \in 1..Len(array) : shifted[i] \in Items
    <3> SUFFICES ASSUME NEW i \in 1..Len(array) PROVE shifted[i] \in Items
      OBVIOUS
    <3>1. CASE i >= at /\ i < n
      <4>1. i + 1 \in 1..Len(array)
        BY <1>4, <3>1
      <4> QED BY <1>4, <2>1, <3>1, <4>1
    <3>2. CASE ~(i >= at /\ i < n)
      BY <1>4, <2>1, <3>2
    <3> QED BY <3>1, <3>2
  <2>3. shifted \in [1..Len(array) -> Items]
    BY <2>1, <2>2
  <2> QED BY <1>4, <2>1, <2>3
<1>7. /\ arrays' \in Seq(Seq(Items)) /\ Len(arrays') = Len(arrays) /\ arrays'[c.array] = shifted
      /\ \A k \in DOMAIN arrays : k # c.array => arrays'[k] = arrays[k]
  BY <1>2, <1>3, <1>4, <1>6
<1>8. /\ list \in Seq(Items) /\ Len(list) = n - 1 /\ n - 1 \in Nat
      /\ \A i \in 1..(n - 1) : list[i] = shifted[i]
  <2>1. n - 1 \in Nat /\ n - 1 <= Len(shifted)
    BY <1>4, <1>5, <1>6
  <2> HIDE DEF shifted, n
  <2> QED BY <1>6, <2>1 DEF n
<1>9. F!IsInjective(list) /\ F!ToSet(list) = F!ToSet(held) \ {item}
  <2>1. \A i \in 1..(n - 1) : list[i] = held[IF i >= at THEN i + 1 ELSE i]
    <3> SUFFICES ASSUME NEW i \in 1..(n - 1) PROVE list[i] = held[IF i >= at THEN i + 1 ELSE i]
      OBVIOUS
    <3>1. i \in 1..Len(array) /\ i < n /\ i \in 1..c.len /\ i + 1 \in 1..c.len
      BY <1>4
    <3>2. list[i] = shifted[i]
      BY <1>8
    <3>3. shifted[i] = IF i >= at THEN array[i + 1] ELSE array[i]
      BY <1>6, <3>1
    <3> QED BY <1>3, <3>1, <3>2, <3>3
  <2> DEFINE to(i) == IF i >= at THEN i + 1 ELSE i
  <2>2. \A i, j \in 1..(n - 1) : to(i) \in 1..n /\ to(j) \in 1..n /\ (to(i) = to(j) => i = j)
    BY <1>4, <1>5
  <2>3. DOMAIN held = 1..n /\ DOMAIN list = 1..(n - 1) /\ n \in Nat
    BY <1>3, <1>8
  <2>4. \A i \in 1..(n - 1) : list[i] = held[to(i)]
    BY <2>1
  <2>5. F!IsInjective(list)
    <3> HIDE DEF to, list
    <3> QED BY <1>3, <2>2, <2>3, <2>4 DEF F!IsInjective
  <2>6. F!ToSet(list) = F!ToSet(held) \ {item}
    <3>1. \A i \in 1..(n - 1) : to(i) # at /\ to(i) \in 1..n
      BY <1>4, <1>5
    <3>2. \A k \in 1..n : k # at => \E i \in 1..(n - 1) : to(i) = k
      <4> SUFFICES ASSUME NEW k \in 1..n, k # at PROVE \E i \in 1..(n - 1) : to(i) = k
        OBVIOUS
      <4>1. CASE k < at
        <5>1. k \in 1..(n - 1) /\ to(k) = k
          BY <1>4, <1>5, <4>1
        <5> QED BY <5>1
      <4>2. CASE k > at
        <5>1. k - 1 \in 1..(n - 1) /\ to(k - 1) = k
          BY <1>4, <1>5, <4>2
        <5> QED BY <5>1
      <4> QED BY <1>4, <1>5, <4>1, <4>2
    <3>3. \A k \in 1..n : k # at => held[k] # item
      BY <1>3, <1>5, <2>3 DEF F!IsInjective
    <3>4. F!ToSet(held) = {held[k] : k \in 1..n} /\ F!ToSet(list) = {list[i] : i \in 1..(n - 1)}
      BY <2>3 DEF F!ToSet
    <3> HIDE DEF to, list, n
    <3> QED BY <1>5, <2>4, <3>1, <3>2, <3>3, <3>4
  <2> QED BY <2>5, <2>6
<1>10. cache' \in Slices /\ cache' # None /\ cache'.array = c.array /\ cache'.len = n - 1 /\ Valid(cache', arrays')
  <2>1. cache' \in Slices /\ cache'.array = c.array /\ cache'.len = n - 1
    BY <1>2, <1>4, <1>8 DEF Slices
  <2>2. n - 1 <= Len(shifted) /\ c.array \in DOMAIN arrays'
    BY <1>3, <1>4, <1>6, <1>7, <1>8
  <2> QED BY <1>7, <2>1, <2>2, FilesAssumption DEF Valid, Slices
<1>13. Len(list) = cache'.len /\ \A i \in 1..cache'.len : arrays'[cache'.array][i] = list[i]
  BY <1>7, <1>8, <1>10, ZenonT(40)
<1> HIDE DEF list
<1>17. F!Content(cache)' = list
  BY <1>7, <1>8, <1>10, <1>13, SliceIs DEF F!Content
<1>18. wanted' \subseteq Items /\ (~lost => wanted' = F!ToSet(list))
  BY <1>2, <1>9, <1>16 DEF FavoritesInv, FavoriteTypes
<1>19. /\ favoritesFile' \in [torn : BOOLEAN, list : Seq(Items)] /\ unsaved' \in BOOLEAN /\ lost' \in BOOLEAN
       /\ F!FileIsCache' /\ F!FavoritesKept'
  BY <1>2, <1>8, <1>9, <1>10, <1>17, <1>18, SaveKeeps
<1>11. ASSUME NEW r \in Readers, reader'[r] # None
       PROVE  /\ reader[r] # None /\ reader[r] \in Readings /\ reader'[r] = [reader[r] EXCEPT !.moved = TRUE]
              /\ reader'[r] \in Readings /\ Valid(reader[r].slice, arrays)
  BY <1>2, <1>11 DEF FavoritesInv, FavoriteTypes, Readings
<1>12. FavoriteTypes'
  <2>1. reader' \in [Readers -> Readings \cup {None}]
    BY <1>2, <1>11
  <2>2. \A k \in DOMAIN arrays : Len(arrays[k]) <= Len(arrays'[k])
    <3> SUFFICES ASSUME NEW k \in DOMAIN arrays PROVE Len(arrays[k]) <= Len(arrays'[k])
      OBVIOUS
    <3>1. CASE k = c.array
      BY <1>4, <1>6, <1>7, <3>1 DEF array
    <3>2. CASE k # c.array
      <4>1. arrays[k] \in Seq(Items)
        BY <1>3
      <4> QED BY <1>7, <3>2, <4>1
    <3> QED BY <3>1, <3>2
  <2>3. Len(arrays) <= Len(arrays')
    BY <1>3, <1>7
  <2>4. \A r \in Readers : reader'[r] # None => Valid(reader'[r].slice, arrays')
    <3> SUFFICES ASSUME NEW r \in Readers, reader'[r] # None PROVE Valid(reader'[r].slice, arrays')
      OBVIOUS
    <3>1. reader'[r].slice = reader[r].slice
      BY <1>11 DEF Readings
    <3>2. Valid(reader[r].slice, arrays)
      BY <1>11
    <3> QED BY <1>3, <1>7, <2>2, <2>3, <3>1, <3>2, ValidKept
  <2> QED BY <1>7, <1>10, <1>18, <1>19, <2>1, <2>4 DEF FavoriteTypes
<1>14. ASSUME NEW r \in Readers, reader'[r] # None PROVE Reading(r)'
  <2> DEFINE s == reader[r].slice  a == arrays[s.array]  known == reader[r].was \cup reader[r].since
  <2>1. Reading(r) /\ reader[r] \in Readings /\ Valid(s, arrays)
    BY <1>11, <1>14 DEF FavoritesInv
  <2>2. reader'[r].slice = s /\ reader'[r].moved /\ reader'[r].was \cup reader'[r].since = known
    <3>1. reader'[r] = [reader[r] EXCEPT !.moved = TRUE]
      BY <1>11, <1>14
    <3> QED BY <2>1, <3>1 DEF Readings
  <2>3. s.array \in DOMAIN arrays /\ s.len \in Nat /\ a \in Seq(Items) /\ s.len <= Len(a) /\ Len(a) \in Nat
    BY <1>3, <2>1 DEF Valid, Slices
  <2>4. \A i \in 1..s.len : a[i] \in known
    BY <2>1 DEF Reading
  <2>5. CASE s.array # c.array
    <3>1. arrays'[s.array] = a
      BY <1>7, <2>3, <2>5
    <3> HIDE DEF s, known
    <3> QED BY <1>10, <2>2, <2>4, <2>5, <3>1 DEF Reading
  <2>6. CASE s.array = c.array
    <3>1. a = array /\ arrays'[s.array] = shifted
      BY <1>7, <2>6 DEF array
    <3>2. \A i \in 1..n : array[i] \in known
      BY <2>1, <2>6, <3>1 DEF Reading, c
    <3>3. \A i \in 1..Len(array) : i <= s.len \/ i <= n => shifted[i] \in known
      <4> SUFFICES ASSUME NEW i \in 1..Len(array), i <= s.len \/ i <= n PROVE shifted[i] \in known
        OBVIOUS
      <4>1. CASE i >= at /\ i < n
        <5>1. shifted[i] = array[i + 1] /\ i + 1 \in 1..n
          BY <1>4, <1>6, <4>1
        <5> QED BY <3>2, <5>1
      <4>2. CASE ~(i >= at /\ i < n)
        <5>1. shifted[i] = array[i] /\ (i \in 1..s.len \/ i \in 1..n)
          BY <1>4, <1>6, <2>3, <4>2
        <5> QED BY <2>4, <3>1, <3>2, <5>1
      <4> QED BY <4>1, <4>2
    <3>4. /\ \A i \in 1..s.len : arrays'[s.array][i] \in known
          /\ \A i \in 1..(n - 1) : arrays'[s.array][i] \in known
      <4>1. \A i \in 1..s.len : i \in 1..Len(array) /\ i <= s.len
        BY <1>4, <2>3, <3>1
      <4>2. \A i \in 1..(n - 1) : i \in 1..Len(array) /\ i <= n
        BY <1>4
      <4>3. \A i \in 1..s.len : shifted[i] \in known
        <5> HIDE DEF shifted, known, s, n
        <5> QED BY <3>3, <4>1
      <4>4. \A i \in 1..(n - 1) : shifted[i] \in known
        BY <3>3, <4>2
      <4> HIDE DEF shifted, known, n
      <4> QED BY <3>1, <4>3, <4>4
    <3> HIDE DEF s, known, n
    <3> QED BY <1>10, <2>2, <2>6, <3>4 DEF Reading
  <2> QED BY <2>5, <2>6
<1>15. F!ListsFavorites'
  BY <1>2 DEF FavoritesInv, F!ListsFavorites
<1> QED BY <1>10, <1>12, <1>14, <1>15, <1>19 DEF FavoritesInv

\* What is copied out of an array.
LEMMA ReadOut ==
  ASSUME arrays \in Seq(Seq(Items)), NEW s, Valid(s, arrays)
  PROVE  /\ F!ToSet(F!Content(s)) = {arrays[s.array][i] : i \in 1..s.len}
         /\ F!IsInjective(F!Content(s)) <=> \A i, j \in 1..s.len : arrays[s.array][i] = arrays[s.array][j] => i = j
<1>1. DOMAIN F!Content(s) = 1..s.len /\ \A i \in 1..s.len : F!Content(s)[i] = arrays[s.array][i]
  BY ContentIs
<1> QED BY <1>1 DEF F!ToSet, F!IsInjective

LEMMA ListKeeps == ASSUME NEW r \in Readers, FavoritesInv, F!ListByUser(r) PROVE FavoritesInv'
<1>1. /\ cache # None /\ UNCHANGED <<arrays, cache, favoritesFile, answers, wanted, unsaved, lost>>
      /\ reader' = [reader EXCEPT ![r] = [slice |-> cache, was |-> F!ToSet(F!Content(cache)), since |-> {}, moved |-> FALSE]]
  BY DEF F!ListByUser
<1>2. /\ FavoriteTypes /\ Valid(cache, arrays) /\ cache \in Slices
      /\ F!IsInjective(F!Content(cache)) /\ F!Content(cache) \in Seq(Items)
  BY <1>1, ContentIs DEF FavoritesInv, FavoriteTypes, Valid, F!FileIsCache
<1>3. /\ F!ToSet(F!Content(cache)) = {arrays[cache.array][i] : i \in 1..cache.len}
      /\ \A i, j \in 1..cache.len : arrays[cache.array][i] = arrays[cache.array][j] => i = j
  BY <1>2, ReadOut DEF FavoriteTypes
<1>4. F!ToSet(F!Content(cache)) \subseteq Items
  BY <1>2 DEF F!ToSet
<1> DEFINE new == [slice |-> cache, was |-> F!ToSet(F!Content(cache)), since |-> {}, moved |-> FALSE]
<1>5. new \in Readings
  BY <1>2, <1>4 DEF Readings
<1>6. reader'[r] = new /\ \A q \in Readers \ {r} : reader'[q] = reader[q]
  BY <1>1, <1>2 DEF FavoriteTypes
<1>7. FavoriteTypes'
  BY <1>1, <1>2, <1>5, <1>6 DEF FavoriteTypes
<1>8. Reading(r)'
  BY <1>1, <1>2, <1>3, <1>6 DEF Reading, Slices
<1>9. \A q \in Readers \ {r} : reader'[q] # None => Reading(q)'
  BY <1>1, <1>6 DEF FavoritesInv, Reading
<1>10. F!ListsFavorites' /\ F!FileIsCache' /\ F!FavoritesKept'
  BY <1>1 DEF FavoritesInv, F!ListsFavorites, F!FileIsCache, F!FavoritesKept, F!Content
<1> QED BY <1>1, <1>7, <1>8, <1>9, <1>10 DEF FavoritesInv

LEMMA CopyKeeps == ASSUME NEW r \in Readers, FavoritesInv, F!ListCopy(r) PROVE FavoritesInv'
<1> DEFINE s == reader[r].slice
           answer == [list |-> F!Content(s), was |-> reader[r].was, since |-> reader[r].since, moved |-> reader[r].moved]
<1>1. /\ reader[r] # None /\ answers' = {answer} /\ UNCHANGED <<arrays, cache, favoritesFile, wanted, unsaved, lost>>
      /\ reader' = [reader EXCEPT ![r] = None]
  BY DEF F!ListCopy
<1>2. FavoriteTypes /\ Valid(s, arrays) /\ Reading(r)
  BY <1>1 DEF FavoritesInv, FavoriteTypes
<1>3. /\ F!ToSet(F!Content(s)) = {arrays[s.array][i] : i \in 1..s.len}
      /\ F!IsInjective(F!Content(s)) <=> \A i, j \in 1..s.len : arrays[s.array][i] = arrays[s.array][j] => i = j
  BY <1>2, ReadOut DEF FavoriteTypes
<1>4. reader'[r] = None /\ \A q \in Readers \ {r} : reader'[q] = reader[q]
  BY <1>1, <1>2 DEF FavoriteTypes
<1>5. FavoriteTypes'
  BY <1>1, <1>2, <1>4 DEF FavoriteTypes
<1>6. \A q \in Readers : reader'[q] # None => Reading(q)'
  BY <1>1, <1>4 DEF FavoritesInv, Reading
<1>7. F!ListsFavorites'
  <2>1. F!ToSet(answer.list) \subseteq answer.was \cup answer.since
    BY <1>2, <1>3 DEF Reading
  <2>2. ~answer.moved => F!IsInjective(answer.list) /\ F!ToSet(answer.list) = answer.was
    BY <1>2, <1>3 DEF Reading
  <2> HIDE DEF answer
  <2> QED BY <1>1, <2>1, <2>2 DEF F!ListsFavorites
<1>8. F!FileIsCache' /\ F!FavoritesKept'
  BY <1>1 DEF FavoritesInv, F!FileIsCache, F!FavoritesKept, F!Content
<1> QED BY <1>1, <1>5, <1>6, <1>7, <1>8 DEF FavoritesInv

LEMMA FavoritesStep == FavoritesInv /\ (F!FavoritesSteps \/ F!FavoritesRequests) => FavoritesInv'
<1> SUFFICES ASSUME FavoritesInv, F!FavoritesSteps \/ F!FavoritesRequests PROVE FavoritesInv'
  OBVIOUS
<1>1. ASSUME F!FavoritesRestart PROVE FavoritesInv'
  <2>1. /\ cache' = None /\ unsaved' = FALSE /\ UNCHANGED <<arrays, answers, wanted>> /\ reader' = [r \in Readers |-> None]
        /\ \/ favoritesFile' = favoritesFile /\ lost' = (lost \/ unsaved)
           \/ favoritesFile' = F!Torn /\ lost' = TRUE
    BY <1>1 DEF F!FavoritesRestart
  <2>2. F!Torn \in [torn : BOOLEAN, list : Seq(Items)] /\ F!Torn.list = <<>> /\ F!IsInjective(F!Torn.list)
    BY DEF F!Torn, F!IsInjective
  <2>3. FavoriteTypes /\ F!FileIsCache /\ F!FavoritesKept
    BY DEF FavoritesInv
  <2>4. favoritesFile' \in [torn : BOOLEAN, list : Seq(Items)] /\ F!IsInjective(favoritesFile'.list)
    BY <2>1, <2>2, <2>3 DEF FavoriteTypes, F!FileIsCache
  <2>5. FavoriteTypes'
    BY <2>1, <2>3, <2>4 DEF FavoriteTypes
  <2>6. F!FileIsCache'
    BY <2>1, <2>4 DEF F!FileIsCache
  <2>7. F!FavoritesKept'
    BY <2>1, <2>3 DEF F!FavoritesKept
  <2> QED BY <2>1, <2>5, <2>6, <2>7 DEF FavoritesInv, F!ListsFavorites
<1> QED BY <1>1, LoadKeeps, AddKeeps, RemoveKeeps, ListKeeps, CopyKeeps DEF F!FavoritesSteps, F!FavoritesRequests

LEMMA FavoritesAreSound == FavoritesInv => F!FileIsCache /\ F!FavoritesKept /\ F!ListsFavorites
  BY DEF FavoritesInv

-----------------------------------------------------------------------------
(* The three together, whichever is in focus. *)

FilesIInv ==
  /\ focus = "favorites" => FavoritesInv
  /\ focus = "hdhr" => HdhrInv
  /\ focus = "schedule" => ScheduleFileInv

LEMMA FilesStart == Init => FilesIInv
  BY FavoritesInit, HdhrInit, ScheduleStart DEF Init, FilesIInv

\* Nothing changes where nobody is at work.
LEMMA FilesRest ==
  /\ FavoritesInv /\ UNCHANGED favoritesVars => FavoritesInv'
  /\ HdhrInv /\ UNCHANGED hdhrVars => HdhrInv'
  /\ ScheduleFileInv /\ UNCHANGED scheduleVars => ScheduleFileInv'
<1>1. ASSUME FavoritesInv, UNCHANGED favoritesVars PROVE FavoritesInv'
  BY <1>1 DEF favoritesVars, FavoritesInv, FavoriteTypes, Valid, Reading, F!ListsFavorites, F!FileIsCache, F!FavoritesKept, F!Content
<1>2. ASSUME HdhrInv, UNCHANGED hdhrVars PROVE HdhrInv'
  BY <1>2 DEF hdhrVars, HdhrInv, HdhrTypes, NodesApart, Uncrossed, H!Saving
<1>3. ASSUME ScheduleFileInv, UNCHANGED scheduleVars PROVE ScheduleFileInv'
  BY <1>3 DEF scheduleVars, ScheduleFileInv, ScheduleTypes, Locked, Locks, Unmixed, Unraced, Apart
<1> QED BY <1>1, <1>2, <1>3

LEMMA FilesKept == FilesIInv /\ [Next]_vars => FilesIInv'
<1> SUFFICES ASSUME FilesIInv, [Next]_vars PROVE FilesIInv'
  OBVIOUS
<1>1. focus' = focus
  BY DEF Next, vars, AccountsNext, ProfilesNext, SettingsNext, FavoritesNext, DevicesNext, HdhrNext, ScheduleNext, BackupNext
<1>2. CASE focus = "favorites"
  <2>1. FavoritesInv
    BY <1>2 DEF FilesIInv
  <2>2. F!FavoritesSteps \/ F!FavoritesRequests \/ UNCHANGED favoritesVars
    BY <1>2 DEF Next, vars, AccountsNext, ProfilesNext, SettingsNext, FavoritesNext, DevicesNext, HdhrNext, ScheduleNext, BackupNext
  <2> QED BY <1>1, <1>2, <2>1, <2>2, FavoritesStep, FilesRest DEF FilesIInv
<1>3. CASE focus = "hdhr"
  <2>1. HdhrInv
    BY <1>3 DEF FilesIInv
  <2>2. H!HdhrSteps \/ H!HdhrRequests \/ UNCHANGED hdhrVars
    BY <1>3 DEF Next, vars, AccountsNext, ProfilesNext, SettingsNext, FavoritesNext, DevicesNext, HdhrNext, ScheduleNext, BackupNext
  <2> QED BY <1>1, <1>3, <2>1, <2>2, HdhrStep, FilesRest DEF FilesIInv
<1>4. CASE focus = "schedule"
  <2>1. ScheduleFileInv
    BY <1>4 DEF FilesIInv
  <2>2. C!ScheduleSteps \/ C!ScheduleRequests \/ UNCHANGED scheduleVars
    BY <1>4 DEF Next, vars, AccountsNext, ProfilesNext, SettingsNext, FavoritesNext, DevicesNext, HdhrNext, ScheduleNext, BackupNext
  <2> QED BY <1>1, <1>4, <2>1, <2>2, ScheduleKeeps, FilesRest DEF FilesIInv
<1> QED BY <1>1, <1>2, <1>3, <1>4 DEF FilesIInv

\* In every reachable state the files of favourites, HDHomeRun sources and
\* bookings are what memory holds when nobody saves and no save has failed;
\* the sources can always be loaded, the bookings unless a stop cut their file,
\* and the favourites are what the user made them unless the program stopped
\* with a change that was not written; a list shows favourites of one moment,
\* and no two live bookings overlap, with the overlaps that the three modules
\* name.
THEOREM FilesAreSound == Spec => []FilesSound
<1>1. FilesIInv => FilesSound
  BY FavoritesAreSound, HdhrSound, ScheduleFileSound DEF FilesIInv, FilesSound
<1> QED BY <1>1, FilesStart, FilesKept, PTL DEF Spec
=============================================================================
