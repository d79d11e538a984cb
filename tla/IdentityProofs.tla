---------------------------- MODULE IdentityProofs ----------------------------
(***************************************************************************)
(* Proofs about Identity for every set of users, roles and requests and    *)
(* every bound: the foreign keys, that an administrator always remains,    *)
(* and that a revoked session stays revoked.  Requests may overlap, be     *)
(* dropped where they stand, and the process may restart.                  *)
(***************************************************************************)
EXTENDS Identity, SequenceTheorems, TLAPS

(***************************************************************************)
(* What the rows a request has read still say when it writes: users are    *)
(* never deleted, session rows keep their id, and a protected role is      *)
(* never the object of a matrix or a deletion.  us and ss are the users    *)
(* and the session ids of the moment.                                      *)
(***************************************************************************)
Holding(q) == q.step \in {"renew", "write", "revoke"}

Relies(q, us, ss) ==
    /\ q.step = "insert" => q.user \in us
    /\ Holding(q) =>
           /\ q.session \in ss
           /\ q.op.do \in {"activate", "deactivate", "reset", "assign"} => q.op.user \in us
           /\ q.op.do \in {"matrix", "deleteRole"} => q.op.role \notin Protected

Reliable == \A r \in Request : Relies(req[r], users, DOMAIN sessions)

Typed == TypeOK /\ Reliable

Held == [step : {"renew", "write", "revoke"}, session : Nat \ {0}, now : Nat, op : Op]

-----------------------------------------------------------------------------
(* Shapes of requests and operations.                                      *)

(* A request that holds a session is a record with one. *)
LEMMA HeldRequest ==
    ASSUME NEW q \in Pending, Holding(q)
    PROVE  q \in Held
  BY DEF Pending, Idle, Holding, Held

(* A login about to insert names its user and the time it read. *)
LEMMA InsertRequest ==
    ASSUME NEW q \in Pending, q.step = "insert"
    PROVE  q.user \in User /\ q.now \in Nat
  BY DEF Pending, Idle

(* Operations on a user name one. *)
LEMMA UserOp ==
    ASSUME NEW op \in Op, op.do \in {"create", "activate", "deactivate", "reset"}
    PROVE  op.user \in User
  BY DEF Op

(* An assignment names a user and a set of roles. *)
LEMMA AssignOp ==
    ASSUME NEW op \in Op, op.do = "assign"
    PROVE  op.user \in User /\ op.to \in Assigned
  BY DEF Op

(* A matrix names a role and a set of permissions. *)
LEMMA MatrixOp ==
    ASSUME NEW op \in Op, op.do = "matrix"
    PROVE  op.role \in Role /\ op.to \in Matrices
  BY DEF Op

(* Operations on a role name one. *)
LEMMA RoleOp ==
    ASSUME NEW op \in Op, op.do \in {"createRole", "deleteRole"}
    PROVE  op.role \in Role
  BY DEF Op

(* A request goes on with a well formed step that relies on rows which exist,
   while tables only grow: all requests stay reliable. *)
LEMMA RequestsKept ==
    ASSUME Typed, NEW r \in Request, NEW q \in Pending, Continue(r, q),
           users \subseteq users', DOMAIN sessions \subseteq DOMAIN sessions',
           Relies(q, users', DOMAIN sessions')
    PROVE  req' \in [Request -> Pending] /\ Reliable'
  <1>1. req' \in [Request -> Pending]
    BY DEF Typed, TypeOK, Continue
  <1>2. ASSUME NEW x \in Request PROVE Relies(req'[x], users', DOMAIN sessions')
    <2>1. CASE x = r
      BY <2>1 DEF Typed, TypeOK, Continue
    <2>2. CASE x # r
      <3>1. req'[x] = req[x] /\ Relies(req[x], users, DOMAIN sessions)
        BY <2>2 DEF Typed, TypeOK, Reliable, Continue
      <3> QED BY <3>1 DEF Relies
    <2> QED BY <2>1, <2>2
  <1> QED BY <1>1, <1>2 DEF Reliable

(* The same for a request that ends. *)
LEMMA RequestsFinish ==
    ASSUME Typed, NEW r \in Request, Finish(r),
           users \subseteq users', DOMAIN sessions \subseteq DOMAIN sessions'
    PROVE  req' \in [Request -> Pending] /\ Reliable'
  <1>1. Idle \in Pending
    BY DEF Pending
  <1>2. Relies(Idle, users', DOMAIN sessions')
    BY DEF Idle, Relies, Holding
  <1> QED BY <1>1, <1>2, RequestsKept DEF Finish

-----------------------------------------------------------------------------
(***************************************************************************)
(* What a step does to the table of sessions.                              *)
(***************************************************************************)
Opened ==
    \E u \in users, now \in Nat :
        sessions' = Append(sessions, [user |-> u, seen |-> now, expires |-> now + Ttl,
                                      state |-> "live"])
Pruned ==
    sessions' = [i \in DOMAIN sessions |->
                    IF sessions[i].expires <= clock \/ sessions[i].state # "live"
                    THEN [sessions[i] EXCEPT !.state = "pruned"] ELSE sessions[i]]
Prolonged ==
    \E s \in DOMAIN sessions, now \in Nat :
        Renewable(s) /\ sessions' = [sessions EXCEPT ![s] = Renewed(s, now)]

SessionStep ==
    sessions' = sessions \/ Opened \/ Pruned \/ Prolonged \/ \E ids : RevokeAll(ids)

(* Every step of the program is one of these. *)
LEMMA StepOfSessions ==
    ASSUME Typed, [Next]_vars
    PROVE  SessionStep
  <1>1. CASE \E r \in Request : LoginInsert(r)
    <2>1. PICK r \in Request : LoginInsert(r)
      BY <1>1
    <2>2. req[r] \in Pending /\ req[r].step = "insert" /\ req[r].user \in users
      BY <2>1 DEF LoginInsert, At, Typed, TypeOK, Reliable, Relies
    <2>3. req[r].now \in Nat
      BY <2>2, InsertRequest
    <2>4. Opened
      BY <2>1, <2>2, <2>3 DEF LoginInsert, Opened
    <2> QED BY <2>4 DEF SessionStep
  <1>2. CASE \E r \in Request : Prune(r)
    BY <1>2 DEF Prune, Pruned, SessionStep
  <1>3. CASE \E r \in Request : Renew(r)
    <2>1. PICK r \in Request : Renew(r)
      BY <1>3
    <2>2. req[r] \in Pending /\ Holding(req[r]) /\ req[r].session \in DOMAIN sessions
      BY <2>1 DEF Renew, At, Typed, TypeOK, Reliable, Relies, Holding
    <2>3. req[r].now \in Nat
      BY <2>2, HeldRequest DEF Held
    <2>4. Prolonged \/ sessions' = sessions
      BY <2>1, <2>2, <2>3 DEF Renew, Prolonged
    <2> QED BY <2>4 DEF SessionStep
  <1>4. CASE \E r \in Request : Revoke(r)
    BY <1>4 DEF Revoke, SessionStep
  <1>5. CASE \E s \in DOMAIN sessions : Logout(s)
    BY <1>5 DEF Logout, SessionStep
  <1>6. CASE \E r \in Request : \/ SetupStore(r) \/ SetupComplete(r) \/ ChangePassword(r)
                                \/ CreateUser(r) \/ Activate(r) \/ Deactivate(r)
    <2>1. sessions' = sessions
      BY <1>6 DEF SetupStore, SetupComplete, ChangePassword, CreateUser, Activate, Deactivate
    <2> QED BY <2>1 DEF SessionStep
  <1>7. CASE \E r \in Request : \/ ResetPassword(r) \/ AssignRoles(r) \/ SetMatrix(r)
                                \/ CreateRole(r) \/ DeleteRole(r) \/ Drop(r)
    <2>1. sessions' = sessions
      BY <1>7 DEF ResetPassword, AssignRoles, SetMatrix, CreateRole, DeleteRole, Drop
    <2> QED BY <2>1 DEF SessionStep
  <1>8. CASE \E r \in Request : \/ \E page \in BOOLEAN : SetupRead(r, page)
                                \/ \E u \in User : SetUp(r, u) \/ LoginRead(r, u)
                                \/ \E s \in DOMAIN sessions, op \in Op : Admit(r, s, op)
    <2>1. sessions' = sessions
      BY <1>8 DEF SetupRead, SetUp, LoginRead, Admit
    <2> QED BY <2>1 DEF SessionStep
  <1>9. CASE Tick \/ Restart \/ UNCHANGED vars
    <2>1. sessions' = sessions
      BY <1>9 DEF Tick, Restart, vars
    <2> QED BY <2>1 DEF SessionStep
  <1> QED BY <1>1, <1>2, <1>3, <1>4, <1>5, <1>6, <1>7, <1>8, <1>9 DEF Next, Proceed

(* A row keeps its id and its user, and new rows belong to users. *)
LEMMA SessionsGrow ==
    ASSUME Typed, SessionStep
    PROVE  /\ sessions' \in Seq(Session)
           /\ DOMAIN sessions \subseteq DOMAIN sessions'
           /\ \A i \in DOMAIN sessions' : sessions'[i].user \in users
  <1> DEFINE n == Len(sessions)
  <1>1. sessions \in Seq(Session) /\ n \in Nat /\ DOMAIN sessions = 1..n
    BY DEF Typed, TypeOK
  <1>2. \A i \in 1..n : sessions[i] \in Session /\ sessions[i].user \in users
    BY <1>1, ElementOfSeq DEF Typed, TypeOK
  <1>3. users \subseteq User
    BY DEF Typed, TypeOK
  <1>4. CASE sessions' = sessions
    BY <1>1, <1>2, <1>4
  <1>5. CASE Opened
    <2>1. PICK u \in users, now \in Nat :
              sessions' = Append(sessions, [user |-> u, seen |-> now, expires |-> now + Ttl,
                                            state |-> "live"])
      BY <1>5 DEF Opened
    <2> DEFINE new == [user |-> u, seen |-> now, expires |-> now + Ttl, state |-> "live"]
    <2>2. new \in Session /\ new.user \in users
      BY <1>3, IdentityAssumption DEF Session
    <2> HIDE DEF new
    <2>3. sessions' = Append(sessions, new)
      BY <2>1 DEF new
    <2>4. /\ sessions' \in Seq(Session) /\ DOMAIN sessions' = 1..(n + 1)
          /\ sessions'[n + 1] = new /\ \A i \in 1..n : sessions'[i] = sessions[i]
      BY <1>1, <2>2, <2>3, AppendProperties
    <2> QED BY <1>1, <1>2, <2>2, <2>4
  <1>6. CASE Pruned \/ \E ids : RevokeAll(ids)
    <2>1. DOMAIN sessions' = 1..n
      BY <1>1, <1>6 DEF Pruned, RevokeAll
    <2>2. ASSUME NEW i \in 1..n PROVE sessions'[i] \in Session /\ sessions'[i].user \in users
      <3>1. sessions'[i] \in {sessions[i], [sessions[i] EXCEPT !.state = "pruned"],
                              [sessions[i] EXCEPT !.state = "revoked"]}
        BY <1>1, <1>6 DEF Pruned, RevokeAll
      <3> QED BY <3>1, <1>2 DEF Session
    <2>3. sessions' = [i \in 1..n |-> sessions'[i]]
      BY <1>1, <1>6 DEF Pruned, RevokeAll
    <2>4. sessions' \in Seq(Session)
      BY <1>1, <2>2, <2>3, IsASeq
    <2> QED BY <1>1, <2>1, <2>2, <2>4
  <1>7. CASE Prolonged
    <2>1. PICK s \in 1..n, now \in Nat : sessions' = [sessions EXCEPT ![s] = Renewed(s, now)]
      BY <1>1, <1>7 DEF Prolonged
    <2>2. Renewed(s, now) \in Session /\ Renewed(s, now).user = sessions[s].user
      <3>1. sessions[s] \in Session /\ now + Ttl \in Nat
        BY <1>2, IdentityAssumption
      <3>2. ASSUME NEW x \in Session, NEW later \in Nat
            PROVE  /\ [x EXCEPT !.seen = now, !.expires = later] \in Session
                   /\ [x EXCEPT !.seen = now, !.expires = later].user = x.user
        BY DEF Session
      <3> QED BY <3>1, <3>2 DEF Renewed
    <2>3. sessions' \in Seq(Session)
      BY <1>1, <2>1, <2>2, ExceptSeq
    <2>4. DOMAIN sessions' = 1..n
      BY <1>1, <2>1
    <2>5. \A i \in 1..n : sessions'[i].user = sessions[i].user
      BY <1>1, <2>1, <2>2
    <2> QED BY <1>1, <1>2, <2>3, <2>4, <2>5
  <1> QED BY <1>4, <1>5, <1>6, <1>7 DEF SessionStep

-----------------------------------------------------------------------------
(***************************************************************************)
(* What a step does to the tables that administration changes.             *)
(***************************************************************************)
Tables ==
    /\ configured \in BOOLEAN
    /\ users \subseteq User /\ active \subseteq users /\ mustChange \subseteq users
    /\ Protected \subseteq roles /\ roles \subseteq Role
    /\ userRoles \subseteq users \X roles
    /\ rolePermissions \subseteq roles \X Perm /\ Protected \X Perm \subseteq rolePermissions

SetsUp ==
    \E u \in User :
        /\ configured' = TRUE
        /\ users' = users \cup {u} /\ active' = active \cup {u}
        /\ userRoles' = userRoles \cup {<<u, Admin>>}
        /\ UNCHANGED <<mustChange, roles, rolePermissions>>
AddsUser ==
    \E u \in User :
        /\ users' = users \cup {u} /\ active' = active \cup {u}
        /\ mustChange' = mustChange \cup {u}
        /\ UNCHANGED <<configured, roles, userRoles, rolePermissions>>
Activates ==
    \E u \in users :
        /\ active' = active \cup {u}
        /\ UNCHANGED <<configured, users, mustChange, roles, userRoles, rolePermissions>>
Deactivates ==
    \E u \in users :
        /\ MayDeactivate(u) /\ active' = active \ {u}
        /\ UNCHANGED <<configured, users, mustChange, roles, userRoles, rolePermissions>>
Flags ==
    /\ mustChange' \subseteq users
    /\ UNCHANGED <<configured, users, active, roles, userRoles, rolePermissions>>
Assigns ==
    \E u \in users, to \in Assigned :
        /\ MayReplace(u, to)
        /\ userRoles' = {g \in userRoles : g[1] # u} \cup ({u} \X to)
        /\ UNCHANGED <<configured, users, active, mustChange, roles, rolePermissions>>
SetsMatrix ==
    \E x \in roles \ Protected, to \in Matrices :
        /\ rolePermissions' = {g \in rolePermissions : g[1] # x} \cup ({x} \X to)
        /\ UNCHANGED <<configured, users, active, mustChange, roles, userRoles>>
AddsRole ==
    \E x \in Role :
        /\ roles' = roles \cup {x}
        /\ UNCHANGED <<configured, users, active, mustChange, userRoles, rolePermissions>>
DropsRole ==
    \E x \in Role \ Protected :
        /\ MayDelete(x) /\ roles' = roles \ {x}
        /\ rolePermissions' = {g \in rolePermissions : g[1] # x}
        /\ UNCHANGED <<configured, users, active, mustChange, userRoles>>

TableStep ==
    \/ UNCHANGED <<configured, admin>>
    \/ SetsUp \/ AddsUser \/ Activates \/ Deactivates \/ Flags
    \/ Assigns \/ SetsMatrix \/ AddsRole \/ DropsRole

(* What a request that writes holds: its operation, and what it relies on. *)
LEMMA Writer ==
    ASSUME Typed, NEW r \in Request, At(r, "write")
    PROVE  /\ req[r] \in Held /\ req[r].op \in Op
           /\ req[r].session \in DOMAIN sessions
           /\ req[r].op.do \in {"activate", "deactivate", "reset", "assign"}
                  => req[r].op.user \in users
           /\ req[r].op.do \in {"matrix", "deleteRole"} => req[r].op.role \notin Protected
  <1>1. req[r] \in Pending /\ Holding(req[r]) /\ Relies(req[r], users, DOMAIN sessions)
    BY DEF At, Holding, Typed, TypeOK, Reliable
  <1>2. req[r] \in Held
    BY <1>1, HeldRequest
  <1> QED BY <1>1, <1>2 DEF Relies, Held

(* Every step of the program is one of these. *)
LEMMA StepOfTables ==
    ASSUME Typed, [Next]_vars
    PROVE  TableStep
  <1>1. ASSUME NEW r \in Request, NEW u \in User, SetUp(r, u) PROVE TableStep
    <2>1. SetsUp \/ UNCHANGED <<configured, admin>>
      BY <1>1 DEF SetUp, SetsUp, admin
    <2> QED BY <2>1 DEF TableStep
  <1>2. ASSUME NEW r \in Request, CreateUser(r) PROVE TableStep
    <2>1. req[r].op.user \in User
      BY <1>2, Writer, UserOp DEF CreateUser, Writing
    <2>2. AddsUser \/ UNCHANGED <<configured, admin>>
      BY <1>2, <2>1 DEF CreateUser, AddsUser, admin
    <2> QED BY <2>2 DEF TableStep
  <1>3. ASSUME NEW r \in Request, Activate(r) \/ Deactivate(r) PROVE TableStep
    <2>1. req[r].op.user \in users
      BY <1>3, Writer DEF Activate, Deactivate, Writing
    <2>2. Activates \/ Deactivates \/ UNCHANGED <<configured, admin>>
      BY <1>3, <2>1 DEF Activate, Deactivate, Activates, Deactivates, admin
    <2> QED BY <2>2 DEF TableStep
  <1>4. ASSUME NEW r \in Request, ChangePassword(r) \/ ResetPassword(r) PROVE TableStep
    <2>1. ResetPassword(r) => req[r].op.user \in users
      BY Writer DEF ResetPassword, Writing
    <2>2. mustChange \subseteq users
      BY DEF Typed, TypeOK
    <2>3. Flags
      BY <1>4, <2>1, <2>2 DEF ChangePassword, ResetPassword, Flags
    <2> QED BY <2>3 DEF TableStep
  <1>5. ASSUME NEW r \in Request, AssignRoles(r) PROVE TableStep
    <2>1. req[r].op.user \in users /\ req[r].op.to \in Assigned
      BY <1>5, Writer, AssignOp DEF AssignRoles, Writing
    <2>2. Assigns \/ UNCHANGED <<configured, admin>>
      BY <1>5, <2>1 DEF AssignRoles, Assigns, admin
    <2> QED BY <2>2 DEF TableStep
  <1>6. ASSUME NEW r \in Request, SetMatrix(r) PROVE TableStep
    <2>1. req[r].op.role \notin Protected /\ req[r].op.to \in Matrices
      BY <1>6, Writer, MatrixOp DEF SetMatrix, Writing
    <2>2. SetsMatrix \/ UNCHANGED <<configured, admin>>
      BY <1>6, <2>1 DEF SetMatrix, SetsMatrix, admin
    <2> QED BY <2>2 DEF TableStep
  <1>7. ASSUME NEW r \in Request, CreateRole(r) \/ DeleteRole(r) PROVE TableStep
    <2>1. req[r].op.role \in Role
      BY <1>7, Writer, RoleOp DEF CreateRole, DeleteRole, Writing
    <2>2. DeleteRole(r) => req[r].op.role \notin Protected
      BY Writer DEF DeleteRole, Writing
    <2>3. AddsRole \/ DropsRole \/ UNCHANGED <<configured, admin>>
      BY <1>7, <2>1, <2>2 DEF CreateRole, DeleteRole, AddsRole, DropsRole, admin
    <2> QED BY <2>3 DEF TableStep
  <1>8. CASE \E r \in Request : \/ SetupStore(r) \/ SetupComplete(r) \/ LoginInsert(r)
                                \/ Prune(r) \/ Renew(r) \/ Revoke(r) \/ Drop(r)
    <2>1. UNCHANGED <<configured, admin>>
      BY <1>8 DEF SetupStore, SetupComplete, LoginInsert, Prune, Renew, Revoke, Drop, admin
    <2> QED BY <2>1 DEF TableStep
  <1>9. CASE \E r \in Request : \/ \E page \in BOOLEAN : SetupRead(r, page)
                                \/ \E u \in User : LoginRead(r, u)
                                \/ \E s \in DOMAIN sessions, op \in Op : Admit(r, s, op)
    <2>1. UNCHANGED <<configured, admin>>
      BY <1>9 DEF SetupRead, LoginRead, Admit, admin
    <2> QED BY <2>1 DEF TableStep
  <1>10. CASE Tick \/ Restart \/ UNCHANGED vars \/ \E s \in DOMAIN sessions : Logout(s)
    <2>1. UNCHANGED <<configured, admin>>
      BY <1>10 DEF Tick, Restart, Logout, vars, admin
    <2> QED BY <2>1 DEF TableStep
  <1> QED BY <1>1, <1>2, <1>3, <1>4, <1>5, <1>6, <1>7, <1>8, <1>9, <1>10 DEF Next, Proceed

(* The tables stay well formed, and users are never deleted. *)
LEMMA TablesKept ==
    ASSUME Tables, TableStep
    PROVE  Tables' /\ users \subseteq users'
  <1> USE IdentityAssumption
  <1>1. CASE UNCHANGED <<configured, admin>>
    BY <1>1 DEF Tables, admin
  <1>2. CASE SetsUp
    BY <1>2 DEF Tables, SetsUp
  <1>3. CASE AddsUser
    BY <1>3 DEF Tables, AddsUser
  <1>4. CASE Activates \/ Deactivates \/ Flags
    BY <1>4 DEF Tables, Activates, Deactivates, Flags
  <1>5. CASE Assigns
    <2>1. PICK u \in users, to \in Assigned :
              /\ to \subseteq roles
              /\ userRoles' = {g \in userRoles : g[1] # u} \cup ({u} \X to)
              /\ UNCHANGED <<configured, users, active, mustChange, roles, rolePermissions>>
      BY <1>5 DEF Assigns, MayReplace
    <2>2. userRoles' \subseteq users \X roles
      BY <2>1 DEF Tables
    <2> QED BY <2>1, <2>2 DEF Tables
  <1>6. CASE SetsMatrix
    <2>1. PICK x \in roles \ Protected, to \in Matrices :
              /\ rolePermissions' = {g \in rolePermissions : g[1] # x} \cup ({x} \X to)
              /\ UNCHANGED <<configured, users, active, mustChange, roles, userRoles>>
      BY <1>6 DEF SetsMatrix
    <2>2. to \subseteq Perm
      OBVIOUS
    <2>3. rolePermissions' \subseteq roles \X Perm
      BY <2>1, <2>2 DEF Tables
    <2>4. Protected \X Perm \subseteq rolePermissions'
      BY <2>1 DEF Tables
    <2> QED BY <2>1, <2>3, <2>4 DEF Tables
  <1>7. CASE AddsRole
    BY <1>7 DEF Tables, AddsRole
  <1>8. CASE DropsRole
    <2>1. PICK x \in Role \ Protected :
              /\ MayDelete(x) /\ roles' = roles \ {x}
              /\ rolePermissions' = {g \in rolePermissions : g[1] # x}
              /\ UNCHANGED <<configured, users, active, mustChange, userRoles>>
      BY <1>8 DEF DropsRole
    <2>2. \A u \in users : <<u, x>> \notin userRoles
      BY <2>1 DEF MayDelete, Holds
    <2>3. userRoles' \subseteq users \X roles'
      BY <2>1, <2>2 DEF Tables
    <2>4. rolePermissions' \subseteq roles' \X Perm /\ Protected \X Perm \subseteq rolePermissions'
      BY <2>1 DEF Tables
    <2> QED BY <2>1, <2>3, <2>4 DEF Tables
  <1> QED BY <1>1, <1>2, <1>3, <1>4, <1>5, <1>6, <1>7, <1>8 DEF TableStep

-----------------------------------------------------------------------------
(***************************************************************************)
(* Requests, and typing.                                                   *)
(***************************************************************************)

(* A login, a setup form or a page view goes on with what it has read. *)
LEMMA StartsKept ==
    ASSUME Typed, NEW r \in Request, users \subseteq users',
           DOMAIN sessions \subseteq DOMAIN sessions',
           \/ \E page \in BOOLEAN : SetupRead(r, page)
           \/ \E u \in User : LoginRead(r, u)
           \/ \E s \in DOMAIN sessions, op \in Op : Admit(r, s, op)
    PROVE  req' \in [Request -> Pending] /\ Reliable'
  <1>1. clock \in Nat /\ configured \in BOOLEAN /\ active \subseteq users /\ users \subseteq User
    BY IdentityAssumption DEF Typed, TypeOK
  <1>2. ASSUME NEW page \in BOOLEAN, SetupRead(r, page)
        PROVE  req' \in [Request -> Pending] /\ Reliable'
    <2> DEFINE q == [step |-> "store", page |-> page, seen |-> configured]
    <2>1. q \in Pending
      BY <1>1 DEF Pending
    <2>2. Relies(q, users', DOMAIN sessions')
      BY DEF Relies, Holding
    <2>3. Continue(r, q)
      BY <1>2 DEF SetupRead
    <2> QED BY <2>1, <2>2, <2>3, RequestsKept
  <1>3. ASSUME NEW u \in User, LoginRead(r, u)
        PROVE  req' \in [Request -> Pending] /\ Reliable'
    <2> DEFINE q == [step |-> "insert", user |-> u, now |-> clock]
    <2>1. q \in Pending
      BY <1>1 DEF Pending
    <2>2. Relies(q, users', DOMAIN sessions')
      BY <1>1, <1>3 DEF Relies, Holding, LoginRead
    <2>3. Continue(r, q)
      BY <1>3 DEF LoginRead
    <2> QED BY <2>1, <2>2, <2>3, RequestsKept
  <1>4. ASSUME NEW s \in DOMAIN sessions, NEW op \in Op, Admit(r, s, op)
        PROVE  req' \in [Request -> Pending] /\ Reliable'
    <2> DEFINE a == sessions[s].user
               todo == IF Allowed(a, op) THEN op ELSE [do |-> "view"]
    <2>1. todo \in Op
      BY DEF Op
    <2>2. /\ todo.do \in {"activate", "deactivate", "reset", "assign"} => todo.user \in users
          /\ todo.do \in {"matrix", "deleteRole"} => todo.role \notin Protected
      BY <1>1 DEF Allowed
    <2>3. PICK step \in {"renew", "write"} :
              Continue(r, [step |-> step, session |-> s, now |-> clock, op |-> todo])
      BY <1>4 DEF Admit
    <2> HIDE DEF todo
    <2> DEFINE q == [step |-> step, session |-> s, now |-> clock, op |-> todo]
    <2>4. s \in Nat \ {0}
      BY DEF Typed, TypeOK
    <2>5. q \in Pending
      BY <1>1, <2>1, <2>4 DEF Pending
    <2>6. Relies(q, users', DOMAIN sessions')
      BY <2>2 DEF Relies, Holding
    <2>7. Continue(r, q)
      BY <2>3
    <2> QED BY <2>5, <2>6, <2>7, RequestsKept
  <1> QED BY <1>2, <1>3, <1>4

(* So does a request under way, and one that is dropped. *)
LEMMA ProceedKept ==
    ASSUME Typed, NEW r \in Request, users \subseteq users',
           DOMAIN sessions \subseteq DOMAIN sessions', Proceed(r) \/ Drop(r)
    PROVE  req' \in [Request -> Pending] /\ Reliable'
  <1>1. CASE Finish(r)
    BY <1>1, RequestsFinish
  <1>2. ASSUME NEW step \in {"setUp", "complete", "prune"}, Continue(r, [step |-> step])
        PROVE  req' \in [Request -> Pending] /\ Reliable'
    <2>1. [step |-> step] \in Pending
      BY DEF Pending
    <2>2. Relies([step |-> step], users', DOMAIN sessions')
      BY DEF Relies, Holding
    <2> QED BY <1>2, <2>1, <2>2, RequestsKept
  <1>3. ASSUME NEW step \in {"write", "revoke"}, Holding(req[r]),
               Continue(r, [req[r] EXCEPT !.step = step])
        PROVE  req' \in [Request -> Pending] /\ Reliable'
    <2>1. req[r] \in Held /\ Relies(req[r], users, DOMAIN sessions)
      BY <1>3, HeldRequest DEF Typed, TypeOK, Reliable
    <2>2. ASSUME NEW x \in Held, Relies(x, users, DOMAIN sessions)
          PROVE  /\ [x EXCEPT !.step = step] \in Held
                 /\ Relies([x EXCEPT !.step = step], users', DOMAIN sessions')
      BY <2>2 DEF Held, Relies, Holding
    <2>3. Held \subseteq Pending
      BY DEF Held, Pending
    <2> QED BY <1>3, <2>1, <2>2, <2>3, RequestsKept
  <1>4. \/ Finish(r)
        \/ \E step \in {"setUp", "complete", "prune"} : Continue(r, [step |-> step])
        \/ /\ Holding(req[r])
           /\ \E step \in {"write", "revoke"} : Continue(r, [req[r] EXCEPT !.step = step])
    <2>1. CASE \/ SetupStore(r) \/ SetupComplete(r) \/ LoginInsert(r) \/ Prune(r)
               \/ \E u \in User : SetUp(r, u)
      BY <2>1 DEF SetupStore, SetupComplete, LoginInsert, Prune, SetUp
    <2>2. CASE Renew(r) \/ ChangePassword(r) \/ Deactivate(r)
      BY <2>2 DEF Renew, ChangePassword, Deactivate, Writing, At, Holding
    <2>3. CASE \/ Revoke(r) \/ CreateUser(r) \/ Activate(r) \/ ResetPassword(r)
               \/ AssignRoles(r) \/ SetMatrix(r) \/ CreateRole(r) \/ DeleteRole(r) \/ Drop(r)
      BY <2>3 DEF Revoke, CreateUser, Activate, ResetPassword, AssignRoles, SetMatrix,
                  CreateRole, DeleteRole, Drop
    <2> QED BY <2>1, <2>2, <2>3 DEF Proceed
  <1> QED BY <1>1, <1>2, <1>3, <1>4

(* And all of them at once, when the process restarts. *)
LEMMA StepOfRequests ==
    ASSUME Typed, [Next]_vars, users \subseteq users', DOMAIN sessions \subseteq DOMAIN sessions'
    PROVE  req' \in [Request -> Pending] /\ Reliable'
  <1>1. CASE \E r \in Request :
                 \/ Proceed(r) \/ Drop(r)
                 \/ \E page \in BOOLEAN : SetupRead(r, page)
                 \/ \E u \in User : LoginRead(r, u)
                 \/ \E s \in DOMAIN sessions, op \in Op : Admit(r, s, op)
    BY <1>1, ProceedKept, StartsKept
  <1>2. CASE Restart
    <2>1. Idle \in Pending
      BY DEF Pending
    <2> QED BY <1>2, <2>1 DEF Restart, Reliable, Relies, Holding, Idle
  <1>3. CASE Tick \/ UNCHANGED vars \/ \E s \in DOMAIN sessions : Logout(s)
    <2>1. UNCHANGED req
      BY <1>3 DEF Tick, vars, Logout
    <2>2. req' \in [Request -> Pending]
      BY <2>1 DEF Typed, TypeOK
    <2>3. \A r \in Request : Relies(req[r], users', DOMAIN sessions')
      BY DEF Typed, Reliable, Relies
    <2> QED BY <2>1, <2>2, <2>3 DEF Reliable
  <1> QED BY <1>1, <1>2, <1>3 DEF Next

(* The clock and the flag of the setup gate. *)
LEMMA ClockAndGate ==
    ASSUME Typed, [Next]_vars
    PROVE  clock' \in 0..MaxTime /\ setupRequired' \in BOOLEAN
  <1>1. clock \in 0..MaxTime /\ setupRequired \in BOOLEAN /\ MaxTime \in Nat
    BY IdentityAssumption DEF Typed, TypeOK
  <1>2. CASE Tick
    BY <1>1, <1>2 DEF Tick
  <1>3. CASE Restart
    BY <1>1, <1>3 DEF Restart
  <1>4. CASE \E r \in Request : \/ SetupStore(r) \/ SetupComplete(r) \/ LoginInsert(r)
                                \/ Prune(r) \/ Renew(r) \/ Revoke(r) \/ Drop(r)
    BY <1>1, <1>4 DEF SetupStore, SetupComplete, LoginInsert, Prune, Renew, Revoke, Drop
  <1>5. CASE \E r \in Request : \/ ChangePassword(r) \/ CreateUser(r) \/ Activate(r)
                                \/ Deactivate(r) \/ ResetPassword(r) \/ AssignRoles(r)
                                \/ SetMatrix(r) \/ CreateRole(r) \/ DeleteRole(r)
    BY <1>1, <1>5 DEF ChangePassword, CreateUser, Activate, Deactivate, ResetPassword,
                      AssignRoles, SetMatrix, CreateRole, DeleteRole
  <1>6. CASE \E r \in Request : \/ \E page \in BOOLEAN : SetupRead(r, page)
                                \/ \E u \in User : LoginRead(r, u) \/ SetUp(r, u)
                                \/ \E s \in DOMAIN sessions, op \in Op : Admit(r, s, op)
    BY <1>1, <1>6 DEF SetupRead, LoginRead, SetUp, Admit
  <1>7. CASE UNCHANGED vars \/ \E s \in DOMAIN sessions : Logout(s)
    BY <1>1, <1>7 DEF vars, Logout
  <1> QED BY <1>2, <1>3, <1>4, <1>5, <1>6, <1>7 DEF Next, Proceed

(* Typing is inductive. *)
LEMMA InitTyped ==
    ASSUME Init
    PROVE  Typed
  <1> USE IdentityAssumption
  <1>1. Tables
    <2>1. PICK holders \in SUBSET users : userRoles = holders \X {Admin}
      BY DEF Init
    <2>2. userRoles \subseteq users \X roles
      BY <2>1 DEF Init
    <2>3. rolePermissions \subseteq roles \X Perm
      BY DEF Init
    <2> QED BY <2>2, <2>3 DEF Init, Tables
  <1>2. sessions \in Seq(Session) /\ DOMAIN sessions = {}
    BY EmptySeq DEF Init
  <1>3. req \in [Request -> Pending] /\ \A r \in Request : req[r] = Idle
    BY DEF Init, Pending
  <1>4. clock \in 0..MaxTime /\ setupRequired \in BOOLEAN
    BY DEF Init
  <1>5. \A r \in Request : req[r].step = "idle"
    BY <1>3 DEF Idle
  <1>6. TypeOK
    BY <1>1, <1>2, <1>3, <1>4, <1>5 DEF Tables, TypeOK
  <1>7. Reliable
    BY <1>5 DEF Reliable, Relies, Holding
  <1> QED BY <1>6, <1>7 DEF Typed

LEMMA StepTyped ==
    ASSUME Typed, [Next]_vars
    PROVE  Typed'
  <1>1. Tables
    BY DEF Typed, TypeOK, Tables
  <1>2. Tables' /\ users \subseteq users'
    BY <1>1, StepOfTables, TablesKept
  <1>3. /\ sessions' \in Seq(Session) /\ DOMAIN sessions \subseteq DOMAIN sessions'
        /\ \A i \in DOMAIN sessions' : sessions'[i].user \in users'
    BY <1>2, StepOfSessions, SessionsGrow
  <1>4. req' \in [Request -> Pending] /\ Reliable'
    BY <1>2, <1>3, StepOfRequests
  <1>5. clock' \in 0..MaxTime /\ setupRequired' \in BOOLEAN
    BY ClockAndGate
  <1>6. \A r \in Request : req'[r].step \in {"renew", "write", "revoke"} =>
                               req'[r].session \in DOMAIN sessions'
    BY <1>4 DEF Reliable, Relies, Holding
  <1>7. TypeOK'
    BY <1>2, <1>3, <1>4, <1>5, <1>6 DEF TypeOK, Tables
  <1> QED BY <1>4, <1>7 DEF Typed

(* The foreign keys of sessions, assignments and matrices hold, protected    *)
(* roles keep every permission, and requests under way hold ids that exist:  *)
(* what TypeOK says, and what each request relies on.                        *)
THEOREM IdentityTyped == Spec => []Typed
  BY InitTyped, StepTyped, PTL DEF Spec

(* The same, as the runs check it. *)
THEOREM IdentityTyping == Spec => []TypeOK
  <1>1. Typed => TypeOK
    BY DEF Typed
  <1> QED BY <1>1, IdentityTyped, PTL

-----------------------------------------------------------------------------
(***************************************************************************)
(* An administrator always remains.                                        *)
(***************************************************************************)

(* No step takes the last active holder of the protected roles away,         *)
(* whatever the requests had read before: the triggers judge the rows of     *)
(* the moment.                                                               *)
LEMMA StepKeepsAdministrator ==
    ASSUME Typed, AdministratorExists, TableStep
    PROVE  AdministratorExists'
  <1>1. active \subseteq users /\ users \subseteq User /\ Protected \subseteq Role
        /\ userRoles \subseteq users \X roles /\ Admin \in Protected
    BY IdentityAssumption DEF Typed, TypeOK
  <1> DEFINE Admins(as, grants) == \E u \in as : \E x \in Protected : <<u, x>> \in grants
  <1>2. AdministratorExists <=> (configured => Admins(active, userRoles))
    BY <1>1 DEF AdministratorExists, HoldsProtected, Holds
  <1>3. AdministratorExists' <=> (configured' => Admins(active', userRoles'))
    BY <1>1 DEF AdministratorExists, HoldsProtected, Holds
  <1>4. ASSUME active \subseteq active', userRoles \subseteq userRoles', UNCHANGED configured
        PROVE  AdministratorExists'
    BY <1>2, <1>3, <1>4
  <1>5. CASE SetsUp
    BY <1>1, <1>3, <1>5 DEF SetsUp
  <1>6. CASE Deactivates
    <2>1. PICK u \in users : /\ MayDeactivate(u) /\ active' = active \ {u}
                             /\ UNCHANGED <<configured, userRoles>>
      BY <1>6 DEF Deactivates
    <2>2. SUFFICES ASSUME configured PROVE Admins(active \ {u}, userRoles)
      BY <1>3, <2>1
    <2>3. PICK v \in active : HoldsProtected(v)
      BY <2>2 DEF AdministratorExists
    <2>4. \E w \in active \ {u} : HoldsProtected(w)
      BY <2>1, <2>3 DEF MayDeactivate
    <2> QED BY <2>4 DEF HoldsProtected, Holds
  <1>7. CASE Assigns
    <2>1. PICK u \in users, to \in Assigned :
              /\ MayReplace(u, to)
              /\ userRoles' = {g \in userRoles : g[1] # u} \cup ({u} \X to)
              /\ UNCHANGED <<configured, active>>
      BY <1>7 DEF Assigns
    <2>2. SUFFICES ASSUME configured PROVE Admins(active, userRoles')
      BY <1>3, <2>1
    <2>3. PICK v \in active, x \in Protected : <<v, x>> \in userRoles
      BY <1>2, <2>2
    <2>4. CASE v # u
      BY <2>1, <2>3, <2>4
    <2>5. CASE v = u /\ x \in to
      BY <2>1, <2>3, <2>5
    <2>6. CASE v = u /\ x \notin to
      <3>1. MayUngrant(u, x)
        BY <1>1, <2>1, <2>3, <2>6 DEF MayReplace, Holds
      <3>2. PICK w \in active \ {u} : <<w, x>> \in userRoles
        BY <2>3, <2>6, <3>1 DEF MayUngrant
      <3> QED BY <2>1, <2>3, <3>2
    <2> QED BY <2>4, <2>5, <2>6
  <1>8. CASE UNCHANGED <<configured, admin>> \/ AddsUser \/ Activates \/ Flags
    BY <1>4, <1>8 DEF admin, AddsUser, Activates, Flags
  <1>9. CASE SetsMatrix \/ AddsRole \/ DropsRole
    BY <1>4, <1>9 DEF SetsMatrix, AddsRole, DropsRole
  <1> QED BY <1>5, <1>6, <1>7, <1>8, <1>9 DEF TableStep

(* Once the instance is set up, an active user holds a protected role. *)
THEOREM AdministratorRemains == Spec => []AdministratorExists
  <1>1. Init => AdministratorExists
    BY DEF Init, AdministratorExists
  <1>2. Typed /\ AdministratorExists /\ [Next]_vars => AdministratorExists'
    BY StepOfTables, StepKeepsAdministrator
  <1> QED BY <1>1, <1>2, IdentityTyped, PTL DEF Spec

-----------------------------------------------------------------------------
(***************************************************************************)
(* Revocation is permanent.                                                *)
(***************************************************************************)

(* A renewal that read the session as live writes nothing once it is         *)
(* revoked: the statement carries the condition again.                       *)
LEMMA StepKeepsRevoked ==
    ASSUME Typed, SessionStep, NEW i \in DOMAIN sessions
    PROVE  /\ sessions[i].state = "revoked" =>
                  sessions'[i] \in {sessions[i], [sessions[i] EXCEPT !.state = "pruned"]}
           /\ sessions[i].state = "pruned" => sessions'[i] = sessions[i]
  <1>1. sessions \in Seq(Session) /\ i \in 1..Len(sessions)
    BY DEF Typed, TypeOK
  <1>2. sessions[i] \in Session
    BY <1>1, ElementOfSeq
  <1>3. CASE sessions' = sessions
    BY <1>3
  <1>4. CASE Opened
    <2>1. sessions'[i] = sessions[i]
      BY <1>1, <1>4 DEF Opened
    <2> QED BY <2>1
  <1>5. CASE Pruned
    <2>1. sessions[i].state = "pruned" => [sessions[i] EXCEPT !.state = "pruned"] = sessions[i]
      <3>1. ASSUME NEW x \in Session, x.state = "pruned"
            PROVE  [x EXCEPT !.state = "pruned"] = x
        BY <3>1 DEF Session
      <3> QED BY <1>2, <3>1
    <2>2. sessions'[i] \in {sessions[i], [sessions[i] EXCEPT !.state = "pruned"]}
      BY <1>5 DEF Pruned
    <2> QED BY <2>1, <2>2
  <1>6. CASE Prolonged
    <2>1. PICK s \in DOMAIN sessions, now \in Nat :
              Renewable(s) /\ sessions' = [sessions EXCEPT ![s] = Renewed(s, now)]
      BY <1>6 DEF Prolonged
    <2>2. CASE i # s
      BY <2>1, <2>2
    <2>3. CASE i = s
      BY <2>1, <2>3 DEF Renewable
    <2> QED BY <2>2, <2>3
  <1>7. CASE \E ids : RevokeAll(ids)
    BY <1>7 DEF RevokeAll
  <1> QED BY <1>3, <1>4, <1>5, <1>6, <1>7 DEF SessionStep

(* No renewal, password change, deactivation, crash or restart brings a     *)
(* revoked session back.                                                    *)
THEOREM RevocationStays == Spec => RevokedStays
  <1>1. Typed /\ [Next]_vars =>
            [\A i \in DOMAIN sessions :
                /\ sessions[i].state = "revoked" =>
                       sessions'[i] \in {sessions[i], [sessions[i] EXCEPT !.state = "pruned"]}
                /\ sessions[i].state = "pruned" => sessions'[i] = sessions[i]]_vars
    BY StepOfSessions, StepKeepsRevoked
  <1> QED BY <1>1, IdentityTyped, PTL DEF Spec, RevokedStays
=============================================================================
