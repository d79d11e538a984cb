-------------------------------- MODULE Identity --------------------------------
(***************************************************************************)
(* First-run setup, users, roles and sessions (services/setup.rs,          *)
(* services/identity.rs, their repositories, and the triggers of           *)
(* migrations 26 to 28 and 34).  Tables are sets of ids and of pairs; a    *)
(* password is verified outside the model, and the login throttle, which   *)
(* lives in memory and only refuses, is left out.                          *)
(*                                                                         *)
(* A request reads its session, the permissions of its user and what its   *)
(* handler checks in one step, and then runs its statements one by one,    *)
(* each a transaction of its own: the triggers and foreign keys judge the  *)
(* rows of that moment, whatever was read.  A request may be dropped where *)
(* it stands, and a restart drops every one.                               *)
(***************************************************************************)
EXTENDS Naturals, Sequences, FiniteSets

CONSTANTS User, Role,
          Protected, Admin,     \* roles with is_system set, and the one setup grants
          Assigned, Matrices,   \* role sets and permission sets that forms submit
          Ttl, Horizon,         \* SessionPolicy: lifetime, and idle time before a renewal
          Request,              \* request slots
          MaxTime, MaxSessions  \* bounds on the clock and on logins

UsersManage == "identity.users.manage"
RolesManage == "identity.roles.manage"
Perm == {UsersManage, RolesManage}

ASSUME IdentityAssumption ==
    /\ Admin \in Protected /\ Protected \subseteq Role
    /\ Assigned \subseteq SUBSET Role /\ Matrices \subseteq SUBSET Perm
    /\ Ttl \in Nat \ {0} /\ Horizon \in Nat
    /\ MaxTime \in Nat /\ MaxSessions \in Nat

VARIABLES configured,       \* business_settings has its row
          setupRequired,    \* the flag of AppState that the setup gate loads
          users, active, mustChange,   \* rows of users, and those with each flag
          roles,            \* rows of roles
          userRoles,        \* user_roles, as pairs
          rolePermissions,  \* role_permissions, as pairs
          sessions,         \* session rows by id
          clock,
          req               \* what each request is about to do

admin == <<users, active, mustChange, roles, userRoles, rolePermissions>>
vars == <<configured, setupRequired, admin, sessions, clock, req>>

Session == [user : User, seen : Nat, expires : Nat,
            state : {"live", "revoked", "pruned"}]

\* What a request with a session may ask for.
Op == [do : {"view", "password"}]
          \cup [do : {"create", "activate", "deactivate", "reset"}, user : User]
          \cup [do : {"assign"}, user : User, to : Assigned]
          \cup [do : {"matrix"}, role : Role, to : Matrices]
          \cup [do : {"createRole", "deleteRole"}, role : Role]

Idle == [step |-> "idle"]
Pending ==
    {Idle} \cup [step : {"store"}, page : BOOLEAN, seen : BOOLEAN]
           \cup [step : {"setUp", "complete", "prune"}]
           \cup [step : {"insert"}, user : User, now : Nat]
           \cup [step : {"renew", "write", "revoke"}, session : Nat \ {0}, now : Nat, op : Op]

Init ==
    /\ configured = FALSE /\ setupRequired = TRUE   \* a new database, or one of before the setup form
    /\ users \in SUBSET User /\ active = users /\ mustChange = {}
    /\ roles = Role
    /\ \E holders \in SUBSET users : userRoles = holders \X {Admin}
    /\ rolePermissions = Protected \X Perm
    /\ sessions = <<>> /\ clock = 0
    /\ req = [r \in Request |-> Idle]

------------------------------------------------------------------------------
Holds(u) == {x \in Role : <<u, x>> \in userRoles}
Effective(u) == {c \in Perm : \E x \in Holds(u) : <<x, c>> \in rolePermissions}
HoldsProtected(u) == Holds(u) \cap Protected # {}

\* Mutant: what happens when holders who cannot sign in count.
MayDeactivateInactive(u) ==
    u \in active /\ HoldsProtected(u) => \E v \in users \ {u} : HoldsProtected(v)

\* trg_users_last_protected_holder_no_deactivate
MayDeactivate(u) ==
    u \in active /\ HoldsProtected(u) => \E v \in active \ {u} : HoldsProtected(v)
\* trg_user_roles_last_protected_grant_no_delete
MayUngrant(u, x) ==
    x \in Protected /\ u \in active => \E v \in active \ {u} : <<v, x>> \in userRoles

Start(r) == req[r] = Idle /\ ~setupRequired   \* setup_gate is the outermost layer
At(r, step) == req[r].step = step
Continue(r, next) == req' = [req EXCEPT ![r] = next]
Finish(r) == Continue(r, Idle)

------------------------------------------------------------------------------
\* GET and POST of /setup: both read the table again and store the flag.
SetupRead(r, page) ==
    /\ req[r] = Idle
    /\ Continue(r, [step |-> "store", page |-> page, seen |-> configured])
    /\ UNCHANGED <<configured, setupRequired, admin, sessions, clock>>

\* Mutant: what happens when the form only ever closes the gate.
SetupStoreClosing(r) ==
    /\ At(r, "store")
    /\ setupRequired' = (setupRequired \/ ~req[r].seen)
    /\ IF req[r].page \/ req[r].seen THEN Finish(r) ELSE Continue(r, [step |-> "setUp"])
    /\ UNCHANGED <<configured, admin, sessions, clock>>

SetupStore(r) ==
    /\ At(r, "store")
    /\ setupRequired' = ~req[r].seen
    /\ IF req[r].page \/ req[r].seen THEN Finish(r) ELSE Continue(r, [step |-> "setUp"])
    /\ UNCHANGED <<configured, admin, sessions, clock>>

\* The singleton row and the username refuse the second of two.
MaySetUp(u) == ~configured /\ u \notin users

SetUp(r, u) ==
    /\ At(r, "setUp")
    /\ IF MaySetUp(u)
       THEN /\ configured' = TRUE
            /\ users' = users \cup {u} /\ active' = active \cup {u}
            /\ userRoles' = userRoles \cup {<<u, Admin>>}
            /\ Continue(r, [step |-> "complete"])
       ELSE UNCHANGED <<configured, users, active, userRoles>> /\ Finish(r)
    /\ UNCHANGED <<setupRequired, mustChange, roles, rolePermissions, sessions, clock>>

SetupComplete(r) ==
    /\ At(r, "complete")
    /\ setupRequired' = FALSE
    /\ Finish(r)
    /\ UNCHANGED <<configured, admin, sessions, clock>>

------------------------------------------------------------------------------
LoginRead(r, u) ==
    /\ Start(r) /\ u \in active
    /\ Len(sessions) + Cardinality({q \in Request : At(q, "insert")}) < MaxSessions
    /\ Continue(r, [step |-> "insert", user |-> u, now |-> clock])
    /\ UNCHANGED <<configured, setupRequired, admin, sessions, clock>>

LoginInsert(r) ==
    /\ At(r, "insert")
    /\ sessions' = Append(sessions, [user |-> req[r].user, seen |-> req[r].now,
                                     expires |-> req[r].now + Ttl, state |-> "live"])
    /\ Continue(r, [step |-> "prune"])
    /\ UNCHANGED <<configured, setupRequired, admin, clock>>

Prune(r) ==
    /\ At(r, "prune")
    /\ sessions' = [i \in DOMAIN sessions |->
                       IF sessions[i].expires <= clock \/ sessions[i].state # "live"
                       THEN [sessions[i] EXCEPT !.state = "pruned"] ELSE sessions[i]]
    /\ Finish(r)
    /\ UNCHANGED <<configured, setupRequired, admin, clock>>

RevokeAll(ids) ==
    sessions' = [i \in DOMAIN sessions |->
                    IF i \in ids /\ sessions[i].state = "live"
                    THEN [sessions[i] EXCEPT !.state = "revoked"] ELSE sessions[i]]

\* One statement, whatever the session has become.
Logout(s) ==
    /\ ~setupRequired
    /\ RevokeAll({s})
    /\ UNCHANGED <<configured, setupRequired, admin, clock, req>>

------------------------------------------------------------------------------
Valid(s) == /\ sessions[s].state = "live" /\ sessions[s].expires > clock
            /\ sessions[s].user \in active

\* What the guard, the route and the service check before the first write.
Allowed(a, op) ==
    /\ a \in mustChange => op.do = "password"
    /\ op.do \in {"create", "activate", "deactivate", "reset"} => UsersManage \in Effective(a)
    /\ op.do \in {"assign", "matrix", "createRole", "deleteRole"} => RolesManage \in Effective(a)
    /\ op.do = "create" => op.user \notin users
    /\ op.do = "activate" => op.user \in users \ active
    /\ op.do = "deactivate" => op.user \in active
    /\ op.do = "reset" =>
           /\ op.user \in users \ {a}
           /\ HoldsProtected(op.user) => RolesManage \in Effective(a)
    /\ op.do = "assign" => op.user \in users \ {a} /\ op.to \subseteq roles
    /\ op.do = "matrix" =>
           /\ op.role \in roles \ Protected
           /\ <<op.role, RolesManage>> \in rolePermissions /\ op.role \in Holds(a)
                  => RolesManage \in op.to
    /\ op.do = "createRole" => op.role \notin roles
    /\ op.do = "deleteRole" => op.role \in roles \ Protected /\ \A u \in users : op.role \notin Holds(u)

Admit(r, s, op) ==
    /\ Start(r) /\ Valid(s)
    /\ LET todo == IF Allowed(sessions[s].user, op) THEN op ELSE [do |-> "view"]
           next(step) == [step |-> step, session |-> s, now |-> clock, op |-> todo]
       IN  IF clock - sessions[s].seen > Horizon
           THEN Continue(r, next("renew"))
           ELSE todo.do # "view" /\ Continue(r, next("write"))
    /\ UNCHANGED <<configured, setupRequired, admin, sessions, clock>>

\* Mutant: what happens without `AND revoked_at IS NULL`.
RenewableEver(s) == sessions[s].state # "pruned"

Renewable(s) == sessions[s].state = "live"

Renewed(s, now) == [sessions[s] EXCEPT !.seen = now, !.expires = now + Ttl]

Renew(r) ==
    /\ At(r, "renew")
    /\ LET s == req[r].session
       IN  sessions' = IF Renewable(s)
                       THEN [sessions EXCEPT ![s] = Renewed(s, req[r].now)]
                       ELSE sessions
    /\ IF req[r].op.do = "view" THEN Finish(r) ELSE Continue(r, [req[r] EXCEPT !.step = "write"])
    /\ UNCHANGED <<configured, setupRequired, admin, clock>>

------------------------------------------------------------------------------
Writing(r, do) == At(r, "write") /\ req[r].op.do = do

ChangePassword(r) ==
    /\ Writing(r, "password")
    /\ mustChange' = mustChange \ {sessions[req[r].session].user}
    /\ Continue(r, [req[r] EXCEPT !.step = "revoke"])
    /\ UNCHANGED <<configured, setupRequired, users, active, roles, userRoles, rolePermissions,
                   sessions, clock>>

SessionsOf(u) == {i \in DOMAIN sessions : sessions[i].user = u}

\* The last statement of a password change and of a deactivation.
Revoke(r) ==
    /\ At(r, "revoke")
    /\ LET s == req[r].session
       IN  IF req[r].op.do = "password"
           THEN RevokeAll(SessionsOf(sessions[s].user) \ {s})
           ELSE RevokeAll(SessionsOf(req[r].op.user))
    /\ Finish(r)
    /\ UNCHANGED <<configured, setupRequired, admin, clock>>

CreateUser(r) ==
    /\ Writing(r, "create")
    /\ IF req[r].op.user \notin users
       THEN /\ users' = users \cup {req[r].op.user} /\ active' = active \cup {req[r].op.user}
            /\ mustChange' = mustChange \cup {req[r].op.user}
       ELSE UNCHANGED <<users, active, mustChange>>
    /\ Finish(r)
    /\ UNCHANGED <<configured, setupRequired, roles, userRoles, rolePermissions, sessions, clock>>

Activate(r) ==
    /\ Writing(r, "activate")
    /\ active' = active \cup {req[r].op.user}
    /\ Finish(r)
    /\ UNCHANGED <<configured, setupRequired, users, mustChange, roles, userRoles, rolePermissions,
                   sessions, clock>>

Deactivate(r) ==
    /\ Writing(r, "deactivate")
    /\ IF MayDeactivate(req[r].op.user)
       THEN /\ active' = active \ {req[r].op.user}
            /\ Continue(r, [req[r] EXCEPT !.step = "revoke"])
       ELSE UNCHANGED active /\ Finish(r)
    /\ UNCHANGED <<configured, setupRequired, users, mustChange, roles, userRoles, rolePermissions,
                   sessions, clock>>

ResetPassword(r) ==
    /\ Writing(r, "reset")
    /\ mustChange' = mustChange \cup {req[r].op.user}
    /\ Finish(r)
    /\ UNCHANGED <<configured, setupRequired, users, active, roles, userRoles, rolePermissions,
                   sessions, clock>>

\* replace_user_roles, one transaction: a refused row undoes it all.
MayReplace(u, to) ==
    to \subseteq roles /\ \A x \in Holds(u) \ to : MayUngrant(u, x)

AssignRoles(r) ==
    /\ Writing(r, "assign")
    /\ LET op == req[r].op
       IN  userRoles' = IF MayReplace(op.user, op.to)
                        THEN {g \in userRoles : g[1] # op.user} \cup ({op.user} \X op.to)
                        ELSE userRoles
    /\ Finish(r)
    /\ UNCHANGED <<configured, setupRequired, users, active, mustChange, roles, rolePermissions,
                   sessions, clock>>

SetMatrix(r) ==
    /\ Writing(r, "matrix")
    /\ LET op == req[r].op
       IN  rolePermissions' = IF op.role \in roles
                              THEN {g \in rolePermissions : g[1] # op.role}
                                       \cup ({op.role} \X op.to)
                              ELSE rolePermissions
    /\ Finish(r)
    /\ UNCHANGED <<configured, setupRequired, users, active, mustChange, roles, userRoles,
                   sessions, clock>>

CreateRole(r) ==
    /\ Writing(r, "createRole")
    /\ roles' = roles \cup {req[r].op.role}
    /\ Finish(r)
    /\ UNCHANGED <<configured, setupRequired, users, active, mustChange, userRoles,
                   rolePermissions, sessions, clock>>

\* Mutant, without the foreign key: the check of the handler is taken
\* for the answer of the database.
MayDeleteAny(x) == x \in roles

MayDelete(x) == \A u \in users : x \notin Holds(u)   \* ON DELETE RESTRICT of user_roles

DeleteRole(r) ==
    /\ Writing(r, "deleteRole")
    /\ LET x == req[r].op.role
       IN  IF MayDelete(x)
           THEN /\ roles' = roles \ {x}
                /\ rolePermissions' = {g \in rolePermissions : g[1] # x}
           ELSE UNCHANGED <<roles, rolePermissions>>
    /\ Finish(r)
    /\ UNCHANGED <<configured, setupRequired, users, active, mustChange, userRoles, sessions,
                   clock>>

------------------------------------------------------------------------------
Tick ==
    /\ clock < MaxTime
    /\ clock' = clock + 1
    /\ UNCHANGED <<configured, setupRequired, admin, sessions, req>>

\* A connection is closed and its handler dropped, or the database refuses.
Drop(r) ==
    /\ req[r] # Idle
    /\ Finish(r)
    /\ UNCHANGED <<configured, setupRequired, admin, sessions, clock>>

\* main reads the table before it serves.
Restart ==
    /\ setupRequired' = ~configured
    /\ req' = [r \in Request |-> Idle]
    /\ UNCHANGED <<configured, admin, sessions, clock>>

\* The steps of a request under way.
Proceed(r) ==
    \/ SetupStore(r) \/ SetupComplete(r) \/ \E u \in User : SetUp(r, u)
    \/ LoginInsert(r) \/ Prune(r) \/ Renew(r)
    \/ ChangePassword(r) \/ Revoke(r)
    \/ CreateUser(r) \/ Activate(r) \/ Deactivate(r) \/ ResetPassword(r)
    \/ AssignRoles(r) \/ SetMatrix(r) \/ CreateRole(r) \/ DeleteRole(r)

Next ==
    \/ \E r \in Request :
           \/ Proceed(r) \/ Drop(r)
           \/ \E page \in BOOLEAN : SetupRead(r, page)
           \/ \E u \in User : LoginRead(r, u)
           \/ \E s \in DOMAIN sessions, op \in Op : Admit(r, s, op)
    \/ \E s \in DOMAIN sessions : Logout(s)
    \/ Tick
    \/ Restart

Spec == Init /\ [][Next]_vars

\* The runtime polls every request and not every connection is closed early;
\* the gate sends a browser to the form.
SentToSetup(r) == setupRequired /\ SetupRead(r, TRUE)
Fairness == \A r \in Request : SF_vars(Proceed(r)) /\ WF_vars(SentToSetup(r))
FairSpec == Spec /\ Fairness

------------------------------------------------------------------------------
\* The tables are well formed and their foreign keys hold: a role in use is a
\* row of roles, whatever was deleted while it was being assigned.
TypeOK ==
    /\ configured \in BOOLEAN /\ setupRequired \in BOOLEAN
    /\ users \subseteq User /\ active \subseteq users /\ mustChange \subseteq users
    /\ Protected \subseteq roles /\ roles \subseteq Role
    /\ userRoles \subseteq users \X roles
    /\ rolePermissions \subseteq roles \X Perm /\ Protected \X Perm \subseteq rolePermissions
    /\ sessions \in Seq(Session)
    /\ \A i \in DOMAIN sessions : sessions[i].user \in users
    /\ clock \in 0..MaxTime
    /\ req \in [Request -> Pending]
    /\ \A r \in Request : req[r].step \in {"renew", "write", "revoke"} =>
           req[r].session \in DOMAIN sessions

\* Once the instance is set up, somebody who can sign in holds a protected
\* role: no order of deactivations and assignments takes the last one away.
AdministratorExists == configured => \E u \in active : HoldsProtected(u)

\* Revocation is permanent: a renewal that read the session before it was
\* revoked, a crash or a restart never brings it back.
RevokedStays ==
    [][\A i \in DOMAIN sessions :
           /\ sessions[i].state = "revoked" =>
                  sessions'[i] \in {sessions[i], [sessions[i] EXCEPT !.state = "pruned"]}
           /\ sessions[i].state = "pruned" => sessions'[i] = sessions[i]]_vars

\* A flag stored from a reading older than the setup may close the gate of an
\* instance that is set up; it opens again and stays open.
GateOpens == configured ~> []~setupRequired

\* What set_user_active promises (identity.rs:767): an inactive user cannot
\* hold a session.
InactiveHoldsNone ==
    (\A r \in Request : req[r] = Idle) =>
        \A i \in DOMAIN sessions :
            sessions[i].state = "live" /\ sessions[i].expires > clock =>
                sessions[i].user \in active
------------------------------------------------------------------------------
================================================================================
