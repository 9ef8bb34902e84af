------------------------------ MODULE DbGateway ------------------------------
(***************************************************************************)
(* The DatabaseClient of controller.py: the part of the PostgreSQL catalog  *)
(* the controller reads and writes, and the effect of each gateway call on  *)
(* it.  A call has its whole effect, or raises psycopg2.Error; which of    *)
(* the two is decided by the catalog (the "Ok" predicates below) or by a   *)
(* transient fault chosen in the Reconciler.  The pool holds one           *)
(* connection (DB_POOL_MIN_CONN = 1) and the calls are sequential, so every *)
(* call gets the connection the previous one returned: create_role puts it *)
(* in autocommit mode and nothing puts it back, after which a failed call  *)
(* keeps the statements that ran before the failure.                        *)
(***************************************************************************)
EXTENDS FiniteSets

CONSTANTS
    Names,         \* every role name of the cluster, users and groups alike
    SYSTEM_ROLES,  \* Config.SYSTEM_ROLES, a subset of Names
    BadPrivileges  \* users whose spec lists privileges PostgreSQL refuses

ASSUME SYSTEM_ROLES \cup BadPrivileges \subseteq Names

VARIABLES
    pg_roles,         \* name -> "absent", "login" or "nologin" (rolcanlogin)
    pg_auth_members,  \* name -> the set of roles granted directly to it
    autocommit        \* the pooled connection is in autocommit mode

catalog == <<pg_roles, pg_auth_members>>

RoleKind == {"absent", "login", "nologin"}

Exists(n) == pg_roles[n] # "absent"

-----------------------------------------------------------------------------
(* Queries.                                                                 *)

\* Mutant: the NOT IN (system roles) filter is left out of the query.
ListUsersAllRoles == {n \in Names : Exists(n)}

\* fetch_existing_users: every role not in SYSTEM_ROLES.  The query has no
\* rolcanlogin condition, so group roles are returned as well.
ListUsers == {n \in Names \ SYSTEM_ROLES : Exists(n)}

\* fetch_existing_roles: the roles that cannot log in, minus SYSTEM_ROLES.
ListGroups == {n \in Names \ SYSTEM_ROLES : pg_roles[n] = "nologin"}

\* fetch_user_roles: every role granted directly to the user, system roles
\* included; an unknown user simply has none.
UserRoles(u) == pg_auth_members[u]

-----------------------------------------------------------------------------
(* Mutations: the condition under which PostgreSQL accepts every statement  *)
(* of the call, and the call's effect when it does.                         *)

\* create_role: CREATE ROLE name NOLOGIN fails when any role has that name.
CreateRoleOk(r) == ~Exists(r)

CreateRole(r) ==
    /\ pg_roles' = [pg_roles EXCEPT ![r] = "nologin"]
    /\ UNCHANGED pg_auth_members

\* _grant_privileges: GRANT <privilege> ON <object> for each listed pair, the
\* privilege spliced in unquoted; a misspelt keyword or a missing table
\* fails it, on every attempt.
PrivilegesGranted(u) == u \notin BadPrivileges

\* create_user: CREATE USER, GRANT CONNECT, one GRANT per role, then the
\* privileges, in one transaction; it fails when the name is taken, a
\* granted role is absent or a privilege is refused.
CreateUserOk(u, roles) ==
    /\ ~Exists(u)
    /\ \A r \in roles : Exists(r) /\ r # u
    /\ PrivilegesGranted(u)

CreateUser(u, roles) ==
    /\ pg_roles' = [pg_roles EXCEPT ![u] = "login"]
    /\ pg_auth_members' = [pg_auth_members EXCEPT ![u] = roles]

\* update_user_roles: REVOKE each role of old \ new, then GRANT each role of
\* new \ old, in one transaction.  Revoking a membership the user does not
\* have is only a warning; naming an absent role or user is an error.
UpdateUserRolesOk(u, old, new) ==
    /\ Exists(u)
    /\ \A r \in (old \ new) \cup (new \ old) : Exists(r) /\ r # u

UpdateUserRoles(u, old, new) ==
    /\ pg_auth_members' =
           [pg_auth_members EXCEPT ![u] = (@ \ (old \ new)) \cup (new \ old)]
    /\ UNCHANGED pg_roles

\* drop_user: REVOKE ALL ON DATABASE, REASSIGN OWNED, DROP OWNED, DROP USER
\* IF EXISTS in one transaction.  The REVOKE already fails when the user is
\* gone.  Dropping a role removes its memberships in both directions.
DropUserOk(u) == Exists(u)

DropUser(u) ==
    /\ pg_roles' = [pg_roles EXCEPT ![u] = "absent"]
    /\ pg_auth_members' = [n \in Names |->
                              IF n = u THEN {} ELSE pg_auth_members[n] \ {u}]

-----------------------------------------------------------------------------
(* Failed calls on an autocommit connection: each statement committed on   *)
(* its own, so conn.rollback() undoes nothing and the statements before    *)
(* the failing one stay.                                                    *)

\* create_user: CREATE USER, then GRANT CONNECT and the role GRANTs in the
\* order of the user's roles list, so any grantable subset of them may have
\* been granted before the failure (all of them when a privilege failed);
\* or CREATE USER itself failed.
CreateUserPrefix(u, roles) ==
    \/ UNCHANGED catalog
    \/ /\ ~Exists(u)
       /\ \E granted \in SUBSET {r \in roles : Exists(r) /\ r # u} :
             CreateUser(u, granted)

\* update_user_roles: some of the REVOKEs, and GRANTs only after every
\* REVOKE succeeded.
UpdateUserRolesPrefix(u, old, new) ==
    \/ UNCHANGED catalog
    \/ /\ Exists(u)
       /\ \E rv \in SUBSET {r \in old \ new : Exists(r) /\ r # u},
             gr \in SUBSET {r \in new \ old : Exists(r) /\ r # u} :
             /\ gr # {} => rv = old \ new
             /\ pg_auth_members' = [pg_auth_members EXCEPT ![u] = (@ \ rv) \cup gr]
             /\ UNCHANGED pg_roles

\* The effect of a call that raised: conn.rollback() undoes it, unless the
\* connection is in autocommit mode.  drop_user's REVOKE ALL, REASSIGN
\* OWNED and DROP OWNED change nothing of the catalog modelled here, so its
\* prefix is no change.
RolledBack(prefix) == IF autocommit THEN prefix ELSE UNCHANGED catalog

\* return_connection: the connection goes back to the pool with the mode it
\* has, unless the fault lost it, when putconn discards it and the next
\* getconn opens a new one, not in autocommit mode.
PutConn(lost) == IF lost THEN autocommit' \in {autocommit, FALSE}
                         ELSE UNCHANGED autocommit

\* create_role: set_isolation_level(ISOLATION_LEVEL_AUTOCOMMIT) before the
\* statement, never undone.
PutConnAutocommit(lost) == IF lost THEN autocommit' \in BOOLEAN
                                   ELSE autocommit' = TRUE

\* The identifiers each mutating call names in its SQL text.
CreateUserIdents(u, roles) == IF Exists(u) THEN {u} ELSE {u} \cup roles
UpdateIdents(u, old, new) == {u} \cup (old \ new) \cup (new \ old)

=============================================================================
