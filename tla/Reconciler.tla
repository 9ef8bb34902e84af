------------------------------ MODULE Reconciler -----------------------------
(***************************************************************************)
(* PostgresUserController.reconcile_users and run_reconciliation_loop of    *)
(* controller.py, one action per call that reaches the ConfigMap, the       *)
(* Secret store, the database or the state file, so that the cluster        *)
(* operator and a database administrator can act between any two of them.  *)
(* Desired specs are functions from usernames to their set of group roles; *)
(* the database name and the privileges of a UserSpec are left out: they  *)
(* only add ways for create_user to fail, which the fault choice covers.   *)
(***************************************************************************)
EXTENDS DbGateway, StateStore, Naturals

CONSTANTS
    ConfigValues,  \* the ConfigMap contents the operator can publish
    Absent,        \* the ConfigMap does not exist (404)
    Malformed,     \* users.yaml does not parse (YAMLError, KeyError)
    Secrets,       \* the usernames whose Secret holds a password
    DRY_RUN_MODES, \* the values of Config.DRY_RUN considered
    MaxFaults,     \* bound on transient failures of calls
    MaxEdits,      \* bound on ConfigMap edits
    MaxExternal,   \* bound on changes made by a database administrator
    MaxRestarts,   \* bound on restarts of the controller process
    InitialRoles,  \* pg_roles at start: the name -> kind function
    NoUser         \* no user awaits an update

ASSUME NoUser \notin Names

VARIABLES
    configMap,        \* the published users.yaml (a spec, Absent, Malformed)
    pc,               \* where the controller is in run_reconciliation_loop
    yaml_content,     \* locals of reconcile_users
    desired_users,
    previous_state,
    actual_users,
    roles_to_create,  \* reconcile_roles' loop
    users_to_delete,
    users_to_create,
    users_to_update,
    cur_user,         \* the user whose roles were read, awaiting the update
    actual_roles,
    errors,           \* stats.errors of the cycle
    drift_detected,   \* stats.drift_detected of the cycle
    ddl_system,       \* history: the SYSTEM_ROLES some DDL statement named
    created_by_ctl,   \* history: users create_user made and nobody dropped
    dry_run,          \* Config.DRY_RUN of the deployment
    faults, edits, external, restarts

\* The locals of one reconcile_users: what it read, the work it has left,
\* the update in progress; then the cycle's stats.
cycle == <<yaml_content, desired_users, previous_state, actual_users>>
work == <<roles_to_create, users_to_delete, users_to_create, users_to_update>>
upd == <<cur_user, actual_roles>>
ctl == <<pc, cycle, work, upd, errors, drift_detected>>
hist == <<ddl_system, created_by_ctl>>
\* What no step of the controller changes.
env == <<configMap, dry_run, edits, external, restarts>>
vars == <<catalog, autocommit, configMap, stateFile, ctl, hist, faults,
          io_errors, env>>

\* A desired spec: usernames mapped to their set of group roles.
IsSpec(f) == DOMAIN f \subseteq Names /\ \A u \in DOMAIN f : f[u] \subseteq Names

-----------------------------------------------------------------------------
(* Pure helpers.                                                            *)

\* parse_desired_users: an empty or unparsable users.yaml gives no users.
ParseDesired(cm) == IF cm = Malformed THEN EmptySpec ELSE cm

\* Mutant: users already in the last-applied state are not created again.
DetectDriftFromState(desired, actual) ==
    [create |-> DOMAIN desired \ (actual \cup DOMAIN previous_state),
     delete |-> actual \ DOMAIN desired,
     update |-> DOMAIN desired \cap actual]

\* detect_drift: (create, delete, update) from the desired names and the
\* users read from the database.
DetectDrift(desired, actual) ==
    [create |-> DOMAIN desired \ actual,
     delete |-> actual \ DOMAIN desired,
     update |-> DOMAIN desired \cap actual]

\* reconcile_roles: every role some desired user names.
AllDesiredRoles(desired) == UNION {desired[u] : u \in DOMAIN desired}

\* A gateway call either succeeds, which needs PostgreSQL to accept it and
\* no transient fault, or raises psycopg2.Error: because PostgreSQL refused
\* it, or because a transient fault (lost connection) occurs.
Succeeds(ok) == ok /\ UNCHANGED faults
Transient == faults < MaxFaults /\ faults' = faults + 1
Raises(ok) == (~ok /\ UNCHANGED faults) \/ Transient

\* The transient fault of this step lost the database connection.
Lost == faults' # faults

\* The locals of reconcile_users go out of scope.
ResetLocals ==
    /\ yaml_content' = Absent /\ actual_users' = {}
    /\ desired_users' = EmptySpec /\ previous_state' = EmptySpec
    /\ roles_to_create' = {} /\ users_to_delete' = {}
    /\ users_to_create' = {} /\ users_to_update' = {}
    /\ cur_user' = NoUser /\ actual_roles' = {}

\* reconcile_users returns or raises; the loop still holds the cycle's
\* stats, with errs errors, for record_reconciliation.
LeaveReconcile(errs) ==
    /\ pc' = "record"
    /\ ResetLocals
    /\ errors' = errs
    /\ UNCHANGED drift_detected

\* Mutant: the loop's except clause does not count the error.
LoopHandlerUncounted == LeaveReconcile(errors)

\* The except clause of run_reconciliation_loop: an exception escaping
\* reconcile_users is counted once in stats.errors.
LoopHandler == LeaveReconcile(errors + 1)

\* The loop starts a new iteration with fresh stats.
EndCycle ==
    /\ pc' = "idle"
    /\ ResetLocals
    /\ errors' = 0
    /\ drift_detected' = 0

NoteDDL(idents) == ddl_system' = ddl_system \cup (idents \cap SYSTEM_ROLES)

-----------------------------------------------------------------------------
Init ==
    /\ pg_roles = InitialRoles
    /\ pg_auth_members = [n \in Names |-> {}]
    /\ autocommit = FALSE
    /\ dry_run \in DRY_RUN_MODES
    /\ configMap \in ConfigValues
    /\ stateFile = NoFile
    /\ pc = "idle"
    /\ yaml_content = Absent /\ actual_users = {}
    /\ desired_users = EmptySpec /\ previous_state = EmptySpec
    /\ roles_to_create = {} /\ users_to_delete = {}
    /\ users_to_create = {} /\ users_to_update = {}
    /\ cur_user = NoUser /\ actual_roles = {}
    /\ errors = 0 /\ drift_detected = 0
    /\ ddl_system = {} /\ created_by_ctl = {}
    /\ faults = 0 /\ io_errors = 0
    /\ edits = 0 /\ external = 0 /\ restarts = 0

(* One loop iteration starts: fetch_configmap (its retries exhausted raise  *)
(* into the loop's handler), parse_desired_users and load_state.            *)
StartCycle ==
    /\ pc = "idle"
    /\ \/ /\ configMap = Absent
          /\ LeaveReconcile(errors + 1)
          /\ UNCHANGED faults
       \/ /\ Transient
          /\ LoopHandler
       \/ /\ configMap # Absent
          /\ UNCHANGED faults
          /\ pc' = "fetchUsers"
          /\ yaml_content' = configMap
          /\ desired_users' = ParseDesired(configMap)
          /\ previous_state' = LoadState(stateFile)
          /\ UNCHANGED <<actual_users, work, upd, errors, drift_detected>>
    /\ UNCHANGED <<catalog, autocommit, stateFile, hist, io_errors, env>>

(* fetch_existing_users; a failure ends the cycle.                          *)
FetchUsers ==
    /\ pc = "fetchUsers"
    /\ \/ /\ UNCHANGED faults
          /\ actual_users' = ListUsers
          /\ pc' = "fetchRoles"
          /\ UNCHANGED <<yaml_content, desired_users, previous_state, work,
                         upd, errors, drift_detected>>
       \/ /\ Transient
          /\ LeaveReconcile(errors + 1)
    /\ PutConn(Lost)
    /\ UNCHANGED <<catalog, stateFile, hist, io_errors, env>>

(* reconcile_roles: fetch_existing_roles, whose failure escapes to the loop *)
(* handler, then the roles to create.                                       *)
FetchRoles ==
    /\ pc = "fetchRoles"
    /\ \/ /\ UNCHANGED faults
          /\ roles_to_create' = AllDesiredRoles(desired_users) \ ListGroups
          /\ pc' = "createRoles"
          /\ UNCHANGED <<cycle, users_to_delete, users_to_create,
                         users_to_update, upd, errors, drift_detected>>
       \/ /\ Transient
          /\ LoopHandler
    /\ PutConn(Lost)
    /\ UNCHANGED <<catalog, stateFile, hist, io_errors, env>>

(* One iteration of the create_role loop; a failure is counted.            *)
CreateRoles(r) ==
    /\ pc = "createRoles"
    /\ r \in roles_to_create
    /\ roles_to_create' = roles_to_create \ {r}
    /\ \/ /\ dry_run
          /\ UNCHANGED <<catalog, autocommit, faults, errors, ddl_system>>
       \/ /\ ~dry_run
          /\ NoteDDL({r})
          /\ \/ Succeeds(CreateRoleOk(r)) /\ CreateRole(r) /\ UNCHANGED errors
             \/ Raises(CreateRoleOk(r)) /\ UNCHANGED catalog
                                        /\ errors' = errors + 1
          /\ PutConnAutocommit(Lost)
    /\ UNCHANGED <<pc, cycle, users_to_delete, users_to_create,
                   users_to_update, upd, drift_detected>>
    /\ UNCHANGED <<stateFile, created_by_ctl, io_errors, env>>

(* detect_drift and the drift count, once every role has been tried.       *)
Diff ==
    /\ pc = "createRoles"
    /\ roles_to_create = {}
    /\ LET d == DetectDrift(desired_users, actual_users) IN
       /\ users_to_create' = d.create
       /\ users_to_delete' = d.delete
       /\ users_to_update' = d.update
       /\ drift_detected' = Cardinality(d.create) + Cardinality(d.delete)
    /\ pc' = "deleteUsers"
    /\ UNCHANGED <<cycle, roles_to_create, upd, errors>>
    /\ UNCHANGED <<catalog, autocommit, stateFile, hist, faults, io_errors, env>>

\* Mutant: the ownership check compares against the loop's own set.
OwnedUnchecked(u) == u \in users_to_delete

\* The orphan-protection check of the deletion loop.
Owned(u) == u \in DOMAIN previous_state

(* One iteration of the deletion loop: only a user of previous_state is    *)
(* dropped; a failed drop_user is counted.                                 *)
DeleteUser(u) ==
    /\ pc = "deleteUsers"
    /\ u \in users_to_delete
    /\ users_to_delete' = users_to_delete \ {u}
    /\ \/ /\ ~Owned(u)
          /\ UNCHANGED <<catalog, autocommit, faults, errors, hist>>
       \/ /\ Owned(u)
          /\ dry_run
          /\ UNCHANGED <<catalog, autocommit, faults, errors, hist>>
       \/ /\ Owned(u)
          /\ ~dry_run
          /\ NoteDDL({u})
          /\ \/ /\ Succeeds(DropUserOk(u))
                /\ DropUser(u)
                /\ created_by_ctl' = created_by_ctl \ {u}
                /\ UNCHANGED errors
             \/ /\ Raises(DropUserOk(u))
                /\ RolledBack(UNCHANGED catalog)
                /\ UNCHANGED created_by_ctl
                /\ errors' = errors + 1
          /\ PutConn(Lost)
    /\ UNCHANGED <<pc, cycle, roles_to_create, users_to_create,
                   users_to_update, upd, drift_detected>>
    /\ UNCHANGED <<stateFile, io_errors, env>>

\* Mutant: the "if not password" check is left out.
HasPasswordUnchecked(u) == TRUE

\* get_user_password found a Secret with a password for u.
HasPassword(u) == u \in Secrets

\* What a create_user of u that did not complete leaves: nothing, or on an
\* autocommit connection the statements it ran, the user being then one
\* that create_user made.
CreateUserAborted(u, roles) ==
    /\ RolledBack(CreateUserPrefix(u, roles))
    /\ created_by_ctl' = IF Exists(u) \/ pg_roles'[u] = "absent"
                         THEN created_by_ctl ELSE created_by_ctl \cup {u}

(* One iteration of the creation loop: get_user_password (a missing Secret *)
(* or password is skipped with an error, a fetch failure after retries is  *)
(* caught as an error), then create_user.                                  *)
CreateUsers(u) ==
    /\ pc = "createUsers"
    /\ u \in users_to_create
    /\ users_to_create' = users_to_create \ {u}
    /\ LET roles == desired_users[u] IN
       \/ /\ ~HasPassword(u)
          /\ errors' = errors + 1
          /\ UNCHANGED <<catalog, autocommit, faults, hist>>
       \/ /\ Transient
          /\ errors' = errors + 1
          /\ UNCHANGED <<catalog, autocommit, hist>>
       \/ /\ HasPassword(u)
          /\ dry_run
          /\ UNCHANGED <<catalog, autocommit, faults, errors, hist>>
       \/ /\ HasPassword(u)
          /\ ~dry_run
          /\ NoteDDL(CreateUserIdents(u, roles))
          /\ \/ /\ Succeeds(CreateUserOk(u, roles))
                /\ CreateUser(u, roles)
                /\ created_by_ctl' = created_by_ctl \cup {u}
                /\ UNCHANGED errors
             \/ /\ Raises(CreateUserOk(u, roles))
                /\ CreateUserAborted(u, roles)
                /\ errors' = errors + 1
          /\ PutConn(Lost)
    /\ UNCHANGED <<pc, cycle, roles_to_create, users_to_delete,
                   users_to_update, upd, drift_detected>>
    /\ UNCHANGED <<stateFile, io_errors, env>>

(* One iteration of the update loop up to the decision to update: only a   *)
(* user whose roles in previous_state differ from the desired ones has its *)
(* live roles read (fetch_user_roles); it is updated if they differ.       *)
RolesChanged(u) ==
    u \in DOMAIN previous_state /\ previous_state[u] # desired_users[u]

ReadRoles(u) ==
    /\ pc = "updateUsers"
    /\ u \in users_to_update
    /\ users_to_update' = users_to_update \ {u}
    /\ \/ /\ ~RolesChanged(u)
          /\ UNCHANGED <<pc, cur_user, actual_roles, errors, faults, autocommit>>
       \/ /\ RolesChanged(u)
          /\ \/ /\ UNCHANGED faults
                /\ actual_roles' = UserRoles(u)
                /\ IF UserRoles(u) # desired_users[u]
                      THEN pc' = "applyUpdate" /\ cur_user' = u
                      ELSE UNCHANGED <<pc, cur_user>>
                /\ UNCHANGED errors
             \/ /\ Transient
                /\ errors' = errors + 1
                /\ UNCHANGED <<pc, cur_user, actual_roles>>
          /\ PutConn(Lost)
    /\ UNCHANGED <<cycle, roles_to_create, users_to_delete, users_to_create,
                   drift_detected>>
    /\ UNCHANGED <<catalog, stateFile, hist, io_errors, env>>

(* update_user_roles with the roles just read; a failure is counted.       *)
ApplyUpdate ==
    /\ pc = "applyUpdate"
    /\ LET u == cur_user
           new == desired_users[cur_user] IN
       \/ /\ dry_run
          /\ UNCHANGED <<catalog, autocommit, faults, errors, ddl_system>>
       \/ /\ ~dry_run
          /\ NoteDDL(UpdateIdents(u, actual_roles, new))
          /\ \/ /\ Succeeds(UpdateUserRolesOk(u, actual_roles, new))
                /\ UpdateUserRoles(u, actual_roles, new)
                /\ UNCHANGED errors
             \/ /\ Raises(UpdateUserRolesOk(u, actual_roles, new))
                /\ RolledBack(UpdateUserRolesPrefix(u, actual_roles, new))
                /\ errors' = errors + 1
          /\ PutConn(Lost)
    /\ pc' = "updateUsers"
    /\ cur_user' = NoUser
    /\ actual_roles' = {}
    /\ UNCHANGED <<cycle, work, drift_detected>>
    /\ UNCHANGED <<stateFile, created_by_ctl, io_errors, env>>

(* The end of the deletion and of the creation loop.                       *)
LoopDone ==
    /\ \/ pc = "deleteUsers" /\ users_to_delete = {} /\ pc' = "createUsers"
       \/ pc = "createUsers" /\ users_to_create = {} /\ pc' = "updateUsers"
    /\ UNCHANGED <<cycle, work, upd, errors, drift_detected>>
    /\ UNCHANGED <<catalog, autocommit, stateFile, hist, faults, io_errors, env>>

\* Mutant: the state file is saved in dry-run as well.
FinishAlwaysSave ==
    /\ pc = "updateUsers"
    /\ users_to_update = {}
    /\ SaveState(desired_users)
    /\ \/ UNCHANGED faults /\ LeaveReconcile(errors)
       \/ Transient /\ LoopHandler
    /\ PutConn(Lost)
    /\ UNCHANGED <<catalog, hist, env>>

(* The end of reconcile_users: save_state(desired_users) unless dry-run,   *)
(* whatever errors the cycle counted, then the roles gauge, whose query    *)
(* can raise into the loop's handler.                                      *)
Finish ==
    /\ pc = "updateUsers"
    /\ users_to_update = {}
    /\ \/ dry_run /\ UNCHANGED <<stateFile, io_errors>>
       \/ ~dry_run /\ SaveState(desired_users)
    /\ \/ UNCHANGED faults /\ LeaveReconcile(errors)
       \/ Transient /\ LoopHandler
    /\ PutConn(Lost)
    /\ UNCHANGED <<catalog, hist, env>>

(* record_reconciliation(stats), the summary and the sleep; then the next  *)
(* iteration of the loop.                                                  *)
Record ==
    /\ pc = "record"
    /\ EndCycle
    /\ UNCHANGED <<catalog, autocommit, stateFile, hist, faults, io_errors, env>>

\* The steps of a cycle up to the end of reconcile_users.
Reconcile ==
    \/ StartCycle \/ FetchUsers \/ FetchRoles
    \/ \E r \in Names : CreateRoles(r)
    \/ Diff
    \/ \E u \in Names : DeleteUser(u) \/ CreateUsers(u) \/ ReadRoles(u)
    \/ ApplyUpdate \/ LoopDone

Controller == Reconcile \/ Finish \/ Record

(* The process is killed inside create_user or update_user_roles, between *)
(* two of its statements.  PostgreSQL aborts the open transaction when the *)
(* connection drops, but on an autocommit connection the statements run    *)
(* so far stay.  The process is then dead until it is restarted.  (A call  *)
(* cut short names no identifier the whole call would not.)                 *)
Kill ==
    /\ restarts < MaxRestarts
    /\ ~dry_run
    /\ \/ /\ pc = "createUsers"
          /\ \E u \in users_to_create :
                HasPassword(u) /\ CreateUserAborted(u, desired_users[u])
       \/ /\ pc = "applyUpdate"
          /\ RolledBack(UpdateUserRolesPrefix(cur_user, actual_roles,
                                              desired_users[cur_user]))
          /\ UNCHANGED created_by_ctl
    /\ pc' = "killed"
    /\ autocommit' = FALSE
    /\ UNCHANGED <<cycle, work, upd, errors, drift_detected>>
    /\ UNCHANGED <<stateFile, ddl_system, faults, io_errors, env>>

(* The process is killed (pod evicted, OOM, node lost, KeyboardInterrupt   *)
(* reaching main) at any point between two calls, or was killed inside    *)
(* one, and is restarted: main builds a new controller whose cycle starts  *)
(* afresh, with a new pool.  The catalog keeps what was committed; the     *)
(* state file survives only on persistent storage.                         *)
\* PostgresUserController() builds a DatabaseClient whose _initialize_pool
\* raises RuntimeError once its attempts fail; main's except then exits
\* with status 1 before the loop starts, and the process is dead again.
StartupFails == Transient /\ restarts' < MaxRestarts /\ pc' = "killed"

Restart ==
    /\ restarts < MaxRestarts
    /\ restarts' = restarts + 1
    /\ ResetLocals /\ errors' = 0 /\ drift_detected' = 0
    /\ \/ pc' = "idle" /\ UNCHANGED faults
       \/ StartupFails
    /\ AfterRestart
    /\ autocommit' = FALSE
    /\ UNCHANGED <<catalog, configMap, dry_run, hist, io_errors,
                   edits, external>>

-----------------------------------------------------------------------------
(* The environment: the operator edits the ConfigMap, a database           *)
(* administrator changes roles by hand.  Neither touches SYSTEM_ROLES      *)
(* other than by granting or revoking them.                                *)

EditConfig ==
    /\ edits < MaxEdits
    /\ configMap' \in ConfigValues \ {configMap}
    /\ edits' = edits + 1
    /\ UNCHANGED <<catalog, autocommit, stateFile, ctl, hist, faults,
                   io_errors, dry_run, external, restarts>>

AdminCreateRole(n, k) ==
    /\ n \notin SYSTEM_ROLES /\ ~Exists(n)
    /\ pg_roles' = [pg_roles EXCEPT ![n] = k]
    /\ UNCHANGED <<pg_auth_members, created_by_ctl>>

AdminDropRole(n) ==
    /\ n \notin SYSTEM_ROLES /\ Exists(n)
    /\ DropUser(n)
    /\ created_by_ctl' = created_by_ctl \ {n}

AdminGrant(n, r) ==
    /\ Exists(n) /\ Exists(r) /\ n # r /\ r \notin pg_auth_members[n]
    /\ pg_auth_members' = [pg_auth_members EXCEPT ![n] = @ \cup {r}]
    /\ UNCHANGED <<pg_roles, created_by_ctl>>

AdminRevoke(n, r) ==
    /\ r \in pg_auth_members[n]
    /\ pg_auth_members' = [pg_auth_members EXCEPT ![n] = @ \ {r}]
    /\ UNCHANGED <<pg_roles, created_by_ctl>>

Admin ==
    /\ external < MaxExternal
    /\ \E n, r \in Names, k \in {"login", "nologin"} :
          \/ AdminCreateRole(n, k) \/ AdminDropRole(n)
          \/ AdminGrant(n, r) \/ AdminRevoke(n, r)
    /\ external' = external + 1
    /\ UNCHANGED <<autocommit, configMap, stateFile, ctl, ddl_system, faults,
                   io_errors, dry_run, edits, restarts>>

Next == Controller \/ Kill \/ Restart \/ EditConfig \/ Admin

\* The loop never stops on its own and runs one step after another; a dead
\* process is restarted by Kubernetes (the Deployment's restartPolicy).
Spec == Init /\ [][Next]_vars /\ WF_vars(Controller)
            /\ WF_vars(pc = "killed" /\ Restart)

-----------------------------------------------------------------------------
(* The abstract promise.  The users the state file records are the owned   *)
(* users of Ownership; the administrator's changes are counted by          *)
(* external.                                                                *)

\* The user sets the state file can hold: those of the ConfigMaps that can
\* be published, and none (no file, or a torn one).
OwnableSets == {DOMAIN ParseDesired(c) : c \in ConfigValues \ {Absent}} \cup {{}}

Abstract == INSTANCE Ownership
                WITH roles <- pg_roles,
                     owned <- DOMAIN LoadState(stateFile),
                     manual <- external,
                     Ownable <- OwnableSets

\* The controller implements Ownership: every step, with the process
\* restarting and the state file failing, is a step of the abstract
\* specification or leaves roles, owned users and the count of manual
\* changes as they are.  So a role is dropped by the controller only while
\* the state file, as load_state would read it, owns it; a login user is
\* created only for a name with a password; and the state file only ever
\* records the user set of a published ConfigMap, or nothing.
OwnershipRefined == Abstract!Spec

-----------------------------------------------------------------------------
(* Properties.                                                              *)

TypeOK ==
    /\ pg_roles \in [Names -> RoleKind]
    /\ pg_auth_members \in [Names -> SUBSET Names]
    /\ autocommit \in BOOLEAN /\ dry_run \in DRY_RUN_MODES
    /\ configMap \in ConfigValues
    /\ stateFile \in {NoFile, Torn} \/ IsSpec(stateFile)
    /\ yaml_content \in ConfigValues \cup {Absent}
    /\ pc \in {"idle", "fetchUsers", "fetchRoles", "createRoles",
               "deleteUsers", "createUsers", "updateUsers", "applyUpdate",
               "record", "killed"}
    /\ IsSpec(desired_users) /\ IsSpec(previous_state)
    /\ actual_users \in SUBSET (Names \ SYSTEM_ROLES)
    /\ users_to_delete \in SUBSET (Names \ SYSTEM_ROLES)
    /\ roles_to_create \cup users_to_create \cup users_to_update
           \in SUBSET Names
    /\ cur_user \in Names \cup {NoUser}
    /\ actual_roles \in SUBSET Names
    /\ errors \in Nat /\ drift_detected \in Nat
    /\ ddl_system \in SUBSET SYSTEM_ROLES
    /\ created_by_ctl \in SUBSET Names

\* A step of the running controller (a restart is not one).
ControllerStep == ctl' # ctl /\ UNCHANGED restarts

\* spec.md 8.8, dry-run purity: in dry-run no step of the controller
\* changes the database or the state file, at any point of a cycle and
\* whatever the ConfigMap and the database contain.
DryRunPurity ==
    [][ControllerStep /\ dry_run => UNCHANGED <<catalog, stateFile>>]_vars

\* spec.md 4.3: create_user, update_user_roles and drop_user each run in a
\* single transaction, committed on success and rolled back on any failure;
\* spec.md 5: in-flight transactions are rolled back when the connection
\* closes.  So neither a step of the controller in which a call fails, and
\* is counted as an error, nor a kill inside a call changes the catalog,
\* whatever calls ran before on the pooled connection.
GatewayCallsAtomic ==
    [][(ControllerStep /\ errors' > errors) \/ pc' = "killed"
          => UNCHANGED catalog]_vars

\* The users the published ConfigMap asks for.
CfgSpec == IF configMap = Absent THEN EmptySpec ELSE ParseDesired(configMap)

\* Every desired user with a password Secret eventually exists as a role and
\* keeps existing, despite failed calls and roles dropped by hand: creation
\* is retried each cycle, since users_to_create is computed from the live
\* database and not from the state file.
DesiredUsersEventuallyExist ==
    <>[](\A u \in DOMAIN CfgSpec \cap Secrets : Exists(u))

\* spec.md 4.6 step 5 with the glossary's live_users (the roles that can
\* log in): a desired user that cannot log in is in to_create, so it is
\* counted as drift (and its CREATE USER may fail, an error).  Once the
\* administrator has stopped, every cycle that reaches the end of
\* reconcile_users while a desired user cannot log in reports drift or an
\* error: the controller never reports a clean cycle over such a user.
DriftReportsLoginGap ==
    <>[][/\ pc = "updateUsers" /\ pc' = "record"
         /\ \E u \in DOMAIN desired_users : pg_roles[u] # "login"
         => errors' + drift_detected' > 0]_vars

\* Role changes converge (spec.md 4.6 step 8 and 3, invariant 4): once the
\* ConfigMap stops changing, every desired user that exists eventually holds
\* exactly the roles the ConfigMap lists, even when an update call failed in
\* some earlier cycle.
RoleChangesEventuallyApplied ==
    <>[](\A u \in DOMAIN CfgSpec \cap Secrets :
            Exists(u) => pg_auth_members[u] = CfgSpec[u])

\* spec.md 8.3: whatever the ConfigMap and the database contain, no
\* statement the controller issues names a role of SYSTEM_ROLES.
NoSystemRoleDDL == ddl_system = {}

\* spec.md 4.6 step 5: drift counts the users to create and the owned users
\* to drop, so a cycle that finds every desired user able to log in and no
\* owned user left over reports no drift.
InSync ==
    /\ \A u \in DOMAIN desired_users : pg_roles[u] = "login"
    /\ \A u \in DOMAIN previous_state \ DOMAIN desired_users : ~Exists(u)

SteadyStateNoDrift ==
    [][(pc = "createRoles" /\ pc' = "deleteUsers" /\ InSync)
          => drift_detected' = 0]_vars

\* spec.md 3 and 4.4: the state file exists so that the controller can tell
\* the users it owns, and may drop, from the others.  Every user that
\* create_user made and that the (published) ConfigMap no longer lists is
\* eventually dropped: the controller never loses track of a user it owns,
\* whatever call fails, whatever write of the state file is torn and
\* however often the process restarts.
OwnedUsersEventuallyDropped ==
    <>[](configMap # Absent => created_by_ctl \subseteq DOMAIN CfgSpec)
=============================================================================
