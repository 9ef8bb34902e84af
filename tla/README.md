# TLA+ models of the PostgreSQL user controller

The system is `src/zilando-CRDs/controller/controller.py`. It is a single-threaded poll loop. The loop keeps PostgreSQL login users and their group-role memberships in line with a `users.yaml` published in a Kubernetes ConfigMap. `spec.md` describes it.

## 1. Inventory

| Component | Code | State it keeps | Operations |
|---|---|---|---|
| Config | `Config` (57-87) | immutable settings: `DRY_RUN`, `SYSTEM_ROLES`, `MAX_RETRIES`, `STATE_FILE`, ... | none |
| Spec Source | `KubernetesClient.fetch_configmap` (210-237) | none (reads the ConfigMap) | fetch with retries: 404 → `None`, error after retries → raise |
| Secret Source | `KubernetesClient.get_user_password` (239-272) | none (reads Secrets) | fetch password with retries: missing → `None` |
| DB Gateway | `DatabaseClient` (279-654) | the connection pool; the database itself holds `pg_roles` and `pg_auth_members` | `fetch_existing_users`, `fetch_existing_roles`, `fetch_user_roles`, `create_role`, `drop_role` (unused), `create_user`, `update_user_roles`, `drop_user` |
| State Store | `StateManager` (661-706) | the JSON state file: the last saved desired spec | `load_state`, `save_state` |
| Metrics Sink | `Metrics` (141-191) | counters and gauges | `record_reconciliation`, `export_prometheus` |
| Reconciler | `PostgresUserController` (713-963) | per-cycle locals and `stats` | `reconcile_users`, `reconcile_roles`, `detect_drift`, `parse_desired_users`, `run_reconciliation_loop` |

**How the parts interact.** Everything runs in one thread. The calls in a cycle are strictly sequential. The concurrency comes from outside: the operator can edit the ConfigMap at any time, and a database administrator can create, drop, grant or revoke roles by hand at any time. Every call to Kubernetes or PostgreSQL is a point where the world can change. Each mutating database call is meant to be its own transaction, taking full effect or none. It is not: see `atomic_calls` below. The calls run in this order:

1. `fetch_configmap`, then `parse_desired_users` and `load_state`.
2. `fetch_existing_users`, then `reconcile_roles`, which runs `fetch_existing_roles` and then `create_role` for each missing role.
3. `detect_drift`.
4. `drop_user` for each owned user that is no longer desired.
5. `get_user_password` and `create_user` for each new user.
6. `fetch_user_roles` and `update_user_roles` for each user whose roles changed since the last save.
7. `save_state` (not in dry-run), the roles gauge, `record_reconciliation`, then sleep.

**What is hard.** These cases are hard to test:

- Interleavings of the cycle with the operator and the administrator.
- A call failing halfway through a cycle, with the state file saved afterwards.
- Stale reads: users read at step 2 but dropped at step 4, or roles read and then updated in a separate call.
- A crash or restart between steps. The state file is written non-atomically and lives in `/tmp` by default.
- Retry bounds.
- Eventual convergence under all of the above.

**What makes each component correct:**

- Reconciler:
  - Orphan protection: only owned users are ever dropped (the `Ownership` refinement).
  - Desired users come to exist and keep existing.
  - Role changes converge.
  - No DDL touches a system role.
  - Drift is counted as the spec defines it.
  - Dry-run changes nothing.
- DB Gateway:
  - Every call is all-or-nothing (`GatewayCallsAtomic`; it is not, because of the autocommit leak).
  - The queries return what the spec calls `live_users` and `live_groups`.
- State Store:
  - `load(save(s)) = s`.
  - A failed or interrupted save leaves the previous file intact.
- Spec/Secret Source: at most `MAX_RETRIES` attempts.
- Metrics: the counters add up the per-cycle stats.

## 2. Modules

| Module | Models | State ↔ code |
|---|---|---|
| `DbGateway` | `DatabaseClient` and the catalog | `pg_roles`: name → absent/login/nologin (`rolcanlogin`). `pg_auth_members`: the roles granted to each name. `autocommit`: the isolation level of the one pooled connection (`DB_POOL_MIN_CONN = 1` and sequential calls, so `getconn` always returns the connection `putconn` took back). Each query is an operator (`ListUsers`, `ListGroups`, `UserRoles`). Each mutating call is split into `XOk`, the condition under which PostgreSQL accepts every statement, and `X`, its effect. `CreateUserPrefix` and `UpdateUserRolesPrefix` are the statements a failing call may already have run (any subset of the grants, since the order of `roles` is free). `RolledBack(prefix)` is `conn.rollback()`: a no-op under autocommit. `PutConnAutocommit` is `create_role`'s `set_isolation_level(AUTOCOMMIT)` (414). `PutConn` keeps the mode, or a lost connection is discarded and replaced by a new one that is not in autocommit (310-319). |
| `StateStore` | `StateManager` (661-706) | `stateFile`: `NoFile`, `Torn` (a truncated or partly written JSON) or the saved spec. `LoadState` reads an absent or unreadable file as no users (668-688). `SaveState` either writes the spec or fails with `IOError`, leaving the old file or a torn one (690-706), bounded by `MaxIOErrors`. `AfterRestart` keeps the file only if `STATE_PERSISTENT`; the default `STATE_FILE` is in `/tmp` (73). |
| `Reconciler` | `reconcile_users`, `run_reconciliation_loop`, `main` | The variables are named after the code: `desired_users`, `previous_state`, `actual_users`, `roles_to_create`, `users_to_*`, `actual_roles`, `errors` (`stats.errors`), `drift_detected`. `pc` says which call is next. `configMap` is the ConfigMap. `dry_run` is `Config.DRY_RUN`, chosen at `Init` from `DRY_RUN_MODES`. Two history variables: `ddl_system` (system roles some DDL named) and `created_by_ctl` (users `create_user` made and nobody dropped). |
| `Ownership` | the abstract promise of spec.md 3, 4.4 and 8.1 | `roles`, `owned` (the users the controller considers its own) and `manual` (a count of administrator changes). Roles are created as groups, as login users only with a password, and dropped only while owned; `owned` is only ever the user set of a publishable ConfigMap. |
| `RetryPolicy` | `fetch_configmap`, `get_user_password` (210-272) and `_initialize_pool` (286-306) | RECURSIVE operators `Fetch` and `InitPool` over the sequence of responses successive attempts get. They return the outcome, the number of attempts and the seconds slept. One step per call, over every response sequence and every `MAX_RETRIES` in `RetrySettings`. |
| `MetricsSink` | `Metrics` (141-160) | The counters and gauges. Timestamps are reconciliation numbers. |
| `ReconcilerMetrics` | the composition | `Finish` sets the gauges (915-916), `Record` calls `record_reconciliation` (935, 954), `Restart` builds a new `Metrics`. `fault_base`/`io_base` remember the fault counts when the running process started. |
| `MCReconciler`, `MCMetrics` | the TLC instances | The model values are `u1`, `u2` (listable users), `x` (a foreign login user), `r1`, `r2` (group roles) and `sys` (a system role such as `pg_monitor`). `MCMetrics` adds `RecordsBound`, a state constraint on `reconciliation_count`. |

Actions of `Reconciler`. Each one is a whole call, including its error handling:

| Action | Code |
|---|---|
| `StartCycle` | fetch, parse and load (812-834); an absent ConfigMap or a fetch that raises leaves `reconcile_users` with one error |
| `FetchUsers` | 836-842; a failure returns with one error |
| `FetchRoles` | 788-792; a failure raises into the loop's handler (950-954) |
| `CreateRoles(r)` | one iteration of 793-799 |
| `Diff` | 847-855 |
| `DeleteUser(u)` | 857-866, ownership check `Owned` |
| `CreateUsers(u)` | 868-885, `HasPassword` then `create_user` |
| `ReadRoles(u)` | 887-897 |
| `ApplyUpdate` | 898-908 |
| `LoopDone` | ends the deletion and creation loops |
| `Finish` | `save_state` unless dry-run, then the roles gauge query, which can raise into the loop handler (910-916) |
| `Record` | `record_reconciliation`, the summary and the sleep (933-958) |
| `Kill` | the process dies inside `create_user` or `update_user_roles`, between two statements (a SIGKILL, or a `KeyboardInterrupt` that `main` turns into `cleanup` and `closeall`, 959-983). The dropped connection aborts the open transaction, but under autocommit the statements already run stay. `pc` becomes `killed`. |
| `Restart` | the process, killed between two calls or dead after `Kill`, is started again and `main` builds a new controller (970-983). The cycle's locals are lost, the catalog keeps every committed statement, and the state file survives only on persistent storage. `StartupFails`: `_initialize_pool` raises in `DatabaseClient.__init__` (279-308), `main` exits with status 1, and the process is dead again. |

Faults and the environment:

- **Faults.** Any call may raise in two ways. PostgreSQL may refuse it, which follows from the catalog. Or a transient fault occurs, which is bounded by `MaxFaults`. Both raise `psycopg2.Error` and are handled the same way. A `save_state` may fail with `IOError` (`MaxIOErrors`), and the process may be killed and restarted (`MaxRestarts`; `Kill` and `StartupFails` each use up one restart, and a dead process always has one left).
- **Environment.** `EditConfig` lets the operator publish another value from `ConfigValues`: a spec, `Malformed` or `Absent`. `Admin` lets the administrator create, drop, grant or revoke one non-system role. Both are bounded, by `MaxEdits` and `MaxExternal`.
- **Abstraction.** A `UserSpec` is reduced to its set of roles. Its `database` only adds ways for `create_user` to fail, which the transient-fault choice already covers. Its `privileges` are reduced to the constant `BadPrivileges`: the users whose spec lists a privilege PostgreSQL refuses (`PrivilegesGranted`, `_grant_privileges` 628-648). Such a user fails `create_user` on every attempt, after CREATE USER and the role grants.

**Refinement.** `Reconciler` instantiates `Ownership` with `roles <- pg_roles`, `owned <- DOMAIN LoadState(stateFile)` (the users the state file owns, as `load_state` would read it), `manual <- external` and `Ownable <- OwnableSets`. `OwnershipRefined == Abstract!Spec` is checked as a temporal property. It says the controller drops a role only while the state file owns it, creates login users only for names with a password, and records only the user set of some published ConfigMap. It replaces the earlier `OrphanProtection` invariant, which it implies.

## 3. Runs

| Run | Expect | What it shows |
|---|---|---|
| `safety` (`TypeOK`, `OwnershipRefined`, `DryRunPurity`) | pass | In both dry-run modes, under a ConfigMap edit, a foreign user, a transient fault or lost connection, a failed state write, a restart (possibly after a kill inside a call) that loses the `/tmp` state file (`STATE_PERSISTENT = FALSE`) and a manual change, the controller implements `Ownership`, and in dry-run no controller step changes the catalog or the state file. 1,057,139 distinct states, about 1 min 5 s. |
| `liveness` (`DesiredUsersEventuallyExist`) | pass | Every desired user with a Secret eventually exists for good. This holds across a fault, a manual drop and two restarts; a restart may follow a kill inside a call, or be a startup that fails to open the pool. Creation is retried because `users_to_create` comes from the live database. 689,464 distinct states, about 1 min. |
| `retry_reference` (`TypeOK`, `FetchMatchesReference`) | pass | For every response sequence and `MAX_RETRIES` in 0..3, the recursion of `fetch_configmap` gives the attempts, total backoff and outcome of a reference policy written with `SelectInSeq`. |
| `metrics_errors` (`ErrorsCountFaults`) | pass | Between cycles, `errors_total` counts at least every failed call since the process started, on each abort path: absent ConfigMap, fetch raising, users query failing, roles query raising, gauge query failing after the save. |
| `login_capability` (`DriftReportsLoginGap`) | violation | The ConfigMap lists `u1` with no group roles. The cluster has no foreign user, so nothing else counts as drift. The administrator creates a NOLOGIN role `u1` during the first cycle. That cycle counts `u1` as drift and its CREATE USER fails. From then on `fetch_existing_users` returns `u1` (line 334, no `rolcanlogin`), and every cycle reports drift 0 and no error although `u1` cannot log in. With spec.md's `live_users` (login roles), `u1` would be in `to_create` and counted as drift in every cycle, so that design satisfies the property whatever the interleaving. |
| `role_change` (`RoleChangesEventuallyApplied`) | violation | `fetch_user_roles` fails once. `save_state` still saves the new roles, so `u1` keeps its old role forever (line 912; spec.md invariant 4 says the prior state must stay). |
| `system_roles` (`NoSystemRoleDDL`) | violation | The administrator grants `sys` to `u1`. The next role change for `u1` issues `REVOKE sys FROM u1` (line 542). |
| `drift_count` (`SteadyStateNoDrift`) | violation | A cycle with nothing to do reports drift for the foreign user and for group roles (lines 334 and 852). |
| `owned_users` (`OwnedUsersEventuallyDropped`) | violation | A user the controller created is left behind for good in three ways. Each is a real code path, and TLC reports one of them: `drop_user` fails and `save_state` then saves a state without the user (line 862); `save_state` fails with `IOError` and keeps the previous file, as spec.md prescribes, which lacks the user created in that cycle (line 705); a restart between `create_user` and `save_state` (line 912). The state file is on `/tmp` (`STATE_PERSISTENT = FALSE`), so its loss on restart is a fourth path. |
| `atomic_calls` (`GatewayCallsAtomic`) | violation | No transient fault is needed (`MaxFaults = 0`, `BadPrivileges = {u1}`). `create_role r1` sets the pooled connection to autocommit (line 414), and nothing resets it. The next `create_user u1` fails at its privilege GRANT (line 644); `conn.rollback()` (509) undoes nothing and `u1` stays created. It is then an existing user, so it is never created again. spec.md 4.3 promises an explicit transaction, rolled back on any failure. A `Kill` between the statements (spec.md 5: in-flight transactions are rolled back on close) breaks the property the same way. |
| `retry_spec` (`RetryAttemptsAsSpecified`) | violation | When every attempt fails, `fetch_configmap` makes `MAX_RETRIES + 1` attempts (line 229) and `_initialize_pool` `MAX_RETRIES`, none at all with `MAX_RETRIES = 0` (line 288); spec.md 4.1 gives the count as `MAX_RETRIES` (default 5) and spec.md 5 the same policy for both. |
| `metrics_ioerrors` (`ErrorsCountStateIOErrors`) | violation | A failed `save_state` is logged and swallowed, never counted in `errors_total` (line 705). |

**Bounds.** The `MCReconciler` runs use:

- 6 names, including a system role and a pre-existing foreign user.
- `ConfigValues`: five ConfigMap values (one user with `r1`; `u1` with `r2` plus `u2` without a Secret; empty; `Malformed`; `Absent`). `MaxEdits = 1` in the passing runs. `Init` already ranges over every value, so one edit reaches every pair of consecutive ConfigMaps.
- `MaxFaults`, `MaxExternal` and `MaxIOErrors` at most 1 each. `MaxRestarts` is 1, or 2 in `liveness`, so that a failed startup can follow a kill.
- `BadPrivileges = {}`, except in `atomic_calls`.
- `login_capability` uses its own instance (`MCLoginValues`, `MCLoginInitialRoles`): `u1` with no group roles, and no foreign user. Otherwise the group roles and `x`, which line 334 counts as drift, would report drift in every cycle and hide the gap.

One fault, restart or IO error can hit any call of any cycle, and the administrator can act between any two calls; that is every case the properties distinguish. The liveness run leaves IO errors out: with every bound at 1 it takes over 3 minutes and finds nothing new. A violation run sets to 0 every bound its trace does not need, so the violation cannot come from elsewhere. The metrics runs bound `reconciliation_count` to 3 with a state constraint; they check invariants only. `RetryPolicy` enumerates all 4^4 · 2^4 response sequences for `MAX_RETRIES` in 0..3 with `RETRY_BACKOFF_BASE = 2`.

**Fairness.** `WF_vars(Controller)`. The loop never stops on its own: it sleeps and starts again. Its next step is always enabled. There is also `WF_vars(pc = "killed" /\ Restart)`: Kubernetes restarts a dead container (the Deployment's `restartPolicy: Always`). The operator, the administrator, faults and the kills get no fairness, and their bounds make them stop eventually, which the liveness properties need. `RetryPolicy` and the metrics runs set `CHECK_DEADLOCK FALSE` or stop at the constraint: each call is made once, and the metrics runs stop at the bound.

**Mutants.** Each property of a passing run has a plausible code bug that breaks it:

| Mutant | Property it breaks |
|---|---|
| The users query without its system-role filter | `TypeOK` (`safety`) |
| The ownership check against the loop's own set | `OwnershipRefined` (`safety`) |
| The `if not password` check left out | `OwnershipRefined` (`safety`) |
| `detect_drift` skipping users already in the state file | `DesiredUsersEventuallyExist` |
| Saving the state file in dry-run | `DryRunPurity` (`safety`) |
| `_initialize_pool` without its final `raise` (returns `None`) | `TypeOK` (`retry_reference`) |
| Backoff exponent `retry_count + 1` | `FetchMatchesReference` |
| The loop's `except` not counting the error | `ErrorsCountFaults` |

## 4. Not modelled (yet) and plan

- **Metrics export.** `export_prometheus` only formats text; `last_reconciliation_timestamp` is not modelled.
- **The ownership record.** The `owned_users` run shows that no state-file discipline the spec describes keeps ownership of every created user. A next step is a variant that records ownership before `create_user` and after a successful `drop_user`, refined against `Ownership` with an `OwnedUsersEventuallyDropped` that passes.
- **Mis-shaped ConfigMap.** A `users.yaml` that parses but is not a mapping with a `users` list (only comments, `users: null`, a list) raises AttributeError or TypeError at line 741. The `except (yaml.YAMLError, KeyError)` does not catch it, so every cycle aborts with one error, whereas spec.md treats a malformed spec as empty. It is listed as a hazard. A run for it would need a ConfigMap value whose parse raises, and a violation run of its own beyond the 12 the project keeps.
- **Malformed ConfigMap.** A `users.yaml` that does not parse is read as no users, so a cycle drops every owned user (line 751). spec.md prescribes the same parse, so no run checks it; `OwnershipRefined` shows the drops are still only of owned users.
- **Larger instances.** A third listable user and `MaxExternal = 2` (2.6 M states for the old safety run) add no new branch.

Left out on purpose:

- SQL text and identifier quoting. The unchecked `sql.SQL(privilege)` at line 644 is listed as a hazard. Its effect, a refused GRANT after `CREATE USER` under autocommit, is one of the failures `GatewayCallsAtomic` covers.
- Logging and the Prometheus text format.
- The pool's size and exhaustion. Calls are strictly sequential and `DB_POOL_MIN_CONN = 1`, so only the one connection's autocommit mode is state.
- `drop_role`, which is never called.
- The logging of the interrupt handler and `cleanup`. Closing the pool is the connection drop of `Kill`.
