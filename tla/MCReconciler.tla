---------------------------- MODULE MCReconciler ----------------------------
(***************************************************************************)
(* Small instances of the Reconciler for TLC.  u1 and u2 are usernames the *)
(* operator may list, x is a login user created outside the controller, r1 *)
(* and r2 are group roles, and sys stands for a member of SYSTEM_ROLES      *)
(* (pg_monitor): a group role that exists from the start.                   *)
(***************************************************************************)
EXTENDS Reconciler, TLC

CONSTANTS u1, u2, x, r1, r2, sys

MCNames == {u1, u2, x, r1, r2, sys}
MCSystemRoles == {sys}

\* A fresh cluster: the foreign user and the system role exist.
MCInitialRoles ==
    [n \in MCNames |-> CASE n = x   -> "login"
                         [] n = sys -> "nologin"
                         [] OTHER   -> "absent"]

\* u2 has no password Secret.
MCSecrets == {u1}

\* The operator grants u1 read-only, later moves it to read-write and adds
\* u2, publishes a broken users.yaml, or deletes the ConfigMap.
MCConfigValues ==
    {[n \in {u1} |-> {r1}],
     [n \in {u1, u2} |-> IF n = u1 THEN {r2} ELSE {r1}],
     EmptySpec, Malformed, Absent}

\* The login scenario: u1 with no group roles, on a cluster without the
\* foreign user, so that nothing else is drift.
MCLoginValues == {[n \in {u1} |-> {}]}
MCLoginInitialRoles == [n \in MCNames |-> IF n = sys THEN "nologin" ELSE "absent"]

\* The role-change scenario alone: u1 moves from r1 to r2.
MCRoleChangeValues == {[n \in {u1} |-> {r1}], [n \in {u1} |-> {r2}]}
=============================================================================
