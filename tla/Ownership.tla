------------------------------ MODULE Ownership ------------------------------
(***************************************************************************)
(* What the controller promises about the roles of the cluster, abstractly *)
(* (spec.md 3, 4.4 and 8.1): it records, as the set of users it owns, the  *)
(* user set of some published ConfigMap (or nothing, when that record is   *)
(* lost); it creates group roles, and login users only for names that have *)
(* a password; it drops a role only when the role is owned at that moment. *)
(* A database administrator changes any non-system role at will; every such *)
(* change is counted, so that it cannot stand in for a step of the         *)
(* controller.  Memberships are left out.                                  *)
(***************************************************************************)
EXTENDS Naturals

CONSTANTS
    Names,         \* every role name of the cluster
    SYSTEM_ROLES,  \* roles no administrator step of the model touches
    Secrets,       \* the names that have a password Secret
    Ownable,       \* the user sets of the ConfigMaps that can be published
    InitialRoles   \* the name -> kind function at start

VARIABLES
    roles,    \* name -> "absent", "login" or "nologin"
    owned,    \* the users the controller considers its own
    manual    \* the number of changes made by an administrator

vars == <<roles, owned, manual>>

Kinds == {"absent", "login", "nologin"}

Init ==
    /\ roles = InitialRoles
    /\ owned = {}
    /\ manual = 0

CreateGroup(r) ==
    /\ roles[r] = "absent"
    /\ roles' = [roles EXCEPT ![r] = "nologin"]
    /\ UNCHANGED <<owned, manual>>

CreateLogin(u) ==
    /\ u \in Secrets
    /\ roles[u] = "absent"
    /\ roles' = [roles EXCEPT ![u] = "login"]
    /\ UNCHANGED <<owned, manual>>

DropOwned(u) ==
    /\ u \in owned
    /\ roles[u] # "absent"
    /\ roles' = [roles EXCEPT ![u] = "absent"]
    /\ UNCHANGED <<owned, manual>>

Record(S) ==
    /\ S \in Ownable
    /\ owned' = S
    /\ UNCHANGED <<roles, manual>>

\* Creating, dropping, granting to or revoking from a non-system role.
ManualChange(n, k) ==
    /\ n \notin SYSTEM_ROLES
    /\ roles' = [roles EXCEPT ![n] = k]
    /\ manual' = manual + 1
    /\ UNCHANGED owned

Next ==
    \/ \E n \in Names : CreateGroup(n) \/ CreateLogin(n) \/ DropOwned(n)
    \/ \E S \in Ownable : Record(S)
    \/ \E n \in Names, k \in Kinds : ManualChange(n, k)

Spec == Init /\ [][Next]_vars
=============================================================================
