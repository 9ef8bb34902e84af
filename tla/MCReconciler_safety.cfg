CONSTANTS
    u1 = u1  u2 = u2  x = x  r1 = r1  r2 = r2  sys = sys
    Absent = Absent
    Malformed = Malformed
    NoUser = NoUser
    NoFile = NoFile
    Torn = Torn
    Names <- MCNames
    SYSTEM_ROLES <- MCSystemRoles
    BadPrivileges = {}
    InitialRoles <- MCInitialRoles
    Secrets <- MCSecrets
    ConfigValues <- MCConfigValues
    DRY_RUN_MODES = {TRUE, FALSE}
    STATE_PERSISTENT = FALSE
    MaxFaults = 1
    MaxEdits = 1
    MaxExternal = 1
    MaxRestarts = 1
    MaxIOErrors = 1
SPECIFICATION Spec
INVARIANT TypeOK
PROPERTY OwnershipRefined
PROPERTY DryRunPurity
