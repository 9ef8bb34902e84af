CONSTANTS
    u1 = u1  u2 = u2  x = x  r1 = r1  r2 = r2  sys = sys
    Absent = Absent
    Malformed = Malformed
    NoUser = NoUser
    NoFile = NoFile
    Torn = Torn
    Names <- MCNames
    SYSTEM_ROLES <- MCSystemRoles
    BadPrivileges = {}
    InitialRoles <- MCInitialRoles
    Secrets <- MCSecrets
    ConfigValues <- MCConfigValues
    DRY_RUN_MODES = {FALSE}
    STATE_PERSISTENT = TRUE
    MaxFaults = 1
    MaxEdits = 2
    MaxExternal = 0
    MaxRestarts = 1
    MaxIOErrors = 0
SPECIFICATION SpecM
CONSTRAINT RecordsBound
INVARIANT ErrorsCountFaults
