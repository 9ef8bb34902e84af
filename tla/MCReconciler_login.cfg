CONSTANTS
    u1 = u1  u2 = u2  x = x  r1 = r1  r2 = r2  sys = sys
    Absent = Absent
    Malformed = Malformed
    NoUser = NoUser
    NoFile = NoFile
    Torn = Torn
    Names <- MCNames
    SYSTEM_ROLES <- MCSystemRoles
    BadPrivileges = {}
    InitialRoles <- MCLoginInitialRoles
    Secrets <- MCSecrets
    ConfigValues <- MCLoginValues
    DRY_RUN_MODES = {FALSE}
    STATE_PERSISTENT = TRUE
    MaxFaults = 0
    MaxEdits = 0
    MaxExternal = 1
    MaxRestarts = 0
    MaxIOErrors = 0
SPECIFICATION Spec
PROPERTY DriftReportsLoginGap
