SPECIFICATION Spec
CONSTANTS
    Users = {ann}
    Roles <- MCRoles
    Inherited <- MCInherited
    Workers = {w1, w2}
    Calls = {"activate", "deactivate", "rename", "remove", "invite", "role", "site", "delete"}
    MaxCalls = 3
    MaxFaults = 1
    None = None
INVARIANTS
    AccountsFollowRow
PROPERTIES
    SessionsFollowAccount
CHECK_DEADLOCK FALSE
