SPECIFICATION Spec
CONSTANTS
    boss = boss
    clerk = clerk
    rep = rep
    Requests = {r1, r2, r3}
    Users <- MCUsers
    Roles <- MCRoles
    Scopes <- MCScopes
    Unrestricted <- MCUnrestricted
    Perms <- MCPerms
    Fields <- MCFields
    Values <- MCValues
    Binary <- MCBinary
    True <- MCTrue
    Order <- MCOrder
    Blank = "blank"
    Null = "null"
    Unset = "undefined"
    Entities <- MCEntities
    EntityField = "entity"
    ScopeFields <- MCScopeFields
    Level <- MCLevel
    Unique <- MCUnique
    DependsOn <- MCDependsOn
    Mandatory <- MCMandatory
    Links <- MCLinks
    FetchFrom <- MCFetchFrom
    Linked <- MCLinked
    Payloads <- MCPayloads
    Patches <- MCPatches
    Filters <- MCFilters
SYMMETRY Symmetry
CHECK_DEADLOCK FALSE
PROPERTIES
    LevelsEnforced
