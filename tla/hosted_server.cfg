SPECIFICATION FairSpec
CONSTANTS
    ann = ann
    bob = bob
    own = own
    Nobody = Nobody
    Scope = {"read", "write", "all"}
    Required = {"read"}
    Implies <- Hierarchy
    Assigned <- OneAssigned
    Config <- Configs
    Requests <- Clients
    HttpAttempts = 4
    Extension = {"id-jag", "client_credentials"}
    Capability = {"profile", "id-jag", "client_credentials"}
INVARIANTS
    TypeOK
    ServesOnlyChecked
    HandlerSeesVerified
    CallsUseOwnProject
    ChallengeIsFollowable
PROPERTIES
    StopsInOrder
    StartsAndStopsEnd
CHECK_DEADLOCK FALSE
