\* One handler at a time, config.yml present; statements, checks, writes and
\* both commands may fail, the write of the rollback may not.
SPECIFICATION FairSpec
CONSTANTS
    alice = alice
    bob = bob
    catchAll = catchAll
    User <- TwoUsers
    Port = {1, 2}
    Uid = {1001}
    RouteId <- TwoUserIds
    GatewayId <- TwoUserGateway
    Owner <- TwoUserOwner
    Host <- TwoUserHost
    Request = {r1}
    CatchAll = catchAll
    Traffic <- AliceAndBob
    Faults = {"statement", "precheck", "write", "validate", "sighup"}
    InitialFile <- Existing
    Empty = Empty
    Torn = Torn
INVARIANTS
    TypeOK
    IdleInSync
    Published
PROPERTIES
    PublishesAtomically
    RollsBackOnFailure
    TenantsTouchOwnRoutes
    Answered
