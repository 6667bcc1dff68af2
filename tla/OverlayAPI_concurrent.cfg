\* Two handlers at a time, two plugins that claim one hostname.  Their writes of
\* config.yml.tmp overlap; a file they tore fails its validation and is rolled
\* back, the rollback may fail, and the daemon may crash.
SPECIFICATION Spec
CONSTANTS
    alice = alice
    bob = bob
    catchAll = catchAll
    User <- OneUser
    Port = {1, 2}
    Uid = {1001}
    RouteId <- OneUserIds
    GatewayId <- OneUserGateway
    Owner <- OneUserOwner
    Host <- OneUserHost
    Request = {r1, r2}
    CatchAll = catchAll
    Traffic <- UpsertsOfPlugins
    Faults = {"rollback", "crash"}
    InitialFile <- Existing
    Empty = Empty
    Torn = Torn
SYMMETRY Handlers
INVARIANTS
    OneRulePerHost
