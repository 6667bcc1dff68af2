\* One handler at a time, no config.yml to begin with; everything may fail, the
\* write of the rollback included, and the daemon may die at any step.
SPECIFICATION Spec
CONSTANTS
    alice = alice
    bob = bob
    catchAll = catchAll
    User <- OneUser
    Port = {1}
    Uid = {1001}
    RouteId <- FewIds
    GatewayId <- FewGateway
    Owner <- FewOwner
    Host <- FewHost
    Request = {r1}
    CatchAll = catchAll
    Traffic <- AnythingOfAlice
    Faults = {"statement", "precheck", "write", "validate", "sighup", "rollback", "crash"}
    InitialFile <- Absent
    Empty = Empty
    Torn = Torn
INVARIANTS
    Published
