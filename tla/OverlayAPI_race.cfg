\* Two handlers at a time, no failures: a publication that listed early may
\* install its file late.
SPECIFICATION Spec
CONSTANTS
    alice = alice
    bob = bob
    catchAll = catchAll
    User <- OneUser
    Port = {1}
    Uid = {1001}
    RouteId <- FewIds
    GatewayId <- FewGateway
    Owner <- FewOwner
    Host <- FewHost
    Request = {r1, r2}
    CatchAll = catchAll
    Traffic <- UpsertsAndDisable
    Faults = {}
    InitialFile <- Existing
    Empty = Empty
    Torn = Torn
INVARIANTS
    Published
