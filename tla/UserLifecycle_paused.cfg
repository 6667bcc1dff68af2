\* An Activate that fails late leaves services behind a paused row.
SPECIFICATION Spec
CONSTANTS
    alice = alice
    bob = bob
    User <- OneUser
    Port = {1, 2}
    RouteId <- OneUserIds
    GatewayId <- OneUserGateway
    Owner <- OneUserOwner
    Host <- OneUserHost
    Uid <- Uids
    NewUid <- OneUid
    Job = {j1}
    Commands = {"add", "activate", "deactivate", "remove"}
    Faults <- AnyStep
    Budget = 1
INVARIANTS
    PausedIsQuiet
