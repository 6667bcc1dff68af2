\* No failures: a user with a plugin is paused and resumed.
SPECIFICATION Spec
CONSTANTS
    alice = alice
    bob = bob
    User <- OneUser
    Port = {1, 2}
    RouteId <- OneUserIds
    GatewayId <- OneUserGateway
    Owner <- OneUserOwner
    Host <- OneUserHost
    Uid <- Uids
    NewUid <- OneUid
    Job = {j1}
    Commands = {"add", "activate", "deactivate", "remove"}
    Faults <- NoStep
    Budget = 0
INVARIANTS
    ActivateResumesRoutes
