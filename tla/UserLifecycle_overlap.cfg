\* Two operations at a time on one user, one failure of any step.
SPECIFICATION Spec
CONSTANTS
    alice = alice
    bob = bob
    User <- OneUser
    Port = {1, 2}
    RouteId <- OneUserIds
    GatewayId <- OneUserGateway
    Owner <- OneUserOwner
    Host <- OneUserHost
    Uid <- Uids
    NewUid <- OneUid
    Job = {j1, j2}
    Commands = {"add"}
    Faults <- AnyStep
    Budget = 1
PROPERTIES
    OnlyRemoveDeletes
