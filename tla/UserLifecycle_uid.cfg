\* One user, one failure; a recreated account may have another uid.
SPECIFICATION FairSpec
CONSTANTS
    alice = alice
    bob = bob
    User <- OneUser
    Port = {1, 2}
    RouteId <- OneUserIds
    GatewayId <- OneUserGateway
    Owner <- OneUserOwner
    Host <- OneUserHost
    Uid <- Uids
    NewUid <- FreshUid
    Job = {j1}
    Commands = {"add", "activate", "deactivate", "remove"}
    Faults <- AnyStep
    Budget = 1
PROPERTIES
    AddRepairsAlways
