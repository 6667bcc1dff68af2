\* Two users, one operation at a time, one failure of any step.
SPECIFICATION FairSpec
CONSTANTS
    alice = alice
    bob = bob
    User <- TwoUsers
    Port = {1, 2, 3}
    RouteId <- TwoUserIds
    GatewayId <- TwoUserGateway
    Owner <- TwoUserOwner
    Host <- TwoUserHost
    Uid <- Uids
    NewUid <- FreshUid
    Job = {j1}
    Commands = {"add", "activate", "deactivate", "remove"}
    Faults <- AnyStep
    Budget = 1
PROPERTIES
    OnlyRemoveDeletes
    AddRepairs
