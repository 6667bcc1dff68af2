\* One operation at a time, two users, one with a plugin; one failure of a step of
\* Deactivate or Remove, or of Add before it starts anything.
SPECIFICATION Spec
CONSTANTS
    alice = alice
    bob = bob
    User <- BothUsers
    Port = {1, 2, 3}
    RouteId <- BothUsersIds
    GatewayId <- BothUsersGateway
    Owner <- BothUsersOwner
    Host <- BothUsersHost
    Uid <- Uids
    NewUid <- OneUid
    Job = {j1}
    Commands = {"add", "activate", "deactivate", "remove"}
    Faults <- EarlySteps
    Budget = 1
INVARIANTS
    TypeOK
    SuccessHolds
    PausedIsQuiet
    RoutedToOwner
PROPERTIES
    NothingLost
