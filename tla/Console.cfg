\* Two users, two orders and two openings of a screen, one failure, quit or change
\* by others; results arrive in any order.  The administrator may stop: no deadlock check.
SPECIFICATION Spec
CONSTANTS
    User <- TwoUsers
    Sorted <- InOrder
    Screens <- AllScreens
    Fleets <- SomeFleets
    Hosts <- SomeFirewalls
    Drifts <- SomeFiles
    MaxSlots = 2
    MaxInbox = 1
    MaxOpens = 2
    MaxOrders = 2
    Budget = 1
INVARIANTS
    TypeOK
    ListCurrent
    BusyIsTrue
PROPERTIES
    NothingUnasked
    PlannedPortsOpen
    RepairsReported
CHECK_DEADLOCK FALSE
