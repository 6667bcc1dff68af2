\* Two goroutines, two wizards, one retry, two failures, misread looks or quits.
\* The program may end: no deadlock check.
SPECIFICATION FairSpec
CONSTANTS
    first = first
    second = second
    Worker <- Goroutines
    Hosts <- SomeHosts
    Tunnels <- NoneOrForeign
    MaxLaunches = 2
    MaxRetries = 1
    Budget = 2
INVARIANTS
    TypeOK
    InstalledMeansDone
PROPERTIES
    AccessKept
    WizardEnds
CHECK_DEADLOCK FALSE
