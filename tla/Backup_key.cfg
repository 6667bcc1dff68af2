\* The user screen does not run as root: its process cannot read the key.
SPECIFICATION Spec
CONSTANTS
    alice = alice
    bob = bob
    screen = screen
    timer = timer
    User <- Tenants
    Job <- Slots
    Console <- ScreenOnly
    KeyReaders <- TimerReads
    Overlaps <- Spaced
    MaxTime = 2
    MaxData = 2
    MaxJobs = 3
    Budget = 1
INVARIANTS
    RecordedRestorable
