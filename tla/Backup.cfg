\* Two tenants, two jobs at a time, one failure or kill.  One job cannot read the
\* key; the other stands for root's timer and for the screen of an administrator
\* who was given the key.
SPECIFICATION Spec
CONSTANTS
    alice = alice
    bob = bob
    screen = screen
    timer = timer
    User <- Tenants
    Job <- Slots
    Console <- Slots
    KeyReaders <- TimerReads
    Overlaps <- FirstKeys
    MaxTime = 2
    MaxData = 2
    MaxJobs = 3
    Budget = 1
SYMMETRY Symmetry
INVARIANTS
    TypeOK
    BackupsKept
    DataKept
    OwnDataOnly
PROPERTIES
    RestoredWhole
