\* Three callbacks, two of which share a hostname, three edits, two failures or kills.
SPECIFICATION FairSpec
CONSTANTS
    mail = mail
    chat = chat
    news = news
    hostA = hostA
    hostB = hostB
    Callback <- ThreeCallbacks
    Host <- MixedHosts
    Port <- TwoPorts
    MaxEdits = 3
    Budget = 2
INVARIANTS
    TypeOK
    SettledInSync
    NoMissedEdit
PROPERTIES
    Converges
