\* One sync that ends before its save, and an edit back.
SPECIFICATION Spec
CONSTANTS
    mail = mail
    chat = chat
    news = news
    hostA = hostA
    hostB = hostB
    Callback <- TwoCallbacks
    Host <- OwnHosts
    Port <- TwoPorts
    MaxEdits = 3
    Budget = 1
INVARIANTS
    DeclaredPortServed
