\* Two plugins without a hint, nothing fails.
SPECIFICATION FairSpec
CONSTANTS
    mail = mail
    chat = chat
    news = news
    hostA = hostA
    hostB = hostB
    Callback <- TwoCallbacks
    Host <- OneHost
    Port <- OnePort
    MaxEdits = 2
    Budget = 0
PROPERTIES
    DiscoveredPublished
