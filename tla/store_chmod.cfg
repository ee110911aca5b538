SPECIFICATION ChmodSpec
CONSTANTS
    c1 = c1
    c2 = c2
    c3 = c3
    Client <- TwoClients
    Absent = Absent
    Unreadable = Unreadable
    Unloaded = Unloaded
    Faults <- OnlyCrashes
PROPERTIES ImplementsDurableDocument
