SPECIFICATION FairSpec
CONSTANTS
    c1 = c1
    c2 = c2
    c3 = c3
    Client <- ThreeClients
    Absent = Absent
    Unreadable = Unreadable
    Unloaded = Unloaded
    Faults <- AllFaults
INVARIANTS TypeOK ReadsAreCurrent
PROPERTIES CallsAreAnswered ImplementsDurableDocument
