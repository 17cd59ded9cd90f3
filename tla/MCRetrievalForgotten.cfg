\* A turn that dies after it was remembered: its repeat is withheld, although the
\* task was never handed anything.
SPECIFICATION Spec
SYMMETRY Interchangeable
CONSTANTS
    p1 = p1
    p2 = p2
    Procs <- TwoProcs
    Tasks <- TwoTasks
    Order <- SixDocs
    Doc <- SixDoc
    Sources <- OneSource
    Editable <- SomeEditable
    Asks <- SomeAsks
    Classes <- TwoClasses
    Common = 50
    Rare = 20
    Window = 6
    Budget <- SomeBudget
    Target = 8
    Hard = 10
    Places <- SomePlaces
    Rooms <- SomeRooms
    Mode = "enforce"
    Retention = 2
    Keep = 1
    Scope <- BothScopes
    MaxTurns = 2
    MaxEdits = 0
    MaxFaults = 1
INVARIANT RememberedMeansDelivered
CHECK_DEADLOCK FALSE
