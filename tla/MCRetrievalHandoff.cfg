\* PROTOCOL.md gives handoffs a budget of their own; the filter lets none through.
SPECIFICATION Spec
SYMMETRY Interchangeable
CONSTANTS
    p1 = p1
    p2 = p2
    Procs <- TwoProcs
    Tasks <- TwoTasks
    Order <- SlotDocs
    Doc <- SlotDoc
    Sources <- OneSource
    Editable <- SomeEditable
    Asks <- SlotAsks
    Classes <- TwoClasses
    Common = 100
    Rare = 20
    Window = 6
    Budget <- SlotBudget
    Target = 8
    Hard = 10
    Places <- SomePlaces
    Rooms <- SomeRooms
    Mode = "enforce"
    Retention = 2
    Keep = 1
    Scope <- BothScopes
    MaxTurns = 2
    MaxEdits = 0
    MaxFaults = 1
INVARIANT HandoffsReachTheTask
CHECK_DEADLOCK FALSE
