\* Two hooks on a governed and on a lightweight task, killed, failing and overlapping.
SPECIFICATION TurnSpec
SYMMETRY Interchangeable
CONSTANTS
    p1 = p1
    p2 = p2
    gov = gov
    light = light
    Hooks <- TwoProcs
    Names <- BothTasks
    Governed <- OneGoverned
    Paths <- TwoPaths
    Changes <- NoneOrBoth
    FlushAfter = 2
    MaxFiles = 1
    MaxBegun = 4
    MaxEnds = 1
    MaxKills = 1
    MaxFails = 1
INVARIANTS
    NoTurnIsLost
    QuietTurnsLandOnce
    OneRecordPerTask
CHECK_DEADLOCK FALSE
