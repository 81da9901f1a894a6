CONSTANTS
    Loops <- PartitionLoops
    Modules <- MCModules
INIT ModuleInit
NEXT ModuleNext
INVARIANTS
    TypeOK
    StagesPartitionLoop
    QueuesWellFormed
    OperandsResolvable
    EnvironmentSlotsExact
    AnalysesFresh
    ReturnsModified
