CONSTANTS
    Loops <- PointerQueueLoop
    TripCounts <- MCTripCounts
    BreakIters <- MCBreakIters
    QueueCapacity = 1
    MaxIter = 3
    MaxStages = 6
INIT PipelineInit
NEXT PipelineNext
INVARIANT PipelineEquivalent
