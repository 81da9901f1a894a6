CONSTANT Loops <- RetValueLoop
INIT Init
NEXT Next
INVARIANT StagesPartitionLoop
