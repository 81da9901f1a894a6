CONSTANTS
    m = m
    a = a
    b = b
    c = c
    Fns <- MCFns
    Main <- m
    CallGraphs <- ChainGraph
SPECIFICATION Spec
INVARIANT
    EntrancesAreRecursive
