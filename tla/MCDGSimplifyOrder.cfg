CONSTANTS
    m = m
    a = a
    b = b
    c = c
    Fns <- MCFns
    Main <- m
    CallGraphs <- AllCallGraphs
SYMMETRY Sym
SPECIFICATION Spec
INVARIANTS
    TypeOK
    DepthOrderComplete
