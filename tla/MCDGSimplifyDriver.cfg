CONSTANTS
    m = m
    a = a
    b = b
    c = c
    Fns <- MCFns
    Main <- m
    Programs <- AllPrograms
SPECIFICATION Spec
INVARIANTS
    TypeOK
    WorkListExact
PROPERTIES
    Termination
