CONSTANTS
    m = m
    a = a
    b = b
    c = c
    Fns <- MCFns
    Main <- m
    Programs <- NestedProgram
SPECIFICATION Spec
INVARIANT
    ReloadFaithful
