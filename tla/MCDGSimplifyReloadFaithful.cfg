CONSTANTS
    m = m
    a = a
    b = b
    c = c
    Fns <- MCFns
    Main <- m
    Programs <- WrapperProgram
SPECIFICATION Spec
INVARIANT
    ReloadFaithful
