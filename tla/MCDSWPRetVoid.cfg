CONSTANTS
    Loops <- RetVoidLoop
INIT Init
NEXT Next
INVARIANT
    PassNeverCrashes
