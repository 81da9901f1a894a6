CONSTANT Loops <- BaseLoop
INIT Init
NEXT Next
INVARIANT StageOrderTopological
