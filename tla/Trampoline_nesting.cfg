CONSTANTS
    Trampolines = {t1, t2, t3}
    MaxDepth = 5
SPECIFICATION TrampolineSpec
SYMMETRY Memory
INVARIANTS
    NoUseAfterFree
    EveryReferenceClaimed
