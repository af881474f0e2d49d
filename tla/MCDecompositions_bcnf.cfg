CONSTANTS
    Attr = {A, B, C, D}
    MaxFDs = 2
    MaxSynthesized = 0
SPECIFICATION Spec
SYMMETRY Symmetry
INVARIANTS
    BcnfReached
