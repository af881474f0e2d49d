CONSTANTS
    Attr = {A, B, C, D}
    MaxFDs = 2
    MaxSynthesized = 3
SPECIFICATION Spec
SYMMETRY Symmetry
INVARIANTS
    VerdictsExact
    CoverMinimal
    KeysExact
    SynthesisSound
    SplitsLossless
