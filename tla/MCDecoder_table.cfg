CONSTANTS
    Words <- MCSpecWords
    AnyFunct7 <- MCAnyFunct7
    AnyRs2 <- MCAnyRs2
SPECIFICATION Spec
INVARIANT DecodeMatchesSpec
