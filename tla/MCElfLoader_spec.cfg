CONSTANTS
    ByteBits = 2
    MaxMem <- MCMaxMem
    MaxProgramHeaders = 2
    nA = nA
    nB = nB
    noName = noName
    Names = {nA, nB}
    PatchSet = {nA}
    NoName = noName
    RetWord = 103
    Inputs <- MCInputs
SPECIFICATION Spec
INVARIANT LoadElfMatchesSpec
