CONSTANTS
    ByteBits = 2
    nA = nA
    nB = nB
    noName = noName
    Names = {nA, nB}
    PatchSet = {nA}
    NoName = noName
    RetWord = 103
    MaxProgramHeaders = 2
    MEM_SIZE <- MCMemSize
    PLAYGROUND_BASE <- MCPlaygroundBase
    Inputs <- MCInputs
    SYSTEM_START = 32
    STACK_INITIAL_ADDRESS = 24
    RegIdx = {0, 1, 2}
    sysA = sysA
    sysHalt = sysHalt
    Syscall = {sysA, sysHalt}
    HALT = sysHalt
    NoSyscall = NoSyscall
    NoOp = NoOp
    NoInstr = NoInstr
    NoReg = NoReg
    NoSession = NoSession
    MaxCycles = 3
    Instrs <- MCInstrs
SPECIFICATION Spec
INVARIANT DumpShowsRegisters
CHECK_DEADLOCK FALSE
