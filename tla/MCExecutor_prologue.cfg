CONSTANTS
    ByteBits = 2
    RegionAddr <- MCRegionAddr
    SYSTEM_START = 32
    STACK_INITIAL_ADDRESS = 24
    RegIdx = {0, 1, 2}
    sysA = sysA
    sysHalt = sysHalt
    Syscall = {sysA, sysHalt}
    HALT = sysHalt
    NoSyscall = NoSyscall
    NoOp = NoOp
    NoInstr = NoInstr
    NoReg = NoReg
    ENTRY = 0
    MaxCycles = 3
    Instrs <- MCPrologue
    BOOTSTRAPPED = FALSE
SPECIFICATION Spec
CHECK_DEADLOCK FALSE
PROPERTY ImplementsIsa
