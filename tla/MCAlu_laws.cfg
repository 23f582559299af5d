CONSTANTS
    ByteBits = 1
    Syscall = {HALT}
    HALT = HALT
    NoInstr = NoInstr
    Operands <- MCOperands
SPECIFICATION Spec
INVARIANT DivRemSpec
INVARIANT MulHighLow
INVARIANT WordOpsSignExtend
