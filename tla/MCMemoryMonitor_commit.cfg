CONSTANTS
    ByteBits = 2
    RegionAddr <- MCRegionAddr
    SYSTEM_START = 8
    STACK_INITIAL_ADDRESS = 4
    RegIdx = {0, 2}
    Syscall = {sysA}
    NoSyscall = NoSyscall
    NoOp = NoOp
    StoreAddr <- MCStoreAddr
    StoreVal <- MCStoreValSmall
SPECIFICATION Spec
CONSTRAINT CommitBound
INVARIANT TypeOK
PROPERTY CommitAppliesTransaction
