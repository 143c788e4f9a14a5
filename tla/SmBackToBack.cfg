SPECIFICATION Spec
CONSTANTS
    Warps = {w0, w1}
    NoWarp = NoWarp
    r1 = r1
    r2 = r2
    Regs = {r1, r2}
    R0 = R0
    FIFO_DEPTH = 3
    ALU_STAGES = 3
    Program <- BackToBack
    Junk = Junk
    NoResult = NoResult
INVARIANTS
    OperandsAreLatest
