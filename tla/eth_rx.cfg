SPECIFICATION Spec
CONSTANTS
    ETH_RX_DESC_CNT = 4
    Pool = 3
    MaxReass = 2
    MaxFrames = 9
INVARIANTS Intact Fifo PoolSuffices
PROPERTY NoFrameStuck
CHECK_DEADLOCK FALSE
