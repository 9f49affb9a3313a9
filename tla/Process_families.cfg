CONSTANTS
    PROC_NUMBER = 4
    HZ = 1
    TICK_WORD = 3
    Seconds = {}
SPECIFICATION Spec
INVARIANTS TypeOK ParentAlive WaiterHasChild NoLostWakeup HangNeedsPause NoParentCycle
PROPERTIES ImplementsLife
