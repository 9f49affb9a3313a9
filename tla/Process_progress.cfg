CONSTANTS
    PROC_NUMBER = 3
    HZ = 1
    TICK_WORD = 4
    Seconds = {1}
SPECIFICATION FairSpec
INVARIANT NoSleepOnSignal
PROPERTIES NoStarvation WaitedZombieReaped
