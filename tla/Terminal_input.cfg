CONSTANTS
    original_addr = 9
    v_mem_limit = 9
    SCREEN_WIDTH = 2
    SCREEN_SIZE = 4
    TTY_IN_BYTES = 2
    MaxKeys = 4
SPECIFICATION Spec
INVARIANTS NeverAhead ConsoleOK
PROPERTIES InOrder LineIsRead
