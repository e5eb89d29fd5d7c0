SPECIFICATION Spec
CONSTANTS
    HANGUP_SILENCE = 1
    SEGMENT_GAP = 1
    GOODBYE_PROMPT_AFTER = 2
    GOODBYE_START_TIMEOUT = 2
    GOODBYE_LIMIT = 6
    LOOSE_LIMIT = 4
    AUDIO_IDLE = 1
    GOODBYE_TAIL = 1
    WAIT_TONE_QUIET = 1
    OutputLimit = 2
    QueueLimit = 1
    SeenLimit = 2
INVARIANTS TypeOK HangUpBounded GoodbyeNotCut
CHECK_DEADLOCK FALSE
