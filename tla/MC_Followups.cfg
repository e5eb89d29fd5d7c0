SPECIFICATION Spec
CONSTANTS
    a = a
    b = b
    m = m
    n = n
    Threads = {a, b}
    Texts = {m, n}
    NoText = NoText
    Utterances <- Phrases
    BindingTurns = 1
    MaxCalls = 2
    MaxSpeech = 3
    MaxEvents = 1
INVARIANTS TypeOK OneUndecided
PROPERTIES SpokenAuthority CommandsOnce
CHECK_DEADLOCK FALSE
