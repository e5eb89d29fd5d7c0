SPECIFICATION Spec
CONSTANTS
    j1 = j1
    j2 = j2
    NoJob = NoJob
    Jobs <- OneJob
    MaxCalls = 2
    MaxSpeech = 3
    MaxCrashes = 1
    MaxFailures = 0
INVARIANTS TypeOK ConfirmedWhereProposed NoticedOnce
PROPERTIES WithdrawnSendsNothing
