SPECIFICATION Spec
CONSTANTS
    j1 = j1
    j2 = j2
    NoJob = NoJob
    Jobs <- OneJob
    MaxCalls = 1
    MaxSpeech = 3
    MaxCrashes = 0
    MaxFailures = 0
INVARIANTS CancelledIsNotStarted
