SPECIFICATION FairSpec
CONSTANTS
    j1 = j1
    j2 = j2
    NoJob = NoJob
    Jobs <- TwoJobs
    MaxCalls = 1
    MaxSpeech = 2
    MaxCrashes = 1
    MaxFailures = 1
PROPERTIES CommandsOnce StartedIsAnnounced
