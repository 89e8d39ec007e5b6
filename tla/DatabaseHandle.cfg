SPECIFICATION FairSpec
CONSTANTS
    MaxCalls = 2
    MaxOpens = 2
    MaxFaults = 2
INVARIANTS TypeOK Balanced AllOrNothing ReportIsTrue BlobPathWasAcknowledged
PROPERTIES ReturnsUnlessLeaked
