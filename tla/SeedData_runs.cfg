\* Any series of runs, each of which may stop anywhere, over a sound sheet
\* and over one with a dangling AccountName; one create at a time may outlive
\* the script that sent it.
CONSTANTS
    Sheets <- MCSheets
    InitialOrgs <- MCInitialOrgs
    MaxOrg = 9
    MaxLate = 1
    Nothing = Nothing
SPECIFICATION Spec
INVARIANTS TypeOK OneRecordPerRow CompleteWhenFinished
PROPERTIES RerunAddsNothing
