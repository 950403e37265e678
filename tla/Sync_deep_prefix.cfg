SPECIFICATION EditsSpec
CONSTANTS
    Keys <- MCKeys
    Source = en
    Targets = {de}
    Scans <- MCScans
    Policies <- MCPolicies
    FirstDocs <- MCFirstDocs
    MaxEdits = 2
PROPERTY ProtectedWordsKept
