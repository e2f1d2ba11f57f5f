SPECIFICATION Spec
CONSTANTS
    Requests <- AllRequests
    CallerPrefixes <- OnePrefix
    MaxCached = 1
    Nothing = Nothing
INVARIANTS
    ArtifactsHitIsOwn
    SearchHitIsOwn
    LabelsHitIsOwn
CHECK_DEADLOCK FALSE
