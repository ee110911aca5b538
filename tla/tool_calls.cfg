SPECIFICATION FairSpec
CONSTANTS
    e1 = e1
    e2 = e2
    o1 = o1
    None = None
    Exec <- TwoCalls
    Old <- OneBefore
    MaxExecutions = 1
    MaxPage = 2
    LocalTools = {"create_annotation"}
    HostedTools = {"get_metric_series", "create_saved_query", "update_saved_query", "delete_record"}
    Faults <- AllFaults
INVARIANTS
    TypeOK
    RefusalsAreTrue
    RepeatsChangeNothing
    ChangesNeedScope
PROPERTIES
    LogTellsTheTruth
    CancelledByCaller
    ProgressIsTrue
    EveryCallAnswered
