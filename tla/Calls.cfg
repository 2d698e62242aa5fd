\* Two HTTP requests at a time, three in all; the node dies and starts again.
SPECIFICATION FairSpec
CONSTANTS
    Thread = {1, 2}
    Job = {"j", "k"}
    Plugins <- PluginPairs
    MaxCalls = 3
INVARIANTS
    AnswersAddUp
    AcceptedOnce
    ShowsWhatRuns
PROPERTIES
    EveryCallEnds
CHECK_DEADLOCK FALSE
