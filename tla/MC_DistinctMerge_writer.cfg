\* A merge writer that cannot be created.
CONSTANTS
    NP = 3
    T = 2
    Interim <- MCInterim
    MergeStyle <- MCMergeStyle
    Faults = {"writer"}
SPECIFICATION Spec
INVARIANT
    MergeReturns
\* corsaro_merge_plugin_outputs returns at the end of the plugin list
CHECK_DEADLOCK FALSE
