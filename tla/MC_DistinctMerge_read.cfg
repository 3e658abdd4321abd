\* A read error part way through an interim file.
CONSTANTS
    NP = 3
    T = 2
    Interim <- MCInterim
    MergeStyle <- MCMergeStyle
    Faults = {"read"}
SPECIFICATION Spec
INVARIANT
    ErrorFreeMergeComplete
\* corsaro_merge_plugin_outputs returns at the end of the plugin list
CHECK_DEADLOCK FALSE
