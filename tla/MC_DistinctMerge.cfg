\* Name, writer, reader-open and write failures of the merge API.
CONSTANTS
    NP = 3
    T = 2
    Interim <- MCInterim
    MergeStyle <- MCMergeStyle
    Faults = {"name", "writer", "open", "write"}
SPECIFICATION Spec
INVARIANTS
    TypeOK
    MergedInOrder
    ErrorFreeMergeComplete
\* corsaro_merge_plugin_outputs returns at the end of the plugin list
CHECK_DEADLOCK FALSE
