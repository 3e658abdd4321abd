\* A plugin whose merged file name cannot be derived.
CONSTANTS
    NP = 3
    T = 2
    Interim <- MCInterim
    MergeStyle <- MCMergeStyle
    Faults = {"name"}
SPECIFICATION Spec
INVARIANT
    PluginStateMatches
\* corsaro_merge_plugin_outputs returns at the end of the plugin list
CHECK_DEADLOCK FALSE
