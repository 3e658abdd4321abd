\* plugins: [report, flowtuple], loaded as flowtuple, report: the copy of flowtuple keeps its next pointer
CONSTANTS
    Kinds <- MCKinds
    Yaml <- MCYaml
    Faults = {}
SPECIFICATION Spec
INVARIANT ActiveListIsEnabledCopies
CHECK_DEADLOCK FALSE
