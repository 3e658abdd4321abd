\* a configuration error after a plugin's config was parsed, then the teardown
CONSTANTS
    Kinds <- MCKinds
    Yaml <- MCYamlBad
    Faults = {}
SPECIFICATION Spec
INVARIANT NoMemoryError
CHECK_DEADLOCK FALSE
