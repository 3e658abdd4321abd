\* malloc of a plugin copy fails while the list is built or a plugin enabled
CONSTANTS
    Kinds <- MCKinds
    Yaml <- MCYaml
    Faults = {"alloc"}
SPECIFICATION Spec
INVARIANT NoMemoryError
CHECK_DEADLOCK FALSE
